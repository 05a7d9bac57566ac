--------------------------- MODULE ExamplesProofs ---------------------------
(***************************************************************************)
(* Theorems about ExampleCli, for any socket numbers, sizes and number of  *)
(* clients, and about DkmDemo, for any files, handles, commands and        *)
(* failures.                                                               *)
(***************************************************************************)
EXTENDS DkmDemo, ExampleCli, FiniteSetTheorems, WellFoundedInduction, TLAPS

-----------------------------------------------------------------------------
(* ExampleCli.                                                             *)

ExampleTypes ==
  /\ ExampleTypeOK
  /\ at \in {"accept", "recv", "key", "command", "quit", "giveUp", "end", "forget", "close", "join"}
  /\ at = "key" => unread > 0

\* The handle is that of the client at hand, and main leaves a client with it closed.
OneSession ==
  /\ handle \in {0, session}
  /\ handle = 0 => receiver = "none"
  /\ at \in {"accept", "giveUp"} => handle = 0
  /\ at \in {"close", "join"} => handle # 0
  /\ at # "accept" => session > 0 /\ accepted # INVALID

\* Whose a number is: nobody's, the client's or the handle's.
Owners ==
  \A s \in Numbers :
    \/ use[s] = 0
    \/ use[s] = session /\ s = accepted /\ at \notin {"accept", "quit", "forget", "close", "join"}
    \/ use[s] = MaxSessions + session /\ s = sock /\ handle # 0

\* The client's number and that of the handle's socket differ, however often each is closed.
TwoNumbers ==
  /\ handle # 0 => sock \in Numbers /\ sock # accepted
  /\ {gClientSock, copy} \subseteq {INVALID, accepted}
  /\ receiver # "send" => copy = INVALID
  /\ at \in {"key", "command", "quit", "giveUp"} => gClientSock # INVALID
  /\ at \in {"recv", "key", "command", "giveUp"} /\ gClientSock # INVALID => use[accepted] = session
  /\ at = "giveUp" => sock \in Numbers /\ use[sock] = 0

SessionInv == ExampleTypes /\ OneSession /\ Owners /\ TwoNumbers

\* No client and no handle, initially.
LEMMA InitSessionInv == ExampleInit => SessionInv
<1> SUFFICES ASSUME ExampleInit PROVE SessionInv
  OBVIOUS
<1>1. use \in [Numbers -> 0 .. 2 * MaxSessions] /\ \A s \in Numbers : use[s] = 0
  BY ExampleAssumption DEF ExampleInit
<1>2. ExampleTypes
  <2>1. lineIdx \in 0 .. LineSize - 1 /\ unread \in 0 .. ChunkSize /\ keys \in 0 .. MaxKeys /\ session \in 0 .. MaxSessions
    BY ExampleAssumption DEF ExampleInit
  <2>2. {gClientSock, accepted, sock, copy} \subseteq Numbers \cup {INVALID} /\ {asked, closing} \subseteq BOOLEAN
    BY DEF ExampleInit
  <2> QED
    BY <1>1, <2>1, <2>2 DEF ExampleInit, ExampleTypes, ExampleTypeOK
<1> QED
  BY <1>1, <1>2 DEF ExampleInit, SessionInv, OneSession, Owners, TwoNumbers, INVALID

\* Closing a number frees it, and no other.
LEMMA Freed == ExampleTypeOK => \A s : [use EXCEPT ![s] = 0] \in [Numbers -> 0 .. 2 * MaxSessions]
<1>1. 0 \in 0 .. 2 * MaxSessions
  BY ExampleAssumption
<1> QED
  BY <1>1 DEF ExampleTypeOK

\* Every step keeps the types of ExampleCli.
LEMMA ExampleTypesStep == SessionInv /\ [ExampleNext]_exampleVars => ExampleTypes'
<1> SUFFICES ASSUME SessionInv, [ExampleNext]_exampleVars PROVE ExampleTypes'
  OBVIOUS
<1> USE ExampleAssumption DEF SessionInv, ExampleTypes, ExampleTypeOK, OneSession, Sessions, INVALID, lineVars, handleVars, receiverVars
<1>1. CASE AcceptClient
  BY <1>1 DEF AcceptClient, MainGoes, FreeNumbers
<1>2. CASE RecvKeys
  BY <1>2 DEF RecvKeys
<1>3. CASE EditKey
  BY <1>3 DEF EditKey, NextKey
<1>4. CASE EndOfLine
  BY <1>4 DEF EndOfLine, NextKey
<1>5. CASE Answered
  BY <1>5 DEF Answered, CommandEnds
<1>6. CASE Request
  BY <1>6 DEF Request, CommandEnds
<1>7. CASE QuitCloses
  BY <1>7 DEF QuitCloses, MainGoes
<1>8. CASE QuitForgets
  BY <1>8 DEF QuitForgets, CommandEnds
<1>9. CASE TransportOpens
  <2>1. PICK s \in FreeNumbers : sock' = s /\ use' = [use EXCEPT ![s] = MaxSessions + session]
    BY <1>9 DEF TransportOpens
  <2>2. s \in Numbers /\ use' \in [Numbers -> 0 .. 2 * MaxSessions]
    BY <2>1 DEF FreeNumbers
  <2>3. handle' \in {0} \cup Sessions
    BY <1>9 DEF TransportOpens, Connect
  <2>4. lineIdx' \in 0 .. LineSize - 1 /\ unread' \in 0 .. ChunkSize /\ (at' = "key" => unread' > 0) /\ at' \in {"recv", "key"}
    BY <1>9 DEF TransportOpens, CommandEnds
  <2>5. sock' \in Numbers /\ UNCHANGED <<session, gClientSock, accepted, keys, copy>> /\ {asked', closing'} \subseteq BOOLEAN
        /\ receiver' = "loop"
    BY <1>9, <2>1, <2>2 DEF TransportOpens
  <2> QED
    BY <2>2, <2>3, <2>4, <2>5
<1>10. CASE TransportFails
  BY <1>10 DEF TransportFails, Connect, FreeNumbers
<1>11. CASE GiveUp
  <2>1. use' \in [Numbers -> 0 .. 2 * MaxSessions]
    BY <1>11, Freed DEF GiveUp, TransportCloses
  <2> QED
    BY <1>11, <2>1 DEF GiveUp, TransportCloses, CommandEnds
<1>12. CASE EndCloses
  BY <1>12 DEF EndCloses, MainGoes
<1>13. CASE EndForgets
  BY <1>13 DEF EndForgets
<1>14. CASE AgentStops
  BY <1>14 DEF AgentStops, MainGoes
<1>15. CASE AgentClosed
  <2>1. use' \in [Numbers -> 0 .. 2 * MaxSessions]
    BY <1>15, Freed DEF AgentClosed, TransportCloses
  <2> QED
    BY <1>15, <2>1 DEF AgentClosed, MainGoes, TransportCloses
<1>16. CASE PrintTests
  BY <1>16 DEF PrintTests
<1>17. CASE PrintSends
  BY <1>17 DEF PrintSends
<1>18. CASE ReceiveEnds
  BY <1>18 DEF ReceiveEnds
<1>19. CASE NoMoreClients
  BY <1>19 DEF NoMoreClients, exampleVars
<1>20. CASE UNCHANGED exampleVars
  BY <1>20 DEF exampleVars
<1> QED
  BY <1>1, <1>2, <1>3, <1>4, <1>5, <1>6, <1>7, <1>8, <1>9, <1>10, <1>11, <1>12, <1>13, <1>14, <1>15, <1>16, <1>17, <1>18, <1>19, <1>20 DEF ExampleNext

\* Every step keeps the sessions apart.
LEMMA SessionStep == SessionInv /\ [ExampleNext]_exampleVars => SessionInv'
<1> SUFFICES ASSUME SessionInv, [ExampleNext]_exampleVars PROVE OneSession' /\ Owners' /\ TwoNumbers'
  BY ExampleTypesStep DEF SessionInv
<1>0. /\ session \in 0 .. MaxSessions /\ MaxSessions \in Nat /\ DOMAIN use = Numbers /\ INVALID \notin Numbers
      /\ {gClientSock, accepted, sock, copy} \subseteq Numbers \cup {INVALID}
      /\ session > 0 => MaxSessions + session # session
      /\ use \in [Numbers -> Nat]
  BY ExampleAssumption DEF SessionInv, ExampleTypes, ExampleTypeOK, INVALID
<1>a. OneSession /\ Owners /\ TwoNumbers
  BY DEF SessionInv
<1> USE <1>0, <1>a DEF OneSession, Owners, TwoNumbers, lineVars, handleVars, receiverVars
<1>1. CASE AcceptClient
  <2>1. PICK s \in FreeNumbers : use' = [use EXCEPT ![s] = session'] /\ gClientSock' = s /\ accepted' = s
    BY <1>1 DEF AcceptClient
  <2>2. s \in Numbers /\ s # INVALID /\ session' = session + 1 /\ at = "accept" /\ at' = "recv"
        /\ UNCHANGED <<handle, sock, receiver, copy>> /\ handle = 0 /\ receiver = "none"
    BY <1>1, <2>1 DEF AcceptClient, MainGoes, FreeNumbers
  <2>3. \A n \in Numbers : use'[n] = IF n = s THEN session' ELSE 0
    BY <2>1, <2>2
  <2>4. copy' = INVALID
    BY <2>2
  <2> QED
    BY <2>1, <2>2, <2>3, <2>4
<1>2. CASE RecvKeys
  BY <1>2 DEF RecvKeys
<1>3. CASE EditKey
  BY <1>3 DEF EditKey, NextKey
<1>4. CASE EndOfLine
  BY <1>4 DEF EndOfLine, NextKey
<1>5. CASE Answered
  BY <1>5 DEF Answered, CommandEnds
<1>6. CASE Request
  BY <1>6 DEF Request, CommandEnds
<1>7. CASE QuitCloses
  BY <1>7 DEF QuitCloses, MainGoes
<1>8. CASE QuitForgets
  BY <1>8 DEF QuitForgets, CommandEnds
<1>9. CASE TransportOpens
  BY <1>9 DEF TransportOpens, Connect, CommandEnds, FreeNumbers
<1>10. CASE TransportFails
  BY <1>10 DEF TransportFails, Connect, FreeNumbers
<1>11. CASE GiveUp
  BY <1>11 DEF GiveUp, TransportCloses, CommandEnds
<1>12. CASE EndCloses
  BY <1>12 DEF EndCloses, MainGoes
<1>13. CASE EndForgets
  BY <1>13 DEF EndForgets
<1>14. CASE AgentStops
  BY <1>14 DEF AgentStops, MainGoes
<1>15. CASE AgentClosed
  BY <1>15 DEF AgentClosed, MainGoes, TransportCloses
<1>16. CASE PrintTests
  BY <1>16 DEF PrintTests
<1>17. CASE PrintSends
  BY <1>17 DEF PrintSends
<1>18. CASE ReceiveEnds
  BY <1>18 DEF ReceiveEnds
<1>19. CASE NoMoreClients
  BY <1>19 DEF NoMoreClients, exampleVars
<1>20. CASE UNCHANGED exampleVars
  BY <1>20 DEF exampleVars
<1> QED
  BY <1>1, <1>2, <1>3, <1>4, <1>5, <1>6, <1>7, <1>8, <1>9, <1>10, <1>11, <1>12, <1>13, <1>14, <1>15, <1>16, <1>17, <1>18, <1>19, <1>20 DEF ExampleNext

\* What the receive thread and main find.
LEMMA SessionProperty == SessionInv => SessionsApart
  BY ExampleAssumption DEF SessionInv, ExampleTypes, ExampleTypeOK, OneSession, Owners, TwoNumbers, SessionsApart, INVALID

\* Every variable of ExampleCli has its type.
THEOREM ExampleTypeCorrect == ExampleSpec => []ExampleTypeOK
<1>1. SessionInv => ExampleTypeOK
  BY DEF SessionInv, ExampleTypes
<1> QED
  BY InitSessionInv, SessionStep, <1>1, PTL DEF ExampleSpec

\* What is printed for a handle reaches nobody but the client it was opened for, and what is closed
\* twice is never somebody else's, for any number of clients and socket numbers.
THEOREM SessionsAreApart == ExampleSpec => []SessionsApart
  BY InitSessionInv, SessionStep, SessionProperty, PTL DEF ExampleSpec

-----------------------------------------------------------------------------
(* DkmDemo.                                                                *)

\* Who runs when: a task only with g_running or until Stop has waited for it, and one load at a time.
Phases ==
  /\ running => shell = "idle"
  /\ shell \in {"idle", "load"} /\ ~running => srv = "none"
  /\ shell \in {"stopAgent", "stopClose", "stopCache"} => srv = "none"
  /\ srv \in {"want", "hold"} => then \in {"enter", "recv", "info", "give"}
  /\ srv = "write" <=> found # NONE
  /\ srv \in {"close", "closing", "forget"} \/ shell = "stopClose" => agent # 0
  /\ shell = "stopCache" => agent = 0
  /\ todo # {} => shell = "load" \/ srv = "load"

\* The table is filled from the files not read yet, and emptied when the task is gone.
Table ==
  /\ count = Cardinality(InUse)
  /\ found # NONE => cache[found] # NONE
  /\ ~dirty => \A s \in InUse : cache[s] \notin todo /\ \A r \in InUse : cache[s] = cache[r] => s = r
  /\ ~dirty /\ shell = "idle" /\ ~running => InUse = {}

\* The two mutexes are there while a task is, and the cache's is held by it.
Mutexes ==
  /\ cliSem <=> cacheSem
  /\ shell = "load" \/ srv # "none" \/ agent # 0 => cliSem
  /\ cacheHeld <=> srv = "give" \/ (srv \in {"want", "hold"} /\ then = "give")

CacheInv == TypeOK /\ Phases /\ Table /\ Mutexes

\* The window between delete h and g_agent = NULL is not hit, and connect is done within Stop's 100 ms.
Unhurried == ~Window /\ "connect" \notin Slow

\* A handle lives from legacy_agent_init on until it is deleted.
Alive(h) ==
  \/ h = agent /\ srv # "forget"
  \/ srv = "connect" /\ h = opened

\* g_agent is the handle to be closed, and every other one has been.
Closed ==
  /\ srv = "connect" => agent = 0 /\ opened > 0
  /\ \A h \in Handles :
       /\ frees[h] = IF h <= opened /\ ~Alive(h) THEN 1 ELSE 0
       /\ ~Alive(h) => rx[h] = "none"

QuietInv == CacheInv /\ Closed

\* A set of naturals that is not empty has a least element.
LEMMA Least ==
  ASSUME NEW S, S \subseteq Nat, S # {}
  PROVE  \E s \in S : \A r \in S : s <= r
<1>1. PICK s \in S : \A r \in S : ~ (<<r, s>> \in OpToRel(<, Nat))
  <2> DEFINE R == OpToRel(<, Nat)
  <2>1. IsWellFoundedOn(R, Nat)
    BY NatLessThanWellFounded
  <2> HIDE DEF R
  <2>2. \E s \in S : \A r \in S : ~ (<<r, s>> \in R)
    BY <2>1, WFMin
  <2> QED
    BY <2>2 DEF R
<1>2. \A r \in S : ~ (r < s)
  BY <1>1 DEF OpToRel
<1> QED
  BY <1>2

\* The slots, and those in use, are finitely many.
LEMMA FewInUse == IsFiniteSet(InUse) /\ Cardinality(InUse) \in Nat
<1>1. IsFiniteSet(Slots)
  BY FS_Interval, DkmAssumption DEF Slots
<1>2. InUse \in SUBSET Slots
  BY DEF InUse
<1> QED
  BY <1>1, <1>2, FS_Subset, FS_CardinalityType

\* load_json_file puts the type into a slot that was free, or leaves the table.
LEMMA Loaded ==
  ASSUME TypeOK, NEW f \in Files, LoadFile(f)
  PROVE  \/ UNCHANGED <<cache, count>>
         \/ \E s \in Slots : /\ cache[s] = NONE /\ count < CacheSize
                             /\ cache' = [cache EXCEPT ![s] = f]
                             /\ count' = count + 1
<1>1. CASE count >= CacheSize \/ Free = {}
  BY <1>1 DEF LoadFile
<1>2. CASE ~ (count >= CacheSize \/ Free = {})
  <2> DEFINE s == CHOOSE i \in Free : \A j \in Free : i <= j
  <2>1. Free \subseteq Nat
    BY DEF Free, Slots
  <2>2. \E i \in Free : \A j \in Free : i <= j
    BY <1>2, <2>1, Least
  <2>3. s \in Free
    BY <2>2
  <2>4. cache' = [cache EXCEPT ![s] = f] /\ count' = count + 1
    BY <1>2 DEF LoadFile
  <2>5. count < CacheSize
    BY <1>2, DkmAssumption DEF TypeOK
  <2> QED
    BY <2>3, <2>4, <2>5 DEF Free
<1> QED
  BY <1>1, <1>2

\* The counter follows the table.
LEMMA Counted ==
  ASSUME TypeOK, NEW s \in Slots, NEW f \in Files, cache[s] = NONE, cache' = [cache EXCEPT ![s] = f],
         count = Cardinality(InUse), count' = count + 1
  PROVE  InUse' = InUse \cup {s} /\ count' = Cardinality(InUse')
<1>1. InUse' = InUse \cup {s} /\ s \notin InUse
  BY DkmAssumption DEF InUse, TypeOK
<1> QED
  BY <1>1, FewInUse, FS_AddElement

\* Reading a file keeps the table.
LEMMA TableLoaded ==
  ASSUME TypeOK, Table, NEW f \in todo, LoadFile(f), f \in Files, todo' = todo \ {f},
         UNCHANGED <<found, dirty>>, shell' # "idle" \/ running'
  PROVE  Table'
<1>1. CASE UNCHANGED <<cache, count>>
  BY <1>1 DEF Table, InUse
<1>2. CASE ~ UNCHANGED <<cache, count>>
  <2>1. PICK s \in Slots : cache[s] = NONE /\ cache' = [cache EXCEPT ![s] = f] /\ count' = count + 1
    BY <1>2, Loaded
  <2>2. InUse' = InUse \cup {s} /\ count' = Cardinality(InUse')
    BY <2>1, Counted DEF Table
  <2>3. \A r \in Slots : cache'[r] = IF r = s THEN f ELSE cache[r]
    BY <2>1 DEF TypeOK
  <2>4. found' # NONE => cache'[found'] # NONE
    BY <2>1, DkmAssumption DEF Table, TypeOK
  <2>5. \A r \in InUse' : r \in Slots /\ (r = s \/ r \in InUse)
    BY <2>2 DEF InUse
  <2>6. ~dirty' => \A r \in InUse' : cache'[r] \notin todo' /\ \A q \in InUse' : cache'[r] = cache'[q] => r = q
    BY <2>3, <2>5 DEF Table
  <2> QED
    BY <2>2, <2>4, <2>6 DEF Table
<1> QED
  BY <1>1, <1>2

\* get_cached_json returns an entry of the type asked for.
LEMMA Hit ==
  ASSUME TypeOK, NEW f \in Files, Cached(f) # NONE
  PROVE  Cached(f) \in Slots /\ cache[Cached(f)] = f
<1> DEFINE hits == {s \in Slots : cache[s] = f}
<1>1. hits # {} /\ Cached(f) = CHOOSE s \in hits : \A r \in hits : s <= r
  BY DEF Cached
<1>2. hits \subseteq Nat
  BY DEF Slots
<1>3. \E s \in hits : \A r \in hits : s <= r
  BY <1>1, <1>2, Least
<1>4. Cached(f) \in hits
  BY <1>1, <1>3
<1> QED
  BY <1>4

Flags ==
  /\ running \in BOOLEAN /\ serverSock \in BOOLEAN /\ late \in BOOLEAN
  /\ cliSem \in BOOLEAN /\ cacheSem \in BOOLEAN /\ cacheHeld \in BOOLEAN /\ dirty \in BOOLEAN

\* Nothing is started, cached or opened at first.
LEMMA InitQuietInv == Init => CacheInv /\ Closed
<1> SUFFICES ASSUME Init PROVE CacheInv /\ Closed
  OBVIOUS
<1>1. InUse = {} /\ Cardinality(InUse) = 0
  BY FS_EmptySet DEF Init, InUse
<1>2. TypeOK
  <2>1. 0 \in 0 .. opened /\ opened \in 0 .. MaxHandles /\ count \in 0 .. CacheSize /\ starts \in 0 .. MaxStarts /\ lines \in 0 .. MaxLines
    BY DkmAssumption DEF Init
  <2>2. cache \in [Slots -> Files \cup {NONE}] /\ frees \in [Handles -> Nat] /\ rx \in [Handles -> {"none", "loop", "want", "hold"}]
    BY DEF Init
  <2> QED
    BY <2>1, <2>2 DEF Init, TypeOK, ServerAt
<1>3. Phases /\ Mutexes
  BY DEF Init, Phases, Mutexes
<1>4. Table
  BY <1>1 DEF Init, Table
<1>5. Closed
  BY DEF Init, Closed, Alive, Handles
<1> QED
  BY <1>2, <1>3, <1>4, <1>5 DEF CacheInv

\* Every step keeps the types.
LEMMA TypeStep == TypeOK /\ Phases /\ [Next]_vars => TypeOK'
<1> SUFFICES ASSUME TypeOK, Phases, [Next]_vars PROVE TypeOK'
  OBVIOUS
<1> USE DkmAssumption DEF TypeOK, Phases, ServerAt, Handles, shellVars, srvVars, sockVars, semVars, agentVars, cacheVars
<1>1. CASE Start
  <2>1. Flags'
    BY <1>1 DEF Start, Flags
  <2> QED
    BY <1>1, <2>1 DEF Start, Flags
<1>2. CASE StartLoad
  <2>1. PICK f \in todo : LoadFile(f)
    BY <1>2 DEF StartLoad, Load
  <2>2. todo' \subseteq todo /\ f \in Files
    BY <2>1 DEF LoadFile
  <2>3. cache' \in [Slots -> Files \cup {NONE}] /\ count' \in 0 .. CacheSize
    BY <2>1, <2>2, Loaded, SMTT(30)
  <2> QED
    BY <1>2, <2>2, <2>3, SMTT(30) DEF StartLoad
<1>3. CASE StartServer
  <2>1. Flags'
    BY <1>3 DEF StartServer, Flags
  <2> QED
    BY <1>3, <2>1 DEF StartServer, Flags
<1>4. CASE Stop
  <2>1. Flags'
    BY <1>4 DEF Stop, Flags
  <2> QED
    BY <1>4, <2>1 DEF Stop, Flags
<1>5. CASE StopClient
  <2>1. Flags'
    BY <1>5 DEF StopClient, Flags
  <2> QED
    BY <1>5, <2>1 DEF StopClient, Flags
<1>6. CASE StopClear
  <2>1. Flags'
    BY <1>6 DEF StopClear, Flags
  <2> QED
    BY <1>6, <2>1 DEF StopClear, Flags
<1>7. CASE StopServer
  <2>1. Flags'
    BY <1>7 DEF StopServer, CloseServer, Flags
  <2> QED
    BY <1>7, <2>1 DEF StopServer, CloseServer, Flags
<1>8. CASE StopTask
  BY <1>8 DEF StopTask, Deletable
<1>9. CASE StopAgent
  BY <1>9 DEF StopAgent
<1>10. CASE StopClosed
  BY <1>10 DEF StopClosed, Delete, Forget
<1>11. CASE StopCache
  <2>1. Flags'
    BY <1>11 DEF StopCache, Clear, Flags
  <2> QED
    BY <1>11, <2>1 DEF StopCache, Clear, Flags
<1>12. CASE SrvPrintTake
  BY <1>12 DEF SrvPrintTake
<1>13. CASE SrvPrintGive
  BY <1>13 DEF SrvPrintGive
<1>14. CASE SrvBind
  <2>1. Flags'
    BY <1>14 DEF SrvBind, Flags
  <2> QED
    BY <1>14, <2>1 DEF SrvBind, Flags
<1>15. CASE SrvHead
  BY <1>15 DEF SrvHead
<1>16. CASE SrvExit
  BY <1>16 DEF SrvExit
<1>17. CASE SrvEnter
  BY <1>17 DEF SrvEnter
<1>18. CASE CmdConnected
  BY <1>18 DEF CmdConnected, SrvPrint
<1>19. CASE CmdWritten
  BY <1>19 DEF CmdWritten, Prompt, SrvPrint
<1>20. CASE InfoEntries
  BY <1>20 DEF InfoEntries, SrvPrint
<1>21. CASE InfoGive
  BY <1>21 DEF InfoGive, SrvPrint
<1>22. CASE CmdReloading
  <2>1. CASE todo = {}
    BY <1>22, <2>1 DEF CmdReloading, Prompt, SrvPrint
  <2>2. CASE todo # {}
    <3>1. PICK f \in todo : LoadFile(f)
      BY <1>22, <2>2 DEF CmdReloading, Load
    <3>2. todo' \subseteq todo /\ f \in Files
      BY <3>1 DEF LoadFile
    <3>3. cache' \in [Slots -> Files \cup {NONE}] /\ count' \in 0 .. CacheSize
      BY <3>1, <3>2, Loaded, SMTT(30)
    <3> QED
      BY <1>22, <2>2, <3>2, <3>3, SMTT(30) DEF CmdReloading
  <2> QED
    BY <2>1, <2>2
<1>23. CASE SrvClose
  BY <1>23 DEF SrvClose
<1>24. CASE SrvClosed
  BY <1>24 DEF SrvClosed, Delete
<1>25. CASE SrvForget
  BY <1>25 DEF SrvForget, Forget
<1>26. CASE SrvAccept
  BY <1>26 DEF SrvAccept, SrvPrint
<1>27. CASE SrvHangUp
  <2>1. Flags'
    BY <1>27 DEF SrvHangUp, Flags
  <2> QED
    BY <1>27, <2>1 DEF SrvHangUp, Flags
<1>28. CASE CmdPrint
  BY <1>28 DEF CmdPrint, Line, SrvPrint
<1>29. CASE CmdQuit
  <2>1. Flags'
    BY <1>29 DEF CmdQuit, Line, Flags
  <2> QED
    BY <1>29, <2>1 DEF CmdQuit, Line, Flags
<1>30. CASE CmdConnect
  BY <1>30 DEF CmdConnect, Line, SrvPrint
<1>31. CASE CmdWrite
  BY <1>31, Hit DEF CmdWrite, Line, SrvPrint
<1>32. CASE CmdInfo
  BY <1>32 DEF CmdInfo, Line, SrvPrint
<1>33. CASE CmdReload
  BY <1>33 DEF CmdReload, Line, Clear
<1>34. ASSUME NEW h \in Handles, RxCallback(h) PROVE TypeOK'
  BY <1>34 DEF RxCallback
<1>35. ASSUME NEW h \in Handles, RxPrintTake(h) PROVE TypeOK'
  BY <1>35 DEF RxPrintTake
<1>36. ASSUME NEW h \in Handles, RxPrintGive(h) PROVE TypeOK'
  BY <1>36 DEF RxPrintGive
<1>37. ASSUME NEW h \in Handles, RxExit(h) PROVE TypeOK'
  BY <1>37 DEF RxExit
<1>38. CASE UNCHANGED vars
  BY <1>38 DEF vars
<1> QED
  BY <1>1, <1>2, <1>3, <1>4, <1>5, <1>6, <1>7, <1>8, <1>9, <1>10, <1>11, <1>12, <1>13, <1>14, <1>15, <1>16, <1>17, <1>18, <1>19, <1>20, <1>21, <1>22, <1>23, <1>24, <1>25, <1>26, <1>27, <1>28, <1>29, <1>30, <1>31, <1>32, <1>33, <1>34, <1>35, <1>36, <1>37, <1>38 DEF Next, Shell, StopSteps, ServerSteps, Commands, RxSteps, Rest

\* Every step keeps the order of the tasks.
LEMMA PhasesStep == CacheInv /\ [Next]_vars => Phases'
<1> SUFFICES ASSUME CacheInv, [Next]_vars PROVE Phases'
  OBVIOUS
<1> USE DEF CacheInv, Phases, shellVars, srvVars, sockVars, semVars, agentVars, cacheVars
<1>1. CASE Start
  BY <1>1 DEF Start
<1>2. CASE StartLoad
  BY <1>2 DEF StartLoad, Load, LoadFile
<1>3. CASE StartServer
  BY <1>3 DEF StartServer
<1>4. CASE Stop
  BY <1>4 DEF Stop
<1>5. CASE StopClient
  BY <1>5 DEF StopClient
<1>6. CASE StopClear
  BY <1>6 DEF StopClear
<1>7. CASE StopServer
  BY <1>7 DEF StopServer, CloseServer
<1>8. CASE StopTask
  BY <1>8 DEF StopTask, Deletable
<1>9. CASE StopAgent
  BY <1>9 DEF StopAgent
<1>10. CASE StopClosed
  BY <1>10 DEF StopClosed, Delete, Forget
<1>11. CASE StopCache
  BY <1>11 DEF StopCache, Clear
<1>12. CASE SrvPrintTake
  BY <1>12 DEF SrvPrintTake
<1>13. CASE SrvPrintGive
  BY <1>13 DEF SrvPrintGive
<1>14. CASE SrvBind
  BY <1>14 DEF SrvBind
<1>15. CASE SrvHead
  BY <1>15 DEF SrvHead
<1>16. CASE SrvExit
  BY <1>16 DEF SrvExit
<1>17. CASE SrvEnter
  BY <1>17 DEF SrvEnter
<1>18. CASE CmdConnected
  BY <1>18 DEF CmdConnected, SrvPrint
<1>19. CASE CmdWritten
  BY <1>19 DEF CmdWritten, Prompt, SrvPrint
<1>20. CASE InfoEntries
  BY <1>20 DEF InfoEntries, SrvPrint
<1>21. CASE InfoGive
  BY <1>21 DEF InfoGive, SrvPrint
<1>22. CASE CmdReloading
  BY <1>22 DEF CmdReloading, Load, LoadFile, Prompt, SrvPrint
<1>23. CASE SrvClose
  BY <1>23 DEF SrvClose
<1>24. CASE SrvClosed
  BY <1>24 DEF SrvClosed, Delete
<1>25. CASE SrvForget
  BY <1>25 DEF SrvForget, Forget
<1>26. CASE SrvAccept
  BY <1>26 DEF SrvAccept, SrvPrint
<1>27. CASE SrvHangUp
  BY <1>27 DEF SrvHangUp
<1>28. CASE CmdPrint
  BY <1>28 DEF CmdPrint, Line, SrvPrint
<1>29. CASE CmdQuit
  BY <1>29 DEF CmdQuit, Line
<1>30. CASE CmdConnect
  BY <1>30 DEF CmdConnect, Line, SrvPrint
<1>31. CASE CmdWrite
  BY <1>31 DEF CmdWrite, Line, SrvPrint
<1>32. CASE CmdInfo
  BY <1>32 DEF CmdInfo, Line, SrvPrint
<1>33. CASE CmdReload
  BY <1>33 DEF CmdReload, Line, Clear
<1>34. ASSUME NEW h \in Handles, RxCallback(h) PROVE Phases'
  BY <1>34 DEF RxCallback
<1>35. ASSUME NEW h \in Handles, RxPrintTake(h) PROVE Phases'
  BY <1>35 DEF RxPrintTake
<1>36. ASSUME NEW h \in Handles, RxPrintGive(h) PROVE Phases'
  BY <1>36 DEF RxPrintGive
<1>37. ASSUME NEW h \in Handles, RxExit(h) PROVE Phases'
  BY <1>37 DEF RxExit
<1>38. CASE UNCHANGED vars
  BY <1>38 DEF vars
<1> QED
  BY <1>1, <1>2, <1>3, <1>4, <1>5, <1>6, <1>7, <1>8, <1>9, <1>10, <1>11, <1>12, <1>13, <1>14, <1>15, <1>16, <1>17, <1>18, <1>19, <1>20, <1>21, <1>22, <1>23, <1>24, <1>25, <1>26, <1>27, <1>28, <1>29, <1>30, <1>31, <1>32, <1>33, <1>34, <1>35, <1>36, <1>37, <1>38 DEF Next, Shell, StopSteps, ServerSteps, Commands, RxSteps, Rest

\* Every step keeps the mutexes.
LEMMA MutexesStep == CacheInv /\ [Next]_vars => Mutexes'
<1> SUFFICES ASSUME CacheInv, [Next]_vars PROVE Mutexes'
  OBVIOUS
<1> USE DEF CacheInv, TypeOK, Phases, Mutexes, shellVars, srvVars, sockVars, semVars, agentVars, cacheVars
<1>1. CASE Start
  BY <1>1 DEF Start
<1>2. CASE StartLoad
  BY <1>2 DEF StartLoad, Load, LoadFile
<1>3. CASE StartServer
  BY <1>3 DEF StartServer
<1>4. CASE Stop
  BY <1>4 DEF Stop
<1>5. CASE StopClient
  BY <1>5 DEF StopClient
<1>6. CASE StopClear
  BY <1>6 DEF StopClear
<1>7. CASE StopServer
  BY <1>7 DEF StopServer, CloseServer
<1>8. CASE StopTask
  BY <1>8 DEF StopTask, Deletable
<1>9. CASE StopAgent
  BY <1>9 DEF StopAgent
<1>10. CASE StopClosed
  BY <1>10 DEF StopClosed, Delete, Forget
<1>11. CASE StopCache
  <2>1. ~cliSem' /\ ~cacheSem' /\ shell' = "idle" /\ srv = "none" /\ srv' = srv /\ agent = 0 /\ agent' = agent /\ ~cacheHeld'
    BY <1>11 DEF StopCache
  <2> QED
    BY <2>1
<1>12. CASE SrvPrintTake
  BY <1>12 DEF SrvPrintTake
<1>13. CASE SrvPrintGive
  BY <1>13 DEF SrvPrintGive
<1>14. CASE SrvBind
  BY <1>14 DEF SrvBind
<1>15. CASE SrvHead
  BY <1>15 DEF SrvHead
<1>16. CASE SrvExit
  BY <1>16 DEF SrvExit
<1>17. CASE SrvEnter
  BY <1>17 DEF SrvEnter
<1>18. CASE CmdConnected
  BY <1>18 DEF CmdConnected, SrvPrint
<1>19. CASE CmdWritten
  BY <1>19 DEF CmdWritten, Prompt, SrvPrint
<1>20. CASE InfoEntries
  BY <1>20 DEF InfoEntries, SrvPrint
<1>21. CASE InfoGive
  BY <1>21 DEF InfoGive, SrvPrint
<1>22. CASE CmdReloading
  BY <1>22 DEF CmdReloading, Load, LoadFile, Prompt, SrvPrint
<1>23. CASE SrvClose
  BY <1>23 DEF SrvClose
<1>24. CASE SrvClosed
  BY <1>24 DEF SrvClosed, Delete
<1>25. CASE SrvForget
  BY <1>25 DEF SrvForget, Forget
<1>26. CASE SrvAccept
  BY <1>26 DEF SrvAccept, SrvPrint
<1>27. CASE SrvHangUp
  BY <1>27 DEF SrvHangUp
<1>28. CASE CmdPrint
  BY <1>28 DEF CmdPrint, Line, SrvPrint
<1>29. CASE CmdQuit
  BY <1>29 DEF CmdQuit, Line
<1>30. CASE CmdConnect
  BY <1>30 DEF CmdConnect, Line, SrvPrint
<1>31. CASE CmdWrite
  BY <1>31 DEF CmdWrite, Line, SrvPrint
<1>32. CASE CmdInfo
  BY <1>32 DEF CmdInfo, Line, SrvPrint
<1>33. CASE CmdReload
  BY <1>33 DEF CmdReload, Line, Clear
<1>34. ASSUME NEW h \in Handles, RxCallback(h) PROVE Mutexes'
  BY <1>34 DEF RxCallback
<1>35. ASSUME NEW h \in Handles, RxPrintTake(h) PROVE Mutexes'
  BY <1>35 DEF RxPrintTake
<1>36. ASSUME NEW h \in Handles, RxPrintGive(h) PROVE Mutexes'
  BY <1>36 DEF RxPrintGive
<1>37. ASSUME NEW h \in Handles, RxExit(h) PROVE Mutexes'
  BY <1>37 DEF RxExit
<1>38. CASE UNCHANGED vars
  BY <1>38 DEF vars
<1> QED
  BY <1>1, <1>2, <1>3, <1>4, <1>5, <1>6, <1>7, <1>8, <1>9, <1>10, <1>11, <1>12, <1>13, <1>14, <1>15, <1>16, <1>17, <1>18, <1>19, <1>20, <1>21, <1>22, <1>23, <1>24, <1>25, <1>26, <1>27, <1>28, <1>29, <1>30, <1>31, <1>32, <1>33, <1>34, <1>35, <1>36, <1>37, <1>38 DEF Next, Shell, StopSteps, ServerSteps, Commands, RxSteps, Rest

\* Every step keeps the table.
LEMMA TableStep == CacheInv /\ [Next]_vars => Table'
<1> SUFFICES ASSUME CacheInv, [Next]_vars PROVE Table'
  OBVIOUS
<1> USE DEF CacheInv, Phases, Table, InUse, shellVars, srvVars, sockVars, semVars, agentVars, cacheVars
<1>1. CASE Start
  BY <1>1 DEF Start
<1>2. CASE StartLoad
  <2>1. PICK f \in todo : LoadFile(f)
    BY <1>2 DEF StartLoad, Load
  <2>2. TypeOK /\ f \in Files /\ todo' = todo \ {f}
    BY <2>1 DEF LoadFile, CacheInv, TypeOK
  <2>3. UNCHANGED <<found, dirty>> /\ shell' = shell /\ shell # "idle"
    BY <1>2 DEF StartLoad
  <2> QED
    BY <2>1, <2>2, <2>3, TableLoaded DEF CacheInv
<1>3. CASE StartServer
  BY <1>3 DEF StartServer
<1>4. CASE Stop
  BY <1>4 DEF Stop
<1>5. CASE StopClient
  BY <1>5 DEF StopClient
<1>6. CASE StopClear
  BY <1>6 DEF StopClear
<1>7. CASE StopServer
  BY <1>7 DEF StopServer, CloseServer
<1>8. CASE StopTask
  BY <1>8 DEF StopTask, Deletable
<1>9. CASE StopAgent
  BY <1>9 DEF StopAgent
<1>10. CASE StopClosed
  BY <1>10 DEF StopClosed, Delete, Forget
<1>11. CASE StopCache
  <2>1. InUse' = {} /\ Cardinality(InUse') = 0
    BY <1>11, FS_EmptySet DEF StopCache, Clear
  <2>2. found = NONE /\ found' = NONE /\ count' = 0
    BY <1>11 DEF StopCache, Clear
  <2> QED
    BY <2>1, <2>2
<1>12. CASE SrvPrintTake
  BY <1>12 DEF SrvPrintTake
<1>13. CASE SrvPrintGive
  BY <1>13 DEF SrvPrintGive
<1>14. CASE SrvBind
  BY <1>14 DEF SrvBind
<1>15. CASE SrvHead
  BY <1>15 DEF SrvHead
<1>16. CASE SrvExit
  BY <1>16 DEF SrvExit
<1>17. CASE SrvEnter
  BY <1>17 DEF SrvEnter
<1>18. CASE CmdConnected
  BY <1>18 DEF CmdConnected, SrvPrint
<1>19. CASE CmdWritten
  BY <1>19 DEF CmdWritten, Prompt, SrvPrint
<1>20. CASE InfoEntries
  BY <1>20 DEF InfoEntries, SrvPrint
<1>21. CASE InfoGive
  BY <1>21 DEF InfoGive, SrvPrint
<1>22. CASE CmdReloading
  <2>1. CASE todo = {}
    BY <1>22, <2>1 DEF CmdReloading, Prompt, SrvPrint
  <2>2. CASE todo # {}
    <3>1. PICK f \in todo : LoadFile(f)
      BY <1>22, <2>2 DEF CmdReloading, Load
    <3>2. TypeOK /\ f \in Files /\ todo' = todo \ {f}
      BY <3>1 DEF LoadFile, CacheInv, TypeOK
    <3>3. UNCHANGED <<found, dirty, shell, running>> /\ (shell # "idle" \/ running)
      BY <1>22 DEF CmdReloading
    <3> QED
      BY <3>1, <3>2, <3>3, TableLoaded DEF CacheInv
  <2> QED
    BY <2>1, <2>2
<1>23. CASE SrvClose
  BY <1>23 DEF SrvClose
<1>24. CASE SrvClosed
  BY <1>24 DEF SrvClosed, Delete
<1>25. CASE SrvForget
  BY <1>25 DEF SrvForget, Forget
<1>26. CASE SrvAccept
  BY <1>26 DEF SrvAccept, SrvPrint
<1>27. CASE SrvHangUp
  BY <1>27 DEF SrvHangUp
<1>28. CASE CmdPrint
  BY <1>28 DEF CmdPrint, Line, SrvPrint
<1>29. CASE CmdQuit
  BY <1>29 DEF CmdQuit, Line
<1>30. CASE CmdConnect
  BY <1>30 DEF CmdConnect, Line, SrvPrint
<1>31. CASE CmdWrite
  <2>1. UNCHANGED <<shell, running, dirty, cache, count, todo>>
    BY <1>31 DEF CmdWrite
  <2>2. InUse' = InUse
    BY <2>1
  <2>3. TypeOK /\ found = NONE
    BY <1>31 DEF CmdWrite, Line, CacheInv
  <2>4. found' # NONE => cache[found'] # NONE
    BY <1>31, <2>3, Hit, DkmAssumption DEF CmdWrite
  <2> QED
    BY <2>1, <2>2, <2>4
<1>32. CASE CmdInfo
  BY <1>32 DEF CmdInfo, Line, SrvPrint
<1>33. CASE CmdReload
  <2>1. InUse' = {} /\ Cardinality(InUse') = 0
    BY <1>33, FS_EmptySet DEF CmdReload, Clear, Line
  <2>2. found = NONE /\ found' = NONE /\ count' = 0
    BY <1>33 DEF CmdReload, Clear, Line
  <2> QED
    BY <2>1, <2>2
<1>34. ASSUME NEW h \in Handles, RxCallback(h) PROVE Table'
  BY <1>34 DEF RxCallback
<1>35. ASSUME NEW h \in Handles, RxPrintTake(h) PROVE Table'
  BY <1>35 DEF RxPrintTake
<1>36. ASSUME NEW h \in Handles, RxPrintGive(h) PROVE Table'
  BY <1>36 DEF RxPrintGive
<1>37. ASSUME NEW h \in Handles, RxExit(h) PROVE Table'
  BY <1>37 DEF RxExit
<1>38. CASE UNCHANGED vars
  BY <1>38 DEF vars
<1> QED
  BY <1>1, <1>2, <1>3, <1>4, <1>5, <1>6, <1>7, <1>8, <1>9, <1>10, <1>11, <1>12, <1>13, <1>14, <1>15, <1>16, <1>17, <1>18, <1>19, <1>20, <1>21, <1>22, <1>23, <1>24, <1>25, <1>26, <1>27, <1>28, <1>29, <1>30, <1>31, <1>32, <1>33, <1>34, <1>35, <1>36, <1>37, <1>38 DEF Next, Shell, StopSteps, ServerSteps, Commands, RxSteps, Rest

\* Every step keeps the handles.
LEMMA ClosedStep == Unhurried /\ QuietInv /\ [Next]_vars => Closed'
<1> SUFFICES ASSUME Unhurried, QuietInv, [Next]_vars PROVE Closed'
  OBVIOUS
<1> USE DkmAssumption DEF Unhurried, QuietInv, CacheInv, TypeOK, Phases, Mutexes, Closed, Alive, Handles, shellVars, srvVars, sockVars, semVars, agentVars, cacheVars
<1>1. CASE Start
  BY <1>1 DEF Start
<1>2. CASE StartLoad
  BY <1>2 DEF StartLoad, Load, LoadFile
<1>3. CASE StartServer
  BY <1>3 DEF StartServer
<1>4. CASE Stop
  BY <1>4 DEF Stop
<1>5. CASE StopClient
  BY <1>5 DEF StopClient
<1>6. CASE StopClear
  BY <1>6 DEF StopClear
<1>7. CASE StopServer
  BY <1>7 DEF StopServer, CloseServer
<1>8. CASE StopTask
  BY <1>8 DEF StopTask, Deletable
<1>9. CASE StopAgent
  BY <1>9 DEF StopAgent
<1>10. CASE StopClosed
  BY <1>10 DEF StopClosed, Delete, Forget
<1>11. CASE StopCache
  BY <1>11 DEF StopCache, Clear
<1>12. CASE SrvPrintTake
  BY <1>12 DEF SrvPrintTake
<1>13. CASE SrvPrintGive
  BY <1>13 DEF SrvPrintGive
<1>14. CASE SrvBind
  BY <1>14 DEF SrvBind
<1>15. CASE SrvHead
  BY <1>15 DEF SrvHead
<1>16. CASE SrvExit
  BY <1>16 DEF SrvExit
<1>17. CASE SrvEnter
  BY <1>17 DEF SrvEnter
<1>18. CASE CmdConnected
  BY <1>18 DEF CmdConnected, SrvPrint
<1>19. CASE CmdWritten
  BY <1>19 DEF CmdWritten, Prompt, SrvPrint
<1>20. CASE InfoEntries
  BY <1>20 DEF InfoEntries, SrvPrint
<1>21. CASE InfoGive
  BY <1>21 DEF InfoGive, SrvPrint
<1>22. CASE CmdReloading
  BY <1>22 DEF CmdReloading, Load, LoadFile, Prompt, SrvPrint
<1>23. CASE SrvClose
  BY <1>23 DEF SrvClose
<1>24. CASE SrvClosed
  BY <1>24 DEF SrvClosed, Delete
<1>25. CASE SrvForget
  BY <1>25 DEF SrvForget, Forget
<1>26. CASE SrvAccept
  BY <1>26 DEF SrvAccept, SrvPrint
<1>27. CASE SrvHangUp
  BY <1>27 DEF SrvHangUp
<1>28. CASE CmdPrint
  BY <1>28 DEF CmdPrint, Line, SrvPrint
<1>29. CASE CmdQuit
  BY <1>29 DEF CmdQuit, Line
<1>30. CASE CmdConnect
  BY <1>30 DEF CmdConnect, Line, SrvPrint
<1>31. CASE CmdWrite
  BY <1>31 DEF CmdWrite, Line, SrvPrint
<1>32. CASE CmdInfo
  BY <1>32 DEF CmdInfo, Line, SrvPrint
<1>33. CASE CmdReload
  BY <1>33 DEF CmdReload, Line, Clear
<1>34. ASSUME NEW h \in Handles, RxCallback(h) PROVE Closed'
  BY <1>34 DEF RxCallback
<1>35. ASSUME NEW h \in Handles, RxPrintTake(h) PROVE Closed'
  BY <1>35 DEF RxPrintTake
<1>36. ASSUME NEW h \in Handles, RxPrintGive(h) PROVE Closed'
  BY <1>36 DEF RxPrintGive
<1>37. ASSUME NEW h \in Handles, RxExit(h) PROVE Closed'
  BY <1>37 DEF RxExit
<1>38. CASE UNCHANGED vars
  BY <1>38 DEF vars
<1> QED
  BY <1>1, <1>2, <1>3, <1>4, <1>5, <1>6, <1>7, <1>8, <1>9, <1>10, <1>11, <1>12, <1>13, <1>14, <1>15, <1>16, <1>17, <1>18, <1>19, <1>20, <1>21, <1>22, <1>23, <1>24, <1>25, <1>26, <1>27, <1>28, <1>29, <1>30, <1>31, <1>32, <1>33, <1>34, <1>35, <1>36, <1>37, <1>38 DEF Next, Shell, StopSteps, ServerSteps, Commands, RxSteps, Rest

\* Every step keeps the tasks, the mutexes and the table in order.
LEMMA CacheStep == CacheInv /\ [Next]_vars => CacheInv'
  BY TypeStep, PhasesStep, MutexesStep, TableStep DEF CacheInv

\* Every variable of DkmDemo has its type.
THEOREM DkmTypeCorrect == Spec => []TypeOK
  BY InitQuietInv, CacheStep, PTL DEF Spec, CacheInv

\* The cache's counter, its pointers and its types are right, whatever fails and however the tasks
\* interleave, for any number of files, slots, starts, handles and commands.
THEOREM CacheIsSound == Spec => []CacheSound
<1>1. CacheInv => CacheSound
  BY DEF CacheInv, Table, CacheSound, TypeOK
<1> QED
  BY InitQuietInv, CacheStep, <1>1, PTL DEF Spec

\* No mutex is deleted under a task, and every handle is freed once and no more, if connect does not
\* outlast Stop's wait and Stop does not hit the window between delete h and g_agent = NULL.
THEOREM StopsQuietly == Unhurried => (Spec => []QuietAfterStop)
<1> SUFFICES ASSUME Unhurried PROVE Spec => []QuietAfterStop
  OBVIOUS
<1>1. Init => QuietInv
  BY InitQuietInv DEF QuietInv
<1>2. QuietInv /\ [Next]_vars => QuietInv'
  BY CacheStep, ClosedStep DEF QuietInv
<1>3. QuietInv => QuietAfterStop
  <2> SUFFICES ASSUME QuietInv PROVE QuietAfterStop
    OBVIOUS
  <2>1. \A h \in 1 .. opened : h \in Handles
    BY DkmAssumption DEF QuietInv, CacheInv, TypeOK, Handles
  <2>2. agent \in 0 .. opened /\ opened \in Nat
    BY DkmAssumption DEF QuietInv, CacheInv, TypeOK
  <2>3. FreedOnce
    BY <2>1, <2>2 DEF QuietInv, Closed, Alive, FreedOnce
  <2>4. ~cliSem => agent = 0 /\ srv = "none"
    BY DEF QuietInv, CacheInv, Mutexes
  <2>5. ~cliSem => \A h \in Handles : rx[h] = "none"
    BY <2>4 DEF QuietInv, Closed, Alive, Handles
  <2> QED
    BY <2>1, <2>2, <2>3, <2>4, <2>5 DEF QuietInv, CacheInv, Mutexes, Closed, Alive, QuietAfterStop
<1> QED
  BY <1>1, <1>2, <1>3, PTL DEF Spec
=============================================================================
