------------------------------ MODULE ExampleCli ------------------------------
(***************************************************************************)
(* examples/main.c: a command line for one TCP client after the other,     *)
(* with the library's receive thread printing replies and events to the    *)
(* same g_client_sock without a lock, and the socket numbers that the      *)
(* clients' connections and the library's UDP socket (DkmRtpIpc::init,     *)
(* DkmRtpIpc::close) take from one pool.                                   *)
(***************************************************************************)
EXTENDS Naturals

CONSTANTS
  Numbers,     \* socket numbers, a set of positive numbers
  LineSize,    \* sizeof(line)
  ChunkSize,   \* sizeof(buf): characters one recv returns
  MaxSessions, \* bound: clients accepted
  MaxKeys,     \* bound: characters received
  AgentFails   \* sockets and connects of the library may fail

ASSUME ExampleAssumption ==
  /\ Numbers \subseteq Nat \ {0}
  /\ LineSize \in Nat \ {0} /\ ChunkSize \in Nat \ {0}
  /\ MaxSessions \in Nat /\ MaxKeys \in Nat
  /\ AgentFails \in BOOLEAN

INVALID == 0
Sessions == 1 .. MaxSessions

VARIABLES
  at,          \* where main is
  session,     \* clients accepted so far
  use,         \* number -> 0 when free, n when client n's connection, MaxSessions + n
               \* when the UDP socket of the handle opened for client n
  gClientSock,  \* g_client_sock
  accepted,    \* the local variable client of main
  keys,        \* characters received so far
  unread,      \* characters of the last recv not looked at yet
  lineIdx,     \* line_idx
  handle,      \* g_agent: the session it was opened in, 0 for NULL
  sock,        \* sock_ of the handle, also of one that is being given up
  asked,       \* a request was sent or an event subscribed on the handle
  closing,    \* the handle's running_ is false
  receiver,          \* the handle's receive thread: "none", "loop" or "send"
  copy         \* the number its cli_print tested

lineVars   == <<keys, unread, lineIdx>>
handleVars == <<handle, sock, asked, closing>>
receiverVars == <<receiver, copy>>
exampleVars == <<at, session, use, gClientSock, accepted, lineVars, handleVars, receiverVars>>

ExampleInit ==
  /\ at = "accept" /\ session = 0
  /\ use = [s \in Numbers |-> 0]
  /\ gClientSock = INVALID /\ accepted = INVALID
  /\ keys = 0 /\ unread = 0 /\ lineIdx = 0
  /\ handle = 0 /\ sock = INVALID /\ asked = FALSE /\ closing = FALSE
  /\ receiver = "none" /\ copy = INVALID

MainGoes(from, to) == at = from /\ at' = to

FreeNumbers == {s \in Numbers : use[s] = 0}

-----------------------------------------------------------------------------
(* Plausible bug: the rest of a chunk is read although quit closed the     *)
(* client.                                                                 *)
ReadsOn ==
  /\ lineIdx' = 0
  /\ UNCHANGED unread
  /\ at' = IF unread = 0 THEN "recv" ELSE "key"

-----------------------------------------------------------------------------
(* run_cli_loop, without an input stream to fall back to.                  *)

AcceptClient ==
  /\ MainGoes("accept", "recv")
  /\ session < MaxSessions /\ session' = session + 1
  /\ \E s \in FreeNumbers :
       /\ use' = [use EXCEPT ![s] = session']
       /\ gClientSock' = s /\ accepted' = s
  /\ lineIdx' = 0 /\ unread' = 0
  /\ UNCHANGED <<keys, handleVars, receiverVars>>

\* The loop ends when the client was closed by quit, or leaves.
RecvKeys ==
  /\ at = "recv"
  /\ \/ /\ gClientSock # INVALID
        /\ unread' \in 1 .. ChunkSize
        /\ keys + unread' <= MaxKeys /\ keys' = keys + unread'
        /\ at' = "key"
     \/ /\ at' = "end"
        /\ UNCHANGED <<keys, unread>>
  /\ UNCHANGED <<session, use, gClientSock, accepted, lineIdx, handleVars, receiverVars>>

NextKey(to) ==
  /\ at = "key"
  /\ unread' = unread - 1
  /\ at' = IF to # "loop" THEN to ELSE IF unread' = 0 THEN "recv" ELSE "key"
  /\ UNCHANGED <<session, use, gClientSock, accepted, keys, handleVars, receiverVars>>

\* A printable character is kept while the line has room, a backspace takes one
\* away, any other one is skipped.
EditKey ==
  /\ NextKey("loop")
  /\ lineIdx' \in { IF lineIdx < LineSize - 1 THEN lineIdx + 1 ELSE lineIdx,
                    IF lineIdx > 0 THEN lineIdx - 1 ELSE 0,
                    lineIdx }

\* The end of a line that is not empty: process_command.
EndOfLine ==
  /\ lineIdx > 0
  /\ NextKey("command")
  /\ UNCHANGED lineIdx

\* What follows a command: the rest of the chunk is dropped when the client is gone.
CommandEnds ==
  /\ lineIdx' = 0
  /\ IF gClientSock' = INVALID THEN unread' = 0 /\ at' = "recv"
     ELSE UNCHANGED unread /\ at' = IF unread = 0 THEN "recv" ELSE "key"

\* help, a word that is no command, and what is refused with a message: connect
\* with a handle, a request without one.
Answered ==
  /\ at = "command"
  /\ UNCHANGED <<session, use, gClientSock, accepted, keys, handleVars, receiverVars>>
  /\ CommandEnds

\* hello, create_p, create_w, create_r, write and clear.
Request ==
  /\ at = "command" /\ handle # 0
  /\ asked' = TRUE
  /\ UNCHANGED <<session, use, gClientSock, accepted, keys, handle, sock, closing, receiverVars>>
  /\ CommandEnds

\* quit: the client is closed, then forgotten.
QuitCloses ==
  /\ MainGoes("command", "quit") /\ gClientSock # INVALID
  /\ use' = [use EXCEPT ![gClientSock] = 0]
  /\ UNCHANGED <<session, gClientSock, accepted, lineVars, handleVars, receiverVars>>

QuitForgets ==
  /\ at = "quit"
  /\ gClientSock' = INVALID
  /\ CommandEnds
  /\ UNCHANGED <<session, use, accepted, keys, handleVars, receiverVars>>

-----------------------------------------------------------------------------
(* connect: legacy_agent_init.                                             *)

Connect == at = "command" /\ handle = 0

\* DkmRtpIpc::init: the socket and its connect, then the receive thread.
TransportOpens ==
  /\ Connect
  /\ \E s \in FreeNumbers :
       /\ sock' = s
       /\ use' = [use EXCEPT ![s] = MaxSessions + session]
  /\ handle' = session /\ receiver' = "loop"
  /\ closing' = FALSE /\ asked' = FALSE
  /\ UNCHANGED <<session, gClientSock, accepted, keys, copy>>
  /\ CommandEnds

\* The connect fails: the socket is closed and sock_ keeps its number, which the
\* destructor, called by the delete of legacy_agent_init, closes once more.
TransportFails ==
  /\ AgentFails
  /\ Connect
  /\ sock' \in FreeNumbers
  /\ at' = "giveUp"
  /\ UNCHANGED <<session, use, gClientSock, accepted, lineVars, handle, asked, closing, receiverVars>>

\* DkmRtpIpc::close.
TransportCloses ==
  /\ use' = [use EXCEPT ![sock] = 0]
  /\ sock' = INVALID

GiveUp ==
  /\ at = "giveUp"
  /\ TransportCloses
  /\ UNCHANGED <<session, gClientSock, accepted, keys, handle, asked, closing, receiverVars>>
  /\ CommandEnds

-----------------------------------------------------------------------------
(* main, once the loop has ended.                                          *)

\* closesocket(client), also after quit closed it.
EndCloses ==
  /\ MainGoes("end", "forget")
  /\ use' = [use EXCEPT ![accepted] = 0]
  /\ UNCHANGED <<session, gClientSock, accepted, lineVars, handleVars, receiverVars>>

EndForgets ==
  /\ at = "forget"
  /\ gClientSock' = INVALID
  /\ at' = IF handle # 0 THEN "close" ELSE "accept"
  /\ UNCHANGED <<session, use, accepted, lineVars, handleVars, receiverVars>>

\* legacy_agent_close: running_ is cleared, the thread joined, the socket closed.
AgentStops ==
  /\ MainGoes("close", "join")
  /\ closing' = TRUE
  /\ UNCHANGED <<session, use, gClientSock, accepted, lineVars, handle, sock, asked, receiverVars>>

AgentClosed ==
  /\ MainGoes("join", "accept") /\ receiver = "none"
  /\ TransportCloses
  /\ handle' = 0
  /\ UNCHANGED <<session, gClientSock, accepted, lineVars, asked, closing, receiverVars>>

-----------------------------------------------------------------------------
(* The receive thread: on_hello, on_generic and on_event print.            *)

\* cli_print tests g_client_sock; without a client it prints to the console.
PrintTests ==
  /\ receiver = "loop" /\ asked /\ gClientSock # INVALID
  /\ receiver' = "send" /\ copy' = gClientSock
  /\ UNCHANGED <<at, session, use, gClientSock, accepted, lineVars, handleVars>>

\* It sends to the number it tested or, read again, to the present one.
PrintSends ==
  /\ receiver = "send"
  /\ receiver' = "loop" /\ copy' = INVALID
  /\ UNCHANGED <<at, session, use, gClientSock, accepted, lineVars, handleVars>>

ReceiveEnds ==
  /\ receiver = "loop" /\ closing
  /\ receiver' = "none"
  /\ UNCHANGED <<at, session, use, gClientSock, accepted, lineVars, handleVars, copy>>

\* The bound on the clients is reached.
NoMoreClients ==
  /\ at = "accept" /\ session = MaxSessions
  /\ UNCHANGED exampleVars

ExampleNext ==
  \/ AcceptClient \/ RecvKeys \/ EditKey \/ EndOfLine
  \/ Answered \/ Request \/ QuitCloses \/ QuitForgets
  \/ TransportOpens \/ TransportFails \/ GiveUp
  \/ EndCloses \/ EndForgets \/ AgentStops \/ AgentClosed
  \/ PrintTests \/ PrintSends \/ ReceiveEnds \/ NoMoreClients

ExampleSpec == ExampleInit /\ [][ExampleNext]_exampleVars

-----------------------------------------------------------------------------
(* Properties.                                                             *)

ExampleTypeOK ==
  /\ session \in 0 .. MaxSessions
  /\ use \in [Numbers -> 0 .. 2 * MaxSessions]
  /\ {gClientSock, accepted, sock, copy} \subseteq Numbers \cup {INVALID}
  /\ keys \in 0 .. MaxKeys /\ unread \in 0 .. ChunkSize
  /\ lineIdx \in 0 .. LineSize - 1
  /\ handle \in {0} \cup Sessions
  /\ {asked, closing} \subseteq BOOLEAN
  /\ receiver \in {"none", "loop", "send"}

\* Sessions stay apart, although the receive thread prints without a lock and
\* numbers are closed twice (by quit and by main, by init and by the
\* destructor) and taken anew: what is printed for a handle reaches nobody but
\* the client it was opened for, and what is closed is never somebody else's.
SessionsApart ==
  /\ receiver = "send" => \A s \in {copy, gClientSock} \ {INVALID} : use[s] \in {0, handle}
  /\ at = "end" => use[accepted] \in {0, session}
  /\ at = "quit" => use[gClientSock] = 0
  /\ at \in {"giveUp", "join"} => use[sock] \in {0, MaxSessions + session}
=============================================================================
