------------------------------ MODULE IpcClient ------------------------------
(***************************************************************************)
(* The client library behind LEGACY_HANDLE: IpcJsonClient (src/internal/   *)
(* IpcJsonClient.cpp), its UDP transport DkmRtpIpc, and the C entry points *)
(* of legacy_agent.cpp.  Application threads issue requests concurrently,  *)
(* one receive thread takes replies off the socket and runs callbacks, and *)
(* legacy_agent_close stops that thread.  The network and the Agent, which *)
(* are not part of the repository, are modelled from how the library uses  *)
(* them.                                                                   *)
(*                                                                         *)
(* Every request method (sendHello, createParticipant, ..., writeJson) has *)
(* the same four steps, so one family of actions stands for all of them:   *)
(*   generateRequestId, registerRequest, fill cbor_buf_, transport_.send.  *)
(* A call is named by its order of generateRequestId, 1, 2, ...; its       *)
(* request id is that number modulo IdSpace (2^32 in the code).            *)
(***************************************************************************)
EXTENDS Integers

CONSTANTS
  Callers,    \* threads that issue requests; Rx among them: callbacks do too
  Rx,         \* the receive thread (tIpcRecv, recv_thread_)
  MaxCalls,   \* bound of the model: how many requests are ever issued
  IdSpace,    \* number of request ids; the counter is a uint32_t
  Echo,       \* the Agent's reply carries "req_id" or "corr_id" in its JSON
  Faults,     \* what the network may do to a datagram
  Platform    \* "std": std::thread; "vxworks": a DKM task

AllFaults == {"lose", "duplicate", "reorder", "refuse"}

ASSUME IpcAssumption ==
  /\ MaxCalls \in Nat \ {0}
  /\ IdSpace \in Nat \ {0, 1}
  /\ Echo \in BOOLEAN
  /\ Faults \subseteq AllFaults
  /\ Platform \in {"std", "vxworks"}

Calls   == 1..MaxCalls
NoCall  == 0
Garbled == MaxCalls + 1          \* bytes of two payloads mixed: no decodable CBOR
Bodies  == Calls \cup {Garbled}
Ids     == 0..(IdSpace - 1)
Threads == Callers \cup {Rx}

Id(c) == c % IdSpace             \* next_req_id_++ on a wrapping counter

VARIABLES
  life,      \* of the handle: "new", "open", "closing", "closed"
  running,   \* running_
  pc,        \* pc[t]: the step of a request method thread t is at
  cur,       \* cur[t]: the call it is executing
  calls,     \* requests issued so far; next_req_id_ is Id(calls + 1)
  status,    \* status[c]: what the request method returned, "none" before
  pending,   \* pending_requests_: pending[i] is the call registered under id i
  cborBuf,   \* cbor_buf_: whose payload the one buffer of the client holds
  sent,      \* datagrams handed to the network; numbers them in send order
  toAgent,   \* requests in flight
  toClient,  \* replies in flight
  rx,        \* where receiveLoop is
  rxMsg,     \* the reply it has decoded
  rxEntry,   \* the entry it has taken out of pending_requests_
  count,     \* count[c]: how often c's callback was called (history)
  answer     \* answer[c]: the call whose reply it was given, NoCall before

appVars  == <<pc, cur, calls, status, cborBuf, sent>>
rxVars   == <<rx, rxMsg, rxEntry, count, answer>>
netVars  == <<toAgent, toClient>>
lifeVars == <<life, running>>
vars     == <<appVars, rxVars, netVars, lifeVars, pending>>

Packet == [n : Nat, id : Ids, body : Bodies]
NoMsg  == [n |-> 0, id |-> 0, body |-> NoCall]

Init ==
  /\ life = "new" /\ running = FALSE
  /\ pc = [t \in Threads |-> "idle"]
  /\ cur = [t \in Threads |-> NoCall]
  /\ calls = 0 /\ sent = 0
  /\ status = [c \in Calls |-> "none"]
  /\ pending = [i \in Ids |-> NoCall]
  /\ cborBuf = NoCall
  /\ toAgent = {} /\ toClient = {}
  /\ rx = "off" /\ rxMsg = NoMsg /\ rxEntry = NoCall
  /\ count = [c \in Calls |-> 0]
  /\ answer = [c \in Calls |-> NoCall]

-----------------------------------------------------------------------------
(* Plausible bugs of the operations below: each property is shown to fail  *)
(* when the operation is written this way.                                 *)

CloseKeepsRunning ==
  /\ life = "open"
  /\ \A t \in Callers \ {Rx} : pc[t] = "idle"
  /\ life' = "closing"
  /\ UNCHANGED <<appVars, rxVars, netVars, pending, running>>

CloseWithoutJoin ==
  /\ life = "closing" /\ Platform = "std"
  /\ life' = "closed"
  /\ UNCHANGED <<appVars, rxVars, netVars, pending, running>>

CloseLeavesTask ==
  /\ life = "closing" /\ Platform = "vxworks"
  /\ life' = "closed"
  /\ UNCHANGED <<appVars, rxVars, netVars, pending, running>>

LookupWithoutErase ==
  /\ rx = "lookup"
  /\ \E i \in {j \in Ids : pending[j] # NoCall /\ (rxMsg.id > 0 => j = rxMsg.id)} :
       rxEntry' = pending[i]
  /\ rx' = "deliver"
  /\ UNCHANGED <<rxMsg, count, answer, appVars, netVars, lifeVars, pending>>

\* Every entry up to the matched one is erased.
LookupErasesOlder ==
  /\ rx = "lookup"
  /\ \E i \in {j \in Ids : pending[j] # NoCall /\ (rxMsg.id > 0 => j = rxMsg.id)} :
       /\ rxEntry' = pending[i]
       /\ pending' = [j \in Ids |-> IF j <= i THEN NoCall ELSE pending[j]]
  /\ rx' = "deliver"
  /\ UNCHANGED <<rxMsg, count, answer, appVars, netVars, lifeVars>>

\* A reply whose id is unknown goes to the oldest request.
SlotsFallBack(m) ==
  LET reg == {i \in Ids : pending[i] # NoCall}
      hit == {i \in reg : i = m.id}
  IN  IF hit # {} THEN hit ELSE {i \in reg : \A j \in reg : i <= j}

\* The newest request first.
SlotsNewest(m) ==
  LET reg == {i \in Ids : pending[i] # NoCall}
  IN  IF m.id > 0 THEN {i \in reg : i = m.id} ELSE {i \in reg : \A j \in reg : i >= j}

-----------------------------------------------------------------------------
(* Opening and closing the handle.                                         *)

\* legacy_agent_init: the transport, then the receive thread.  Without a
\* socket or (VxWorks) without a task the client is destroyed again.
Open ==
  /\ life = "new"
  /\ \/ life' = "open" /\ running' = TRUE /\ rx' = "check"
     \/ life' = "closed" /\ UNCHANGED <<running, rx>>
  /\ UNCHANGED <<appVars, netVars, pending, rxMsg, rxEntry, count, answer>>

\* legacy_agent_close, which its caller must order after every other call.
CloseBegin ==
  /\ life = "open"
  /\ \A t \in Callers \ {Rx} : pc[t] = "idle"
  /\ life' = "closing" /\ running' = FALSE
  /\ UNCHANGED <<appVars, rxVars, netVars, pending>>

\* recv_thread_.join(), then transport_.close() and delete.
CloseJoin ==
  /\ life = "closing" /\ Platform = "std"
  /\ rx = "exited"
  /\ life' = "closed"
  /\ UNCHANGED <<appVars, rxVars, netVars, pending, running>>

\* VxWorks waits a little over 100 ms and then deletes the task wherever it is.
CloseDelete ==
  /\ life = "closing" /\ Platform = "vxworks"
  /\ life' = "closed"
  /\ rx' = IF rx = "exited" THEN rx ELSE "deleted"
  /\ pc' = [pc EXCEPT ![Rx] = "idle"]
  /\ UNCHANGED <<cur, calls, status, cborBuf, sent, rxMsg, rxEntry, count, answer,
                 netVars, pending, running>>

-----------------------------------------------------------------------------
(* One request method, on a thread t.                                      *)

\* A callback that issues requests does so while receiveLoop is inside it.
MayCall(t) == life = "open" \/ t = Rx
InCall(t)  == t = Rx => rx = "callback"

\* generateRequestId and building the JSON body.
Generate(t) ==
  /\ pc[t] = "idle" /\ MayCall(t) /\ InCall(t)
  /\ calls < MaxCalls
  /\ calls' = calls + 1
  /\ cur' = [cur EXCEPT ![t] = calls + 1]
  /\ pc' = [pc EXCEPT ![t] = "register"]
  /\ UNCHANGED <<status, cborBuf, sent, rxVars, netVars, lifeVars, pending>>

\* registerRequest: under req_mutex_, whatever the slot held before.
Register(t) ==
  /\ pc[t] = "register"
  /\ pending' = [pending EXCEPT ![Id(cur[t])] = cur[t]]
  /\ pc' = [pc EXCEPT ![t] = "encode"]
  /\ UNCHANGED <<cur, calls, status, cborBuf, sent, rxVars, netVars, lifeVars>>

\* cbor_buf_ = std::move(cbor), under no lock.
Encode(t) ==
  /\ pc[t] = "encode"
  /\ cborBuf' = cur[t]
  /\ pc' = [pc EXCEPT ![t] = "send"]
  /\ UNCHANGED <<cur, calls, status, sent, rxVars, netVars, lifeVars, pending>>

\* What the socket call may read from the buffer: the last payload stored, or
\* a mixture while another thread is storing its own.
Readable(t) ==
  {cborBuf} \cup (IF \E s \in Threads \ {t} : pc[s] = "encode" THEN {Garbled} ELSE {})

\* transport_.send: one datagram, the header's corr_id is this thread's id.
Send(t) ==
  /\ pc[t] = "send"
  /\ \E b \in Readable(t) :
       toAgent' = toAgent \cup {[n |-> sent + 1, id |-> Id(cur[t]), body |-> b]}
  /\ sent' = sent + 1
  /\ pc' = [pc EXCEPT ![t] = "ok"]
  /\ UNCHANGED <<cur, calls, status, cborBuf, toClient, rxVars, lifeVars, pending>>

\* The socket refuses the datagram (an ICMP error of an earlier one, no buffer
\* space).  The entry stays in pending_requests_.
SendFails(t) ==
  /\ pc[t] = "send" /\ "refuse" \in Faults
  /\ pc' = [pc EXCEPT ![t] = "err"]
  /\ UNCHANGED <<cur, calls, status, cborBuf, sent, rxVars, netVars, lifeVars, pending>>

\* The method returns LEGACY_OK or LEGACY_ERR_TRANSPORT.
Return(t) ==
  /\ pc[t] \in {"ok", "err"}
  /\ status' = [status EXCEPT ![cur[t]] = pc[t]]
  /\ pc' = [pc EXCEPT ![t] = "idle"]
  /\ UNCHANGED <<cur, calls, cborBuf, sent, rxVars, netVars, lifeVars, pending>>

-----------------------------------------------------------------------------
(* receiveLoop.                                                            *)

\* while (running_): into transport_.receive, or out of the loop.
RxCheck ==
  /\ rx = "check"
  /\ rx' = IF running THEN "receive" ELSE "exited"
  /\ UNCHANGED <<rxMsg, rxEntry, count, answer, appVars, netVars, lifeVars, pending>>

\* select reported nothing for 100 ms, an error, or a datagram that is dropped.
RxTimeout ==
  /\ rx = "receive"
  /\ rx' = "check"
  /\ UNCHANGED <<rxMsg, rxEntry, count, answer, appVars, netVars, lifeVars, pending>>

\* In send order unless the network reorders.
Arriving(chan) == {p \in chan : "reorder" \in Faults \/ \A q \in chan : p.n <= q.n}

\* The packet is gone once taken, unless the network made a copy of it.
Taken(chan, p) == {chan \ {p}} \cup (IF "duplicate" \in Faults THEN {chan} ELSE {})

RxReceive ==
  /\ rx = "receive"
  /\ \E p \in Arriving(toClient) :
       /\ rxMsg' = p
       /\ toClient' \in Taken(toClient, p)
  /\ rx' = "lookup"
  /\ UNCHANGED <<rxEntry, count, answer, appVars, toAgent, lifeVars, pending>>

Registered == {i \in Ids : pending[i] # NoCall}

\* The slot a reply is matched with: the id it carries, and if it carries none
\* the first key of the map.
Slots(m) ==
  IF m.id > 0 THEN {i \in Registered : i = m.id}
              ELSE {i \in Registered : \A j \in Registered : i <= j}

\* Under req_mutex_: find, copy, erase.
RxLookup ==
  /\ rx = "lookup"
  /\ \E i \in Slots(rxMsg) :
       /\ rxEntry' = pending[i]
       /\ pending' = [pending EXCEPT ![i] = NoCall]
  /\ rx' = "deliver"
  /\ UNCHANGED <<rxMsg, count, answer, appVars, netVars, lifeVars>>

RxUnknown ==
  /\ rx = "lookup" /\ Slots(rxMsg) = {}
  /\ rx' = "check"
  /\ UNCHANGED <<rxMsg, rxEntry, count, answer, appVars, netVars, lifeVars, pending>>

\* hello_cb or simple_cb, with no lock held.
RxCallback ==
  /\ rx = "deliver"
  /\ count' = [count EXCEPT ![rxEntry] = @ + 1]
  /\ answer' = [answer EXCEPT ![rxEntry] = rxMsg.body]
  /\ rx' = "callback"
  /\ UNCHANGED <<rxMsg, rxEntry, appVars, netVars, lifeVars, pending>>

RxReturn ==
  /\ rx = "callback" /\ pc[Rx] = "idle"
  /\ rx' = "check"
  /\ UNCHANGED <<rxMsg, rxEntry, count, answer, appVars, netVars, lifeVars, pending>>

-----------------------------------------------------------------------------
(* The network and the Agent (external).                                   *)

Lose ==
  /\ "lose" \in Faults
  /\ \/ \E p \in toAgent : toAgent' = toAgent \ {p} /\ UNCHANGED toClient
     \/ \E p \in toClient : toClient' = toClient \ {p} /\ UNCHANGED toAgent
  /\ UNCHANGED <<appVars, rxVars, lifeVars, pending>>

\* The Agent answers a request it can decode; only the header told it the id.
Reply(p) == [n |-> p.n, id |-> IF Echo THEN p.id ELSE 0, body |-> p.body]

AgentReplies ==
  /\ \E p \in Arriving(toAgent) :
       /\ toAgent' \in Taken(toAgent, p)
       /\ toClient' = IF p.body = Garbled THEN toClient ELSE toClient \cup {Reply(p)}
  /\ UNCHANGED <<appVars, rxVars, lifeVars, pending>>

-----------------------------------------------------------------------------
RequestMethod(t) ==
  Generate(t) \/ Register(t) \/ Encode(t) \/ Send(t) \/ SendFails(t) \/ Return(t)

ReceiveLoop ==
  RxCheck \/ RxTimeout \/ RxReceive \/ RxLookup \/ RxUnknown \/ RxCallback \/ RxReturn

\* The handle is gone; nothing more happens to this client.
Closed == life = "closed" /\ UNCHANGED vars

Next ==
  \/ Open \/ CloseBegin \/ CloseJoin \/ CloseDelete \/ Closed
  \/ \E t \in Callers : RequestMethod(t)
  \/ ReceiveLoop
  \/ Lose \/ AgentReplies

Spec == Init /\ [][Next]_vars

\* Threads inside the library run on; select reports a datagram that keeps
\* coming (strong: receiveLoop leaves receive every 100 ms); the Agent answers.
\* An application need not issue a request, nor close the handle.
Fairness ==
  /\ \A t \in Callers : WF_vars(Register(t) \/ Encode(t) \/ Send(t) \/ Return(t))
  /\ WF_vars(RxCheck) /\ WF_vars(RxTimeout) /\ SF_vars(RxReceive)
  /\ WF_vars(RxLookup) /\ WF_vars(RxUnknown) /\ WF_vars(RxCallback) /\ WF_vars(RxReturn)
  /\ WF_vars(AgentReplies) /\ WF_vars(CloseJoin \/ CloseDelete)

FairSpec == Spec /\ Fairness

-----------------------------------------------------------------------------
(* Properties.                                                             *)

TypeOK ==
  /\ life \in {"new", "open", "closing", "closed"}
  /\ running \in BOOLEAN
  /\ pc \in [Threads -> {"idle", "register", "encode", "send", "ok", "err"}]
  /\ cur \in [Threads -> Calls \cup {NoCall}]
  /\ calls \in 0..MaxCalls /\ sent \in Nat
  /\ status \in [Calls -> {"none", "ok", "err"}]
  /\ pending \in [Ids -> Calls \cup {NoCall}]
  /\ cborBuf \in Calls \cup {NoCall}
  /\ toAgent \subseteq Packet /\ toClient \subseteq Packet
  /\ rx \in {"off", "check", "receive", "lookup", "deliver", "callback", "exited", "deleted"}
  /\ rxMsg \in Packet \cup {NoMsg}
  /\ rxEntry \in Calls \cup {NoCall}
  /\ count \in [Calls -> Nat]
  /\ answer \in [Calls -> Bodies \cup {NoCall}]

\* A request's callback runs at most once, whatever the network duplicates or
\* reorders, however calls interleave, and across a wrap of the id counter:
\* receiveLoop erases the entry under req_mutex_ before it calls back.
AtMostOnce == \A c \in Calls : count[c] <= 1

\* A callback is given the reply to its own request, not the reply to another.
OwnReply == \A c \in Calls : count[c] > 0 => answer[c] = c

\* A datagram carries under a request id the payload of that request, though
\* all threads encode into the one cbor_buf_.
OwnPayload == \A p \in toAgent : p.body \in Calls /\ p.id = Id(p.body)

\* A reply that carries an id reaches the callback registered under that id.
OwnId == rx \in {"deliver", "callback"} => rxMsg.id = Id(rxEntry)

\* No entry is lost: until the client is freed, a call whose registration is
\* over is still in the table, is being delivered, or has been called back.
Past(c) == c <= calls /\ \A t \in Threads : ~(cur[t] = c /\ pc[t] = "register")
EntryKept ==
  \A c \in Calls : Past(c) /\ life # "closed" =>
    \/ \E i \in Ids : pending[i] = c
    \/ rx = "deliver" /\ rxEntry = c
    \/ count[c] > 0

\* Once legacy_agent_close has returned no callback is running, none starts, and
\* the receive thread touches nothing of the deleted client.
SilentAfterClose ==
  /\ [][life = "closed" => UNCHANGED <<rxVars, pending>>]_vars
  /\ [](life = "closed" => rx \in {"off", "exited", "deleted"})

\* A call that returned LEGACY_OK is called back, with its own reply, unless the
\* handle is closed; an Agent that returns no ids included.
Answered == \A c \in Calls : status[c] = "ok" ~> (answer[c] = c \/ life # "open")

\* legacy_agent_close returns.
CloseReturns == life = "closing" ~> life = "closed"

\* The client implements what RequestReply promises.
RR == INSTANCE RequestReply
        WITH open <- life # "closed", issued <- 1..calls, answer <- answer
RequestReplySpec == RR!AbsSpec
=============================================================================
