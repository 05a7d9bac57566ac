--------------------------- MODULE IpcClientProofs ---------------------------
(***************************************************************************)
(* Proofs about IpcClient, for every set of threads, every bound on the    *)
(* number of requests, every size of the id counter, both platforms, an    *)
(* Agent with or without ids and every kind of network.                    *)
(***************************************************************************)
EXTENDS IpcClient, TLAPS

\* The next request id is a key of the table.
LEMMA IdType == \A c \in Nat : Id(c) \in Ids
  BY IpcAssumption DEF Id, Ids

\* As long as the counter has not wrapped, a request id is the call's number.
LEMMA IdBeforeWrap == \A c \in 0..(IdSpace - 1) : Id(c) = c
  BY IpcAssumption DEF Id

-----------------------------------------------------------------------------
(* Type correctness.  TypeOK is not inductive: that Send puts a payload on *)
(* the wire needs the buffer to have been filled, that Generate leaves     *)
(* cur[t] a call and that RxCallback counts for a call need InUse.         *)

\* A thread inside a request method works on a call that was generated; the
\* buffer holds a payload when it is read; an entry taken was registered.
InUse ==
  /\ \A t \in Threads : pc[t] # "idle" => cur[t] \in 1..calls
  /\ \A t \in Threads : pc[t] = "send" => cborBuf \in Calls
  /\ rx = "deliver" => rxEntry \in 1..calls
  /\ \A i \in Ids : pending[i] \in 0..calls

TypeInv == TypeOK /\ InUse

\* Types, and what they rest on, hold initially.
LEMMA TypeInit == Init => TypeInv
<1> SUFFICES ASSUME Init PROVE TypeOK /\ InUse
  BY DEF TypeInv
<1>1. TypeOK
  <2>1. life \in {"new", "open", "closing", "closed"} /\ running \in BOOLEAN
    BY DEF Init
  <2>2. pc \in [Threads -> {"idle", "register", "encode", "send", "ok", "err"}]
    BY DEF Init
  <2>3. cur \in [Threads -> Calls \cup {NoCall}]
    BY DEF Init
  <2>4. calls \in 0..MaxCalls /\ sent \in Nat
    BY IpcAssumption DEF Init
  <2>5. status \in [Calls -> {"none", "ok", "err"}] /\ pending \in [Ids -> Calls \cup {NoCall}]
    BY DEF Init
  <2>6. cborBuf \in Calls \cup {NoCall} /\ rxEntry \in Calls \cup {NoCall}
    BY DEF Init
  <2>7. toAgent \subseteq Packet /\ toClient \subseteq Packet /\ rxMsg \in Packet \cup {NoMsg}
    BY DEF Init
  <2>8. rx \in {"off", "check", "receive", "lookup", "deliver", "callback", "exited", "deleted"}
    BY DEF Init
  <2>9. count \in [Calls -> Nat] /\ answer \in [Calls -> Bodies \cup {NoCall}]
    BY DEF Init
  <2>10. QED
    BY <2>1, <2>2, <2>3, <2>4, <2>5, <2>6, <2>7, <2>8, <2>9 DEF TypeOK
<1>2. InUse
  BY DEF Init, InUse, NoCall
<1>3. QED
  BY <1>1, <1>2

\* Every step keeps them.
LEMMA TypeNext == TypeInv /\ [Next]_vars => TypeInv'
<1> SUFFICES ASSUME TypeOK, InUse, [Next]_vars
             PROVE  TypeOK' /\ InUse'
  BY DEF TypeInv
<1> USE IpcAssumption DEF TypeOK, InUse, Calls, NoCall, appVars, rxVars, netVars, lifeVars
<1>1. CASE Open
  BY <1>1 DEF Open
<1>2. CASE CloseBegin
  BY <1>2 DEF CloseBegin
<1>3. CASE CloseJoin
  BY <1>3 DEF CloseJoin
<1>4. CASE CloseDelete
  BY <1>4 DEF CloseDelete, Threads
<1>5. ASSUME NEW t \in Callers, RequestMethod(t)
      PROVE  TypeOK' /\ InUse'
  <2>0. t \in Threads
    BY DEF Threads
  <2>1. CASE Generate(t)
    BY <2>0, <2>1 DEF Generate
  <2>2. CASE Register(t)
    <3>1. cur[t] \in 1..calls /\ Id(cur[t]) \in Ids
      BY <2>0, <2>2, IdType, SMTT(30) DEF Register
    <3>2. QED
      BY <2>0, <2>2, <3>1 DEF Register
  <2>3. CASE Encode(t)
    BY <2>0, <2>3 DEF Encode
  <2>4. CASE Send(t)
    <3>1. cur[t] \in 1..calls /\ Id(cur[t]) \in Ids
      BY <2>0, <2>4, IdType, SMTT(30) DEF Send
    <3>2. Readable(t) \subseteq Bodies
      BY <2>0, <2>4 DEF Send, Readable, Bodies
    <3>3. \A b \in Readable(t) : [n |-> sent + 1, id |-> Id(cur[t]), body |-> b] \in Packet
      BY <3>1, <3>2 DEF Packet
    <3>4. toAgent' \subseteq Packet
      BY <2>4, <3>3 DEF Send
    <3>5. QED
      BY <2>0, <2>4, <3>4 DEF Send
  <2>5. CASE SendFails(t)
    BY <2>0, <2>5 DEF SendFails
  <2>6. CASE Return(t)
    BY <2>0, <2>6 DEF Return
  <2>7. QED
    BY <1>5, <2>1, <2>2, <2>3, <2>4, <2>5, <2>6 DEF RequestMethod
<1>6. CASE ReceiveLoop
  <2>1. CASE RxCheck
    BY <1>6, <2>1 DEF RxCheck
  <2>2. CASE RxTimeout
    BY <2>2 DEF RxTimeout
  <2>3. CASE RxReceive
    BY <2>3 DEF RxReceive, Arriving, Taken
  <2>4. CASE RxLookup
    <3>1. PICK i \in Slots(rxMsg) : rxEntry' = pending[i] /\ pending' = [pending EXCEPT ![i] = NoCall]
      BY <2>4 DEF RxLookup
    <3>2. i \in Ids /\ pending[i] # NoCall
      BY DEF Slots, Registered
    <3>3. QED
      BY <2>4, <3>1, <3>2, SMTT(30) DEF RxLookup
  <2>5. CASE RxUnknown
    BY <2>5 DEF RxUnknown
  <2>6. CASE RxCallback
    BY <2>6, SMTT(30) DEF RxCallback, Packet, NoMsg
  <2>7. CASE RxReturn
    BY <2>7 DEF RxReturn
  <2>8. QED
    BY <1>6, <2>1, <2>2, <2>3, <2>4, <2>5, <2>6, <2>7 DEF ReceiveLoop
<1>7. CASE Lose
  BY <1>7 DEF Lose
<1>8. CASE AgentReplies
  <2>1. PICK p \in toAgent :
          /\ toAgent' \in Taken(toAgent, p)
          /\ toClient' = IF p.body = Garbled THEN toClient ELSE toClient \cup {Reply(p)}
    BY <1>8 DEF AgentReplies, Arriving
  <2>2. Reply(p) \in Packet
    BY DEF Reply, Packet, Ids
  <2>3. QED
    BY <1>8, <2>1, <2>2 DEF AgentReplies, Taken
<1>9. CASE UNCHANGED vars
  BY <1>9 DEF vars
<1>10. QED
  BY <1>1, <1>2, <1>3, <1>4, <1>5, <1>6, <1>7, <1>8, <1>9 DEF Next, Closed

\* Every reachable state of the client is of its type: in particular callbacks
\* are only ever made for calls that were issued, and only filled buffers sent.
THEOREM TypeCorrect == Spec => []TypeOK
  BY TypeInit, TypeNext, PTL DEF Spec, TypeInv

-----------------------------------------------------------------------------
(* At most one callback.  AtMostOnce alone says nothing of a call that has *)
(* been called back and is registered again, so the strengthening says     *)
(* where a call can be: with the thread that will register it, in one slot *)
(* of the table, or taken out for delivery, and in none of them once its   *)
(* callback has run.                                                       *)

\* c waits for its callback or has not been registered: it has had none.
Fresh(c) == count[c] = 0 /\ (rx = "deliver" => rxEntry # c)

OneOwner ==
  /\ \A s, t \in Threads : s # t /\ pc[s] # "idle" /\ pc[t] # "idle" => cur[s] # cur[t]
  /\ \A t \in Threads : pc[t] = "register" =>
       Fresh(cur[t]) /\ \A i \in Ids : pending[i] # cur[t]
  /\ \A i, j \in Ids : i # j /\ pending[i] # NoCall => pending[i] # pending[j]
  /\ \A i \in Ids : pending[i] # NoCall => Fresh(pending[i])
  /\ rx = "deliver" => count[rxEntry] = 0
  /\ \A c \in Calls : c > calls => count[c] = 0
  /\ AtMostOnce

\* No call is anywhere yet.
LEMMA OwnerInit == Init => OneOwner
  BY DEF Init, OneOwner, AtMostOnce, NoCall

\* The steps that leave every call where it is.
LEMMA OwnerFrame ==
  ASSUME TypeInv, OneOwner, UNCHANGED <<cur, calls, pending, count>>,
         \A t \in Threads : pc'[t] = pc[t] \/ (pc[t] # "idle" /\ pc'[t] # "register") \/ pc'[t] = "idle",
         rx' = "deliver" => rx = "deliver" /\ rxEntry' = rxEntry
  PROVE  OneOwner'
  BY DEF TypeInv, TypeOK, InUse, OneOwner, AtMostOnce, Fresh, NoCall, Calls

\* A request method puts a new call on its thread, and nowhere else.
LEMMA OwnerGenerate ==
  ASSUME TypeInv, OneOwner, NEW t \in Threads, Generate(t)
  PROVE  OneOwner'
<1> USE DEF TypeInv, TypeOK, InUse, Calls, NoCall, rxVars
<1> DEFINE d == calls + 1
<1>1. /\ d \in Calls /\ count[d] = 0
      /\ \A i \in Ids : pending[i] # d
      /\ \A s \in Threads : pc[s] # "idle" => cur[s] # d
      /\ rx = "deliver" => rxEntry # d
  BY IpcAssumption DEF Generate, OneOwner
<1>2. /\ cur'[t] = d /\ pc'[t] = "register"
      /\ \A s \in Threads \ {t} : cur'[s] = cur[s] /\ pc'[s] = pc[s]
      /\ UNCHANGED <<pending, count, rx, rxEntry>> /\ calls' = d
  BY DEF Generate
<1>3. \A s, u \in Threads : s # u /\ pc'[s] # "idle" /\ pc'[u] # "idle" => cur'[s] # cur'[u]
  BY <1>1, <1>2 DEF OneOwner
<1>4. \A s \in Threads : pc'[s] = "register" =>
        Fresh(cur[s])' /\ \A i \in Ids : pending'[i] # cur'[s]
  BY <1>1, <1>2 DEF OneOwner, Fresh
<1>5. \A i \in Ids : pending'[i] # NoCall => Fresh(pending[i])'
  BY <1>2 DEF OneOwner, Fresh
<1>6. QED
  BY <1>2, <1>3, <1>4, <1>5 DEF OneOwner, AtMostOnce

\* Registering moves a call into the table, over another one when the id wrapped.
LEMMA OwnerRegister ==
  ASSUME TypeInv, OneOwner, NEW t \in Threads, Register(t)
  PROVE  OneOwner'
<1> USE DEF TypeInv, TypeOK, InUse, Calls, NoCall, rxVars
<1> DEFINE c == cur[t]  k == Id(c)
<1>1. c \in 1..calls /\ c \in Calls /\ k \in Ids
  BY IdType DEF Register
<1>2. Fresh(c) /\ \A i \in Ids : pending[i] # c
  BY DEF Register, OneOwner
<1>3. /\ pending'[k] = c /\ pc'[t] = "encode"
      /\ \A i \in Ids \ {k} : pending'[i] = pending[i]
      /\ \A s \in Threads \ {t} : pc'[s] = pc[s]
      /\ UNCHANGED <<cur, calls, count, rx, rxEntry>>
  BY <1>1 DEF Register
<1>4. \A s \in Threads \ {t} : pc[s] = "register" => cur[s] # c
  BY DEF Register, OneOwner
<1>5. \A s, t1 \in Threads : s # t1 /\ pc'[s] # "idle" /\ pc'[t1] # "idle" => cur'[s] # cur'[t1]
  BY <1>3 DEF OneOwner, Register
<1>6. \A s \in Threads : pc'[s] = "register" =>
        Fresh(cur[s])' /\ \A i \in Ids : pending'[i] # cur'[s]
  BY <1>3, <1>4 DEF OneOwner, Fresh
<1>7. \A i, j \in Ids : i # j /\ pending'[i] # NoCall => pending'[i] # pending'[j]
  BY <1>1, <1>2, <1>3 DEF OneOwner
<1>8. \A i \in Ids : pending'[i] # NoCall => Fresh(pending[i])'
  BY <1>1, <1>2, <1>3 DEF OneOwner, Fresh
<1>9. QED
  BY <1>3, <1>5, <1>6, <1>7, <1>8 DEF OneOwner, AtMostOnce

\* A lookup moves a call from the table to the receive thread.
LEMMA OwnerLookup ==
  ASSUME TypeInv, OneOwner, RxLookup
  PROVE  OneOwner'
<1> USE DEF TypeInv, TypeOK, InUse, Calls, NoCall, appVars
<1>1. PICK k \in Slots(rxMsg) : rxEntry' = pending[k] /\ pending' = [pending EXCEPT ![k] = NoCall]
  BY DEF RxLookup
<1>2. k \in Ids /\ pending[k] # NoCall
  BY DEF Slots, Registered
<1>3. /\ pending'[k] = NoCall
      /\ \A i \in Ids \ {k} : pending'[i] = pending[i]
      /\ UNCHANGED <<pc, cur, calls, count>> /\ rx = "lookup"
  BY <1>1, <1>2 DEF RxLookup
<1>4. count[pending[k]] = 0
  BY <1>2 DEF OneOwner, Fresh
<1>5. \A i \in Ids \ {k} : pending[i] # NoCall => pending[i] # pending[k]
  BY <1>2 DEF OneOwner
<1>6. \A t \in Threads : pc[t] = "register" => cur[t] # pending[k]
  BY <1>2 DEF OneOwner
<1>7. \A t \in Threads : pc'[t] = "register" =>
        Fresh(cur[t])' /\ \A i \in Ids : pending'[i] # cur'[t]
  BY <1>1, <1>2, <1>3, <1>6 DEF OneOwner, Fresh
<1>8. \A i, j \in Ids : i # j /\ pending'[i] # NoCall => pending'[i] # pending'[j]
  BY <1>3 DEF OneOwner
<1>9. \A i \in Ids : pending'[i] # NoCall => Fresh(pending[i])'
  BY <1>1, <1>3, <1>5 DEF OneOwner, Fresh
<1>10. QED
  BY <1>1, <1>3, <1>4, <1>7, <1>8, <1>9 DEF OneOwner, AtMostOnce

\* The callback runs on the call the receive thread took out of the table.
LEMMA OwnerCallback ==
  ASSUME TypeInv, OneOwner, RxCallback
  PROVE  OneOwner'
<1> USE DEF TypeInv, TypeOK, InUse, Calls, NoCall, appVars
<1>1. /\ rx = "deliver" /\ rx' = "callback" /\ rxEntry \in 1..calls
      /\ count' = [count EXCEPT ![rxEntry] = @ + 1]
      /\ UNCHANGED <<pc, cur, calls, pending>>
  BY DEF RxCallback
<1>2. rxEntry \in Calls /\ count[rxEntry] = 0 /\ count'[rxEntry] = 1
  BY <1>1, IpcAssumption DEF OneOwner
<1>3. \A c \in Calls \ {rxEntry} : count'[c] = count[c]
  BY <1>1
<1>4. /\ \A i \in Ids : pending[i] # rxEntry
      /\ \A t \in Threads : pc[t] = "register" => cur[t] # rxEntry
  BY <1>1, <1>2 DEF OneOwner, Fresh
<1>5. QED
  BY <1>1, <1>2, <1>3, <1>4, IpcAssumption DEF OneOwner, Fresh, AtMostOnce

\* Every step keeps each call in at most one place.
LEMMA OwnerNext == TypeInv /\ OneOwner /\ [Next]_vars => OneOwner'
<1> SUFFICES ASSUME TypeInv, OneOwner, [Next]_vars
             PROVE  OneOwner'
  OBVIOUS
<1> USE DEF appVars, rxVars, netVars, lifeVars
<1>1. CASE Open
  BY <1>1, OwnerFrame DEF Open
<1>2. CASE CloseBegin \/ CloseJoin
  BY <1>2, OwnerFrame DEF CloseBegin, CloseJoin
<1>3. CASE CloseDelete
  BY <1>3, OwnerFrame DEF CloseDelete, TypeInv, TypeOK
<1>4. ASSUME NEW t \in Callers, RequestMethod(t)
      PROVE  OneOwner'
  <2>0. t \in Threads
    BY DEF Threads
  <2>1. CASE Generate(t)
    BY <2>0, <2>1, OwnerGenerate
  <2>2. CASE Register(t)
    BY <2>0, <2>2, OwnerRegister
  <2>3. CASE Encode(t)
    BY <2>0, <2>3, OwnerFrame DEF Encode, TypeInv, TypeOK
  <2>4. CASE Send(t)
    BY <2>0, <2>4, OwnerFrame DEF Send, TypeInv, TypeOK
  <2>5. CASE SendFails(t)
    BY <2>0, <2>5, OwnerFrame DEF SendFails, TypeInv, TypeOK
  <2>6. CASE Return(t)
    BY <2>0, <2>6, OwnerFrame DEF Return, TypeInv, TypeOK
  <2>7. QED
    BY <1>4, <2>1, <2>2, <2>3, <2>4, <2>5, <2>6 DEF RequestMethod
<1>5. CASE ReceiveLoop
  <2>1. CASE RxCheck \/ RxTimeout \/ RxReceive \/ RxUnknown \/ RxReturn
    BY <2>1, OwnerFrame DEF RxCheck, RxTimeout, RxReceive, RxUnknown, RxReturn
  <2>2. QED
    BY <1>5, <2>1, OwnerLookup, OwnerCallback DEF ReceiveLoop
<1>6. CASE Lose \/ AgentReplies
  BY <1>6, OwnerFrame DEF Lose, AgentReplies
<1>7. CASE UNCHANGED vars
  BY <1>7, OwnerFrame DEF vars
<1>8. QED
  BY <1>1, <1>2, <1>3, <1>4, <1>5, <1>6, <1>7 DEF Next, Closed

\* A request's callback runs at most once, on either platform, whatever the
\* network loses, copies or reorders, with or without ids in the replies and
\* even when the 32-bit id counter wraps onto an id still registered.
THEOREM CalledBackAtMostOnce == Spec => []AtMostOnce
<1>1. Init => TypeInv /\ OneOwner
  BY TypeInit, OwnerInit
<1>2. TypeInv /\ OneOwner /\ [Next]_vars => (TypeInv /\ OneOwner)'
  BY TypeNext, OwnerNext
<1>3. TypeInv /\ OneOwner => AtMostOnce
  BY DEF OneOwner
<1>4. QED
  BY <1>1, <1>2, <1>3, PTL DEF Spec

-----------------------------------------------------------------------------
(* Closing.  legacy_agent_close is ordered after the other threads' calls, *)
(* and a call of the receive thread's own lasts only as long as its        *)
(* callback; so when the thread has left its loop nothing is in progress.  *)

CloseInv ==
  /\ life = "new" => rx = "off"
  /\ life = "closed" => rx \in {"off", "exited", "deleted"}
  /\ life # "open" => \A t \in Threads \ {Rx} : pc[t] = "idle"
  /\ pc[Rx] # "idle" => rx = "callback"

\* A new handle has no receive thread.
LEMMA CloseInit == Init => CloseInv
  BY DEF Init, CloseInv, Threads

\* Every step keeps CloseInv: a closed handle has no receive thread and no caller.
LEMMA CloseNext == TypeInv /\ CloseInv /\ [Next]_vars => CloseInv'
<1> SUFFICES ASSUME TypeOK, CloseInv, [Next]_vars
             PROVE  CloseInv'
  BY DEF TypeInv
<1> USE DEF CloseInv, appVars, rxVars, netVars, lifeVars
<1>1. CASE Open
  BY <1>1 DEF Open
<1>2. CASE CloseBegin
  BY <1>2 DEF CloseBegin, Threads
<1>3. CASE CloseJoin
  BY <1>3 DEF CloseJoin
<1>4. CASE CloseDelete
  BY <1>4 DEF CloseDelete, TypeOK, Threads
<1>5. ASSUME NEW t \in Callers, RequestMethod(t)
      PROVE  CloseInv'
  <2>1. CASE Generate(t)
    BY <2>1 DEF Generate, MayCall, InCall, TypeOK, Threads
  <2>2. CASE Register(t)
    BY <2>2 DEF Register, TypeOK, Threads
  <2>3. CASE Encode(t)
    BY <2>3 DEF Encode, TypeOK, Threads
  <2>4. CASE Send(t)
    BY <2>4 DEF Send, TypeOK, Threads
  <2>5. CASE SendFails(t)
    BY <2>5 DEF SendFails, TypeOK, Threads
  <2>6. CASE Return(t)
    BY <2>6 DEF Return, TypeOK, Threads
  <2>7. QED
    BY <1>5, <2>1, <2>2, <2>3, <2>4, <2>5, <2>6 DEF RequestMethod
<1>6. CASE ReceiveLoop
  BY <1>6 DEF ReceiveLoop, RxCheck, RxTimeout, RxReceive, RxLookup, RxUnknown, RxCallback, RxReturn
<1>7. CASE Lose \/ AgentReplies
  BY <1>7 DEF Lose, AgentReplies
<1>8. CASE UNCHANGED vars
  BY <1>8 DEF vars
<1>9. QED
  BY <1>1, <1>2, <1>3, <1>4, <1>5, <1>6, <1>7, <1>8 DEF Next, Closed

\* No step touches the client once the handle is closed.
LEMMA ClosedIsSilent ==
  TypeInv /\ CloseInv /\ [Next]_vars => [life = "closed" => UNCHANGED <<rxVars, pending>>]_vars
<1> SUFFICES ASSUME CloseInv, Next, life = "closed"
             PROVE  UNCHANGED <<rxVars, pending>>
  OBVIOUS
<1> USE DEF CloseInv, rxVars
<1>1. \A t \in Threads : pc[t] = "idle"
  BY DEF Threads
<1>2. ASSUME NEW t \in Callers, RequestMethod(t)
      PROVE  FALSE
  <2>1. pc[t] = "idle"
    BY <1>1 DEF Threads
  <2>2. Generate(t)
    BY <1>2, <2>1 DEF RequestMethod, Register, Encode, Send, SendFails, Return
  <2>3. QED
    BY <2>2 DEF Generate, MayCall, InCall
<1>3. ~ReceiveLoop
  BY DEF ReceiveLoop, RxCheck, RxTimeout, RxReceive, RxLookup, RxUnknown, RxCallback, RxReturn
<1>4. CASE Lose \/ AgentReplies
  BY <1>4 DEF Lose, AgentReplies
<1>5. CASE Closed
  BY <1>5 DEF Closed, vars
<1>6. QED
  BY <1>2, <1>3, <1>4, <1>5 DEF Next, Open, CloseBegin, CloseJoin, CloseDelete

\* When legacy_agent_close has returned, the receive thread is gone on both
\* platforms: no callback is running or starts and the table is not touched.
THEOREM SilentOnceClosed == Spec => SilentAfterClose
<1>1. Init => TypeInv /\ CloseInv
  BY TypeInit, CloseInit
<1>2. TypeInv /\ CloseInv /\ [Next]_vars => (TypeInv /\ CloseInv)'
  BY TypeNext, CloseNext
<1>3. TypeInv /\ CloseInv => (life = "closed" => rx \in {"off", "exited", "deleted"})
  BY DEF CloseInv
<1>4. QED
  BY <1>1, <1>2, <1>3, ClosedIsSilent, PTL DEF Spec, SilentAfterClose

-----------------------------------------------------------------------------
(* No entry is lost, as long as the id counter has not wrapped onto an id  *)
(* still registered; whether replies carry ids does not matter.            *)

NoWrap == MaxCalls < IdSpace

\* A call is in the slot its number gives, so registering one displaces none.
Slotted == \A i \in Ids : pending[i] # NoCall => i = pending[i]

\* Nothing is registered and nothing issued initially.
LEMMA KeptInit == Init => Slotted /\ EntryKept
  BY IpcAssumption DEF Init, Slotted, EntryKept, Past, Calls

\* The steps that move no entry and let no call past its registration.
LEMMA KeptFrame ==
  ASSUME Slotted, EntryKept, UNCHANGED <<pending, count>>,
         \A c \in Calls : Past(c)' => Past(c),
         life' # "closed" => life # "closed" /\ (rx = "deliver" => rx' = "deliver" /\ rxEntry' = rxEntry)
  PROVE  (Slotted /\ EntryKept)'
<1>1. Slotted'
  BY DEF Slotted
<1>2. ASSUME NEW c \in Calls, Past(c)', life' # "closed"
      PROVE  (\E i \in Ids : pending'[i] = c) \/ (rx' = "deliver" /\ rxEntry' = c) \/ count'[c] > 0
  BY <1>2 DEF EntryKept
<1> QED
  BY <1>1, <1>2 DEF EntryKept

\* Registering a call adds its entry and displaces no other.
LEMMA KeptRegister ==
  ASSUME NoWrap, TypeInv, Slotted, EntryKept, NEW t \in Threads, Register(t)
  PROVE  (Slotted /\ EntryKept)'
<1> DEFINE d == cur[t]
<1>1. d \in 1..calls /\ d \in Calls /\ d # NoCall /\ d \in Ids /\ Id(d) = d
  BY IdBeforeWrap, IpcAssumption, SMTT(30) DEF Register, TypeInv, TypeOK, InUse, NoWrap, Calls, Ids, NoCall
<1>2. /\ pending' = [pending EXCEPT ![d] = d]
      /\ \A s \in Threads \ {t} : pc'[s] = pc[s]
      /\ UNCHANGED <<cur, calls, life, rx, rxEntry, count>>
  BY <1>1 DEF Register, TypeInv, TypeOK, rxVars, lifeVars
<1>3. pending'[d] = d /\ \A i \in Ids \ {d} : pending'[i] = pending[i]
  BY <1>1, <1>2 DEF TypeInv, TypeOK
<1>4. pending[d] \in {NoCall, d}
  BY <1>1 DEF Slotted
<1>5. Slotted'
  BY <1>3 DEF Slotted
<1>6. ASSUME NEW c \in Calls, Past(c)', life' # "closed"
      PROVE  (\E i \in Ids : pending'[i] = c) \/ (rx' = "deliver" /\ rxEntry' = c) \/ count'[c] > 0
  <2>1. CASE c = d
    BY <1>1, <1>3, <2>1
  <2>2. CASE c # d
    <3>1. Past(c)
      BY <1>2, <1>6, <2>2 DEF Past
    <3>2. CASE \E i \in Ids : pending[i] = c
      <4>1. PICK i \in Ids : pending[i] = c
        BY <3>2
      <4>2. i # d
        BY <1>4, <2>2, <4>1 DEF Calls, NoCall
      <4> QED
        BY <1>3, <4>1, <4>2
    <3> QED
      BY <1>2, <1>6, <3>1, <3>2 DEF EntryKept
  <2> QED
    BY <2>1, <2>2
<1> QED
  BY <1>5, <1>6 DEF EntryKept

\* A lookup hands the entry it erases to the delivery, which hands it to the callback.
LEMMA KeptLookup ==
  ASSUME TypeInv, Slotted, EntryKept, RxLookup \/ RxCallback
  PROVE  (Slotted /\ EntryKept)'
<1>1. CASE RxLookup
  <2>1. PICK k \in Slots(rxMsg) : rxEntry' = pending[k] /\ pending' = [pending EXCEPT ![k] = NoCall]
    BY <1>1 DEF RxLookup
  <2>2. /\ k \in Ids /\ pending'[k] = NoCall /\ \A i \in Ids \ {k} : pending'[i] = pending[i]
        /\ rx = "lookup" /\ rx' = "deliver" /\ UNCHANGED <<pc, cur, calls, life, count>>
    BY <1>1, <2>1 DEF RxLookup, Slots, Registered, TypeInv, TypeOK, appVars, lifeVars
  <2>3. Slotted'
    BY <2>2 DEF Slotted
  <2>4. ASSUME NEW c \in Calls, Past(c)', life' # "closed"
        PROVE  (\E i \in Ids : pending'[i] = c) \/ (rx' = "deliver" /\ rxEntry' = c) \/ count'[c] > 0
    <3>1. Past(c) /\ life # "closed"
      BY <2>2, <2>4 DEF Past
    <3>2. (\E i \in Ids : pending[i] = c) \/ count[c] > 0
      BY <2>2, <3>1 DEF EntryKept
    <3> QED
      BY <2>1, <2>2, <3>2
  <2> QED
    BY <2>3, <2>4 DEF EntryKept
<1>2. CASE RxCallback
  <2>1. /\ rx = "deliver" /\ count' = [count EXCEPT ![rxEntry] = @ + 1]
        /\ UNCHANGED <<pc, cur, calls, life, pending, rxEntry>>
    BY <1>2 DEF RxCallback, appVars, lifeVars
  <2>2. Slotted'
    BY <2>1 DEF Slotted
  <2>3. ASSUME NEW c \in Calls, Past(c)', life' # "closed"
        PROVE  (\E i \in Ids : pending'[i] = c) \/ (rx' = "deliver" /\ rxEntry' = c) \/ count'[c] > 0
    <3>1. Past(c) /\ life # "closed"
      BY <2>1, <2>3 DEF Past
    <3>2. rxEntry = c \/ count[c] > 0 => count'[c] > 0
      BY <2>1 DEF TypeInv, TypeOK
    <3> QED
      BY <2>1, <3>1, <3>2 DEF EntryKept
  <2> QED
    BY <2>2, <2>3 DEF EntryKept
<1> QED
  BY <1>1, <1>2

\* Every step keeps every registered call in the table, in delivery or called back.
LEMMA KeptNext == NoWrap /\ TypeInv /\ CloseInv /\ Slotted /\ EntryKept /\ [Next]_vars => (Slotted /\ EntryKept)'
<1> SUFFICES ASSUME NoWrap, TypeInv, CloseInv, Slotted, EntryKept, [Next]_vars
             PROVE  (Slotted /\ EntryKept)'
  OBVIOUS
<1> USE DEF appVars, rxVars, netVars, lifeVars
<1>1. CASE Open \/ CloseBegin
  BY <1>1, KeptFrame DEF Open, CloseBegin, Past, CloseInv
<1>2. CASE CloseJoin \/ CloseDelete
  BY <1>2 DEF CloseJoin, CloseDelete, Slotted, EntryKept
<1>3. ASSUME NEW t \in Callers, RequestMethod(t)
      PROVE  (Slotted /\ EntryKept)'
  <2>0. t \in Threads
    BY DEF Threads
  <2>1. CASE Generate(t)
    <3>1. \A c \in Calls : Past(c)' => Past(c)
      BY <2>0, <2>1 DEF Generate, Past, TypeInv, TypeOK, Calls
    <3> QED
      BY <2>1, <3>1, KeptFrame DEF Generate
  <2>2. CASE Register(t)
    BY <2>0, <2>2, KeptRegister
  <2>3. CASE Encode(t) \/ Send(t) \/ SendFails(t) \/ Return(t)
    <3>1. \A c \in Calls : Past(c)' => Past(c)
      BY <2>0, <2>3 DEF Encode, Send, SendFails, Return, Past, TypeInv, TypeOK
    <3> QED
      BY <2>3, <3>1, KeptFrame DEF Encode, Send, SendFails, Return
  <2> QED
    BY <1>3, <2>1, <2>2, <2>3 DEF RequestMethod
<1>4. CASE ReceiveLoop
  <2>1. CASE RxCheck \/ RxTimeout \/ RxReceive \/ RxUnknown \/ RxReturn
    BY <2>1, KeptFrame DEF RxCheck, RxTimeout, RxReceive, RxUnknown, RxReturn, Past
  <2> QED
    BY <1>4, <2>1, KeptLookup DEF ReceiveLoop
<1>5. CASE Lose \/ AgentReplies
  BY <1>5, KeptFrame DEF Lose, AgentReplies, Past
<1>6. CASE UNCHANGED vars
  BY <1>6, KeptFrame DEF vars, Past
<1> QED
  BY <1>1, <1>2, <1>3, <1>4, <1>5, <1>6 DEF Next, Closed

\* Until the client is freed no registered request is dropped from the table without a callback, for
\* any threads and network and with or without ids in the replies, until the id counter wraps.
THEOREM NoEntryIsLost ==
  ASSUME NoWrap
  PROVE  Spec => []EntryKept
<1> DEFINE IInv == TypeInv /\ CloseInv /\ Slotted /\ EntryKept
<1>1. Init => IInv
  BY TypeInit, CloseInit, KeptInit
<1>2. IInv /\ [Next]_vars => IInv'
  BY TypeNext, CloseNext, KeptNext
<1> QED
  BY <1>1, <1>2, PTL DEF Spec

-----------------------------------------------------------------------------
(* Matching replies with requests, with an Agent whose replies carry the   *)
(* request id and before the id counter wraps.                             *)

Numbered == Echo /\ MaxCalls < IdSpace

\* Every datagram and every slot of the table carries a positive id, and a slot
\* holds the call its key is the id of.
Keyed ==
  /\ \A p \in toAgent \cup toClient : p.id > 0
  /\ rx = "lookup" => rxMsg.id > 0
  /\ \A i \in Ids : pending[i] # NoCall => i = Id(pending[i])
  /\ OwnId

\* Every step keeps calls registered under their own ids.
LEMMA KeyedNext == Numbered /\ TypeInv /\ Keyed /\ [Next]_vars => Keyed'
<1> SUFFICES ASSUME Numbered, TypeOK, InUse, Keyed, [Next]_vars
             PROVE  Keyed'
  BY DEF TypeInv
<1> USE DEF Keyed, OwnId, appVars, rxVars, netVars, lifeVars
<1>1. CASE Open \/ CloseBegin \/ CloseJoin \/ CloseDelete
  BY <1>1 DEF Open, CloseBegin, CloseJoin, CloseDelete
<1>2. ASSUME NEW t \in Callers, RequestMethod(t)
      PROVE  Keyed'
  <2>0. t \in Threads /\ (pc[t] # "idle" => cur[t] \in Calls /\ Id(cur[t]) = cur[t])
    BY IdBeforeWrap, IpcAssumption DEF Threads, InUse, TypeOK, Calls, Numbered
  <2>1. CASE Register(t)
    BY <2>0, <2>1 DEF Register, TypeOK, NoCall
  <2>2. CASE Send(t)
    BY <2>0, <2>2 DEF Send, Calls
  <2>3. CASE Generate(t) \/ Encode(t) \/ SendFails(t) \/ Return(t)
    BY <2>3 DEF Generate, Encode, SendFails, Return
  <2>4. QED
    BY <1>2, <2>1, <2>2, <2>3 DEF RequestMethod
<1>3. CASE ReceiveLoop
  <2>1. CASE RxReceive
    BY <2>1 DEF RxReceive, Arriving, Taken
  <2>2. CASE RxLookup
    BY <2>2 DEF RxLookup, Slots, Registered, TypeOK
  <2>3. CASE RxCheck \/ RxTimeout \/ RxUnknown \/ RxCallback \/ RxReturn
    BY <2>3 DEF RxCheck, RxTimeout, RxUnknown, RxCallback, RxReturn
  <2>4. QED
    BY <1>3, <2>1, <2>2, <2>3 DEF ReceiveLoop
<1>4. CASE Lose
  BY <1>4 DEF Lose
<1>5. CASE AgentReplies
  BY <1>5 DEF AgentReplies, Arriving, Taken, Reply, Numbered
<1>6. CASE UNCHANGED vars
  BY <1>6 DEF vars
<1>7. QED
  BY <1>1, <1>2, <1>3, <1>4, <1>5, <1>6 DEF Next, Closed

\* The table is empty initially.
LEMMA KeyedInit == Init => Keyed
  BY DEF Init, Keyed, OwnId, NoCall

\* With ids in the replies, any number of threads and any network, a reply is
\* only ever delivered to the callback registered under the id it carries.
THEOREM ReplyFindsItsId ==
  ASSUME Numbered
  PROVE  Spec => []OwnId
<1>1. TypeInv /\ Keyed /\ [Next]_vars => (TypeInv /\ Keyed)'
  BY TypeNext, KeyedNext
<1>2. Keyed => OwnId
  BY DEF Keyed
<1>3. QED
  BY <1>1, <1>2, TypeInit, KeyedInit, PTL DEF Spec

-----------------------------------------------------------------------------
(* One thread calls: nothing else writes cbor_buf_, so under an id travels *)
(* the payload of its request, and the reply found by id is the right one. *)

OneThread == \A s, t \in Callers : s = t

OwnContent ==
  /\ \A t \in Threads : pc[t] # "idle" => t \in Callers
  /\ \A t \in Threads : pc[t] = "send" => cborBuf = cur[t]
  /\ \A p \in toAgent \cup toClient : p.body \in Calls /\ p.id = Id(p.body)
  /\ rx \in {"lookup", "deliver"} => rxMsg.body \in Calls /\ rxMsg.id = Id(rxMsg.body)
  /\ \A c \in Calls : (count[c] = 0 <=> answer[c] = NoCall) /\ answer[c] \in {NoCall, c}

\* Nothing is encoded or in flight initially.
LEMMA ContentInit == Init => OwnContent
  BY DEF Init, OwnContent, NoCall

\* Every step keeps each datagram carrying the payload of the call whose id it has.
LEMMA ContentNext == Numbered /\ OneThread /\ TypeInv /\ Keyed /\ OwnContent /\ [Next]_vars => OwnContent'
<1> SUFFICES ASSUME Numbered, OneThread, TypeOK, InUse, Keyed, OwnContent, [Next]_vars
             PROVE  OwnContent'
  BY DEF TypeInv
<1> USE DEF OwnContent, appVars, rxVars, netVars, lifeVars
<1>0. Garbled \notin Calls
  BY IpcAssumption DEF Garbled, Calls
<1>1. CASE Open \/ CloseBegin \/ CloseJoin
  BY <1>1 DEF Open, CloseBegin, CloseJoin
<1>2. CASE CloseDelete
  BY <1>2 DEF CloseDelete, TypeOK, Threads
<1>3. ASSUME NEW t \in Callers, RequestMethod(t)
      PROVE  OwnContent'
  <2>0. t \in Threads /\ \A s \in Threads \ {t} : pc[s] = "idle"
    BY DEF Threads, OneThread
  <2>1. CASE Generate(t)
    BY <2>0, <2>1 DEF Generate, TypeOK
  <2>2. CASE Register(t)
    BY <2>0, <2>2 DEF Register, TypeOK
  <2>3. CASE Encode(t)
    BY <2>0, <2>3 DEF Encode, TypeOK
  <2>4. CASE Send(t)
    <3>1. Readable(t) = {cur[t]}
      BY <2>0, <2>4 DEF Readable, Send
    <3>2. cur[t] \in Calls
      BY <2>0, <2>4, IpcAssumption DEF Send, InUse, Calls, TypeOK
    <3>3. toAgent' = toAgent \cup {[n |-> sent + 1, id |-> Id(cur[t]), body |-> cur[t]]}
      BY <2>4, <3>1 DEF Send
    <3>4. QED
      BY <2>0, <2>4, <3>2, <3>3 DEF Send, TypeOK
  <2>5. CASE SendFails(t) \/ Return(t)
    BY <2>0, <2>5 DEF SendFails, Return, TypeOK
  <2>6. QED
    BY <1>3, <2>1, <2>2, <2>3, <2>4, <2>5 DEF RequestMethod
<1>4. CASE ReceiveLoop
  <2>1. CASE RxReceive
    BY <2>1 DEF RxReceive, Arriving, Taken
  <2>2. CASE RxLookup
    BY <2>2 DEF RxLookup
  <2>3. CASE RxCallback
    <3>1. rxMsg.body \in Calls /\ rxEntry \in Calls /\ Id(rxMsg.body) = Id(rxEntry)
      BY <2>3, IpcAssumption DEF RxCallback, Keyed, OwnId, InUse, Calls, TypeOK
    <3>2. rxMsg.body = rxEntry
      BY <3>1, IdBeforeWrap, IpcAssumption DEF Numbered, Calls
    <3>3. QED
      BY <2>3, <3>1, <3>2, IpcAssumption DEF RxCallback, TypeOK, NoCall, Calls
  <2>4. CASE RxCheck \/ RxTimeout \/ RxUnknown \/ RxReturn
    BY <2>4 DEF RxCheck, RxTimeout, RxUnknown, RxReturn
  <2>5. QED
    BY <1>4, <2>1, <2>2, <2>3, <2>4 DEF ReceiveLoop
<1>5. CASE Lose
  BY <1>5 DEF Lose
<1>6. CASE AgentReplies
  BY <1>6 DEF AgentReplies, Arriving, Taken, Reply, Numbered
<1>7. CASE UNCHANGED vars
  BY <1>7 DEF vars
<1>8. QED
  BY <1>1, <1>2, <1>3, <1>4, <1>5, <1>6, <1>7 DEF Next, Closed

\* One calling thread, replies with ids: every callback is given the reply to
\* its own request, whatever the network loses, copies, reorders or refuses.
THEOREM ReplyIsItsOwn ==
  ASSUME Numbered, OneThread
  PROVE  Spec => []OwnReply
<1>1. TypeInv /\ Keyed /\ OwnContent /\ [Next]_vars => (TypeInv /\ Keyed /\ OwnContent)'
  BY TypeNext, KeyedNext, ContentNext
<1>2. TypeInv /\ OwnContent => OwnReply
  BY DEF OwnContent, OwnReply, TypeInv, TypeOK
<1>3. QED
  BY <1>1, <1>2, TypeInit, KeyedInit, ContentInit, PTL DEF Spec

-----------------------------------------------------------------------------
(* The client implements RequestReply, under the same two assumptions.     *)

\* Every step of the client is a step of RequestReply, or none.
LEMMA StepRefines ==
  ASSUME Numbered, OneThread,
         TypeInv, OneOwner, CloseInv, Keyed, OwnContent, OwnContent', [Next]_vars
  PROVE  [RR!AbsNext]_(RR!absVars)
<1> USE DEF TypeInv, appVars, rxVars, netVars, lifeVars, RR!absVars
<1>1. ASSUME UNCHANGED <<calls, answer>>, life = "closed" <=> life' = "closed"
      PROVE  UNCHANGED RR!absVars
  BY <1>1
<1>2. ASSUME UNCHANGED <<calls, answer>>, life # "closed", life' = "closed"
      PROVE  RR!CloseHandle
  BY <1>2 DEF RR!CloseHandle
<1>3. CASE Open \/ CloseBegin \/ CloseJoin \/ CloseDelete
  BY <1>1, <1>2, <1>3 DEF Open, CloseBegin, CloseJoin, CloseDelete, RR!AbsNext
<1>4. ASSUME NEW t \in Callers, RequestMethod(t)
      PROVE  [RR!AbsNext]_(RR!absVars)
  <2>1. CASE Generate(t)
    <3>1. life # "closed" /\ UNCHANGED <<life, answer>>
      BY <2>1 DEF Generate, MayCall, InCall, CloseInv
    <3>2. calls + 1 \in Calls /\ calls + 1 \notin 1..calls /\ 1..calls' = (1..calls) \cup {calls + 1}
      BY <2>1, IpcAssumption DEF Generate, TypeOK, Calls
    <3>3. RR!Issue(calls + 1)
      BY <3>1, <3>2 DEF RR!Issue
    <3>4. QED
      BY <3>2, <3>3 DEF RR!AbsNext
  <2>2. CASE Register(t) \/ Encode(t) \/ Send(t) \/ SendFails(t) \/ Return(t)
    BY <1>1, <2>2 DEF Register, Encode, Send, SendFails, Return
  <2>3. QED
    BY <1>4, <2>1, <2>2 DEF RequestMethod
<1>5. CASE ReceiveLoop
  <2>1. CASE RxCallback
    <3>1. rxEntry \in Calls /\ rxEntry \in 1..calls /\ count[rxEntry] = 0
      BY <2>1, IpcAssumption DEF RxCallback, InUse, OneOwner, TypeOK, Calls
    <3>2. answer[rxEntry] = 0 /\ answer'[rxEntry] = rxMsg.body /\ rxMsg.body \in Calls
      BY <2>1, <3>1 DEF RxCallback, OwnContent, TypeOK, NoCall
    <3>3. answer' = [answer EXCEPT ![rxEntry] = rxEntry]
      <4>1. answer'[rxEntry] \in {0, rxEntry} /\ answer'[rxEntry] # 0
        BY <3>1, <3>2 DEF OwnContent, NoCall, Calls
      <4>2. rxMsg.body = rxEntry
        BY <3>2, <4>1
      <4>3. QED
        BY <2>1, <4>2 DEF RxCallback
    <3>4. life # "closed" /\ UNCHANGED <<life, calls>>
      BY <2>1 DEF RxCallback, CloseInv
    <3>5. RR!Answer(rxEntry)
      BY <3>1, <3>2, <3>3, <3>4 DEF RR!Answer
    <3>6. QED
      BY <3>1, <3>5 DEF RR!AbsNext
  <2>2. CASE RxCheck \/ RxTimeout \/ RxReceive \/ RxLookup \/ RxUnknown \/ RxReturn
    BY <1>1, <2>2 DEF RxCheck, RxTimeout, RxReceive, RxLookup, RxUnknown, RxReturn
  <2>3. QED
    BY <1>5, <2>1, <2>2 DEF ReceiveLoop
<1>6. CASE Lose \/ AgentReplies
  BY <1>1, <1>6 DEF Lose, AgentReplies
<1>7. CASE UNCHANGED vars
  BY <1>1, <1>7 DEF vars
<1>8. QED
  BY <1>3, <1>4, <1>5, <1>6, <1>7 DEF Next, Closed

\* With one calling thread and ids in the replies the library keeps the whole
\* promise of RequestReply: each request answered at most once, by its own
\* reply, and none after the handle is closed.
THEOREM ClientImplementsRequestReply ==
  ASSUME Numbered, OneThread
  PROVE  Spec => RequestReplySpec
<1> DEFINE IInv == TypeInv /\ OneOwner /\ CloseInv /\ Keyed /\ OwnContent
<1>1. Init => IInv
  BY TypeInit, OwnerInit, CloseInit, KeyedInit, ContentInit
<1>2. IInv /\ [Next]_vars => IInv'
  BY TypeNext, OwnerNext, CloseNext, KeyedNext, ContentNext
<1>3. Init => RR!AbsInit
  BY DEF Init, RR!AbsInit, NoCall
<1>4. IInv /\ IInv' /\ [Next]_vars => [RR!AbsNext]_(RR!absVars)
  BY StepRefines
<1>5. QED
  BY <1>1, <1>2, <1>3, <1>4, PTL DEF Spec, RequestReplySpec, RR!AbsSpec
=============================================================================
