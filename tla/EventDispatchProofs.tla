------------------------- MODULE EventDispatchProofs -------------------------
(***************************************************************************)
(* Theorems about EventDispatch, for any number of threads, keys,          *)
(* subscriptions, adapters and datagrams, and for both builds.             *)
(***************************************************************************)
EXTENDS EventDispatch, SequenceTheorems, TLAPS

\* A callback does not subscribe to the key of the event it is given, at least where
\* the lock lets it.
NoneToSameKey == "vxworks" \in Platforms => "same" \notin Nested["vxworks"]

-----------------------------------------------------------------------------
(* Types, as far as the theorems need them.                                *)

Marked == [key : Keys, n : Nat, event : BOOLEAN]

DispatchTypes ==
  /\ platform \in Platforms /\ load \in Loads
  /\ pc \in [Procs -> PCs]
  /\ arg \in [Procs -> [sub : Subs \cup {NONE}, key : Keys \cup {NONE}]]
  /\ owner \in Procs \cup {NONE} /\ depth \in Nat
  /\ subs \in [Keys -> Seq(Subs)]
  /\ inbox \in Seq([key : Keys, msg : Shapes, n : Nat]) /\ sent \in Nat
  /\ cur \in Marked \cup {NONE}
  /\ pos \in Nat /\ end \in Nat
  /\ log \in [Keys -> Seq(Nat)] /\ since \in [Subs -> Nat \cup {NONE}] /\ got \in [Subs -> Seq(Nat)]

AdapterTypes ==
  /\ pc \in [Procs -> PCs]
  /\ adapters \in [Keys -> [node : Nat, reg : Nat]]
  /\ ptr \in [Threads -> [key : Keys \cup {NONE}, node : Nat]]
  /\ seen \in [Threads -> [encode : Nat, ctx : Nat]]
  /\ regs \in Nat

-----------------------------------------------------------------------------
(* The lock, and the loop that holds it.                                   *)

\* Calls are made with an argument, and a walk is over an event.
InCall ==
  /\ \A t \in Procs : pc[t] \in {"subLock", "subPush"} => arg[t].sub \in Subs /\ arg[t].key \in Keys
  /\ pc[Rx] \in {"dispatchLock", "loop", "callback", "subLock", "subPush"} <=> cur # NONE

\* The lock is held by the thread whose section it is, twice only by the receive thread.
Locked ==
  /\ \A t \in Threads : owner = t <=> pc[t] = "subPush"
  /\ owner = Rx <=> pc[Rx] \in {"loop", "callback", "subLock", "subPush"}
  /\ depth = IF owner = NONE THEN 0 ELSE IF pc[Rx] = "subPush" THEN 2 ELSE 1
  /\ pc[Rx] = "subPush" => platform = "vxworks"
  /\ pc[Rx] \in {"loop", "callback", "subLock", "subPush"} => pos >= 1

\* A callback that got the lock again subscribes to another key.
OtherKey ==
  pc[Rx] \in {"subLock", "subPush"} /\ platform = "vxworks" => arg[Rx].key # cur.key

WalkInv == DispatchTypes /\ InCall /\ Locked /\ OtherKey /\ IteratorsValid

-----------------------------------------------------------------------------
(* What the callbacks are given.                                           *)

\* Events are taken for events.
Classified == TRUE \notin answered /\ (cur # NONE => cur.event)

\* No two calls make the same subscription, and none makes one that is made.
Making == {t \in Procs : arg[t].sub # NONE}

Distinct ==
  /\ \A t \in Making : since[arg[t].sub] = NONE
  /\ \A t, u \in Making : arg[t].sub = arg[u].sub => t = u
  /\ \A s \in Subs : since[s] = NONE => got[s] = <<>>
  /\ \A k \in Keys : \A i \in DOMAIN subs[k] :
       /\ since[subs[k][i]] \in 0 .. Len(log[k])
       /\ \A l \in Keys : \A j \in DOMAIN subs[l] : subs[k][i] = subs[l][j] => k = l /\ i = j

\* The positions of the walk in progress whose callback is still to be called.
Waiting(k) ==
  {i \in DOMAIN subs[k] : Dispatching(k) /\ (i > pos \/ (i = pos /\ pc[Rx] = "loop"))}

Given ==
  \A k \in Keys : \A i \in DOMAIN subs[k] :
    subs[k][i] \notin Typed =>
      Owed(subs[k][i], k) = IF i \in Waiting(k) THEN Append(got[subs[k][i]], cur.n) ELSE got[subs[k][i]]

OrderInv == WalkInv /\ Classified /\ Distinct /\ Given

-----------------------------------------------------------------------------
(* The types.                                                              *)

\* Types hold initially.
LEMMA InitTypes == Init => DispatchTypes /\ AdapterTypes
  BY DispatchAssumption DEF Init, DispatchTypes, AdapterTypes, PCs, Idle, Procs

\* The first datagram of the inbox is one.
LEMMA FirstDatagram ==
  ASSUME DispatchTypes, inbox # <<>>
  PROVE  /\ inbox[1].key \in Keys /\ inbox[1].msg \in Shapes /\ inbox[1].n \in Nat
         /\ inbox[1].msg.event \in BOOLEAN
         /\ IsEvent(inbox[1].msg) <=> inbox[1].msg.event
<1>1. inbox[1] \in [key : Keys, msg : Shapes, n : Nat]
  <2> DEFINE D == [key : Keys, msg : Shapes, n : Nat]
  <2>1. inbox \in Seq(D)
    BY DEF DispatchTypes
  <2> HIDE DEF D
  <2>2. 1 \in 1 .. Len(inbox)
    BY <2>1, EmptySeq
  <2>3. inbox[1] \in D
    BY <2>1, <2>2, ElementOfSeq
  <2> QED
    BY <2>3 DEF D
<1>2. \A m \in Shapes : m.event \in BOOLEAN /\ (IsEvent(m) <=> m.event)
  <2> SUFFICES ASSUME NEW m \in Shapes PROVE m.event \in BOOLEAN /\ (IsEvent(m) <=> m.event)
    OBVIOUS
  <2>1. CASE m = [evt |-> TRUE,  op |-> FALSE, ok |-> FALSE, body |-> TRUE,  event |-> TRUE]
    BY <2>1 DEF IsEvent
  <2>2. CASE m = [evt |-> FALSE, op |-> TRUE,  ok |-> FALSE, body |-> TRUE,  event |-> TRUE]
    BY <2>2 DEF IsEvent
  <2>3. CASE m = [evt |-> FALSE, op |-> FALSE, ok |-> FALSE, body |-> TRUE,  event |-> TRUE]
    BY <2>3 DEF IsEvent
  <2>4. CASE m = [evt |-> FALSE, op |-> FALSE, ok |-> TRUE,  body |-> TRUE,  event |-> FALSE]
    BY <2>4 DEF IsEvent
  <2> QED
    BY <2>1, <2>2, <2>3, <2>4 DEF Shapes
<1> QED
  BY <1>1, <1>2

\* Every step keeps the types of the dispatch.
LEMMA TypesStep == DispatchTypes /\ InCall /\ Locked /\ IteratorsValid /\ [Next]_vars => DispatchTypes'
<1> SUFFICES ASSUME DispatchTypes, InCall, Locked, IteratorsValid, [Next]_vars PROVE DispatchTypes'
  OBVIOUS
<1>0. Rx \in Procs /\ Threads \subseteq Procs
  BY DEF Procs
<1> USE <1>0 DEF DispatchTypes, subVars, rxVars, adapterVars, Goto, PCs
<1>1. ASSUME NEW k \in Keys, NEW m \in Shapes, Arrive(k, m) PROVE DispatchTypes'
  BY <1>1 DEF Arrive
<1>2. CASE ReceiveReply
  BY <1>2 DEF ReceiveReply
<1>3. CASE ReceiveEvent
  <2>1. cur' \in Marked
    BY <1>3, FirstDatagram DEF ReceiveEvent, Marked
  <2> QED
    BY <1>3, <2>1, SMTT(30) DEF ReceiveEvent
<1>4. CASE DispatchLock
  BY <1>4 DEF DispatchLock, Take, InCall, Marked
<1>5. CASE DispatchCall
  <2>1. cur.n \in Nat
    BY <1>5 DEF DispatchCall, InCall, Marked
  <2>2. Current \in Subs
    <3>1. cur.key \in Keys /\ pos \in 1 .. Len(subs[cur.key])
      BY <1>5 DEF DispatchCall, InCall, Locked, IteratorsValid, ToCall, Marked
    <3> QED
      BY <3>1, ElementOfSeq DEF Current
  <2>3. got' \in [Subs -> Seq(Nat)]
    BY <1>5, <2>1, <2>2 DEF DispatchCall
  <2> QED
    BY <1>5, <2>3 DEF DispatchCall
<1>6. CASE CallbackReturn
  BY <1>6 DEF CallbackReturn
<1>7. CASE DispatchTyped
  BY <1>7 DEF DispatchTyped, ToCall, Current
<1>8. CASE DispatchEnd
  <2>1. owner = Rx /\ depth = 1
    BY <1>8, DispatchAssumption DEF DispatchEnd, Locked, Procs
  <2> QED
    BY <1>8, <2>1 DEF DispatchEnd, Give
<1>9. ASSUME NEW s \in Subs, NEW k \in Keys, SubscribeInCallback(s, k) PROVE DispatchTypes'
  BY <1>9 DEF SubscribeInCallback, Unused
<1>10. ASSUME NEW t \in Threads, NEW s \in Subs, NEW k \in Keys, Subscribe(t, s, k) PROVE DispatchTypes'
  BY <1>10 DEF Subscribe, Unused
<1>11. ASSUME NEW t \in Procs, SubscribeLock(t) PROVE DispatchTypes'
  BY <1>11 DEF SubscribeLock, Take
<1>12. ASSUME NEW t \in Procs, SubscribePush(t) PROVE DispatchTypes'
  <2>1. depth \in Nat \ {0} /\ arg[t].sub \in Subs /\ arg[t].key \in Keys
    BY <1>12, DispatchAssumption DEF SubscribePush, Locked, InCall, Procs
  <2>2. subs' \in [Keys -> Seq(Subs)] /\ since' \in [Subs -> Nat \cup {NONE}]
    BY <1>12, <2>1 DEF SubscribePush
  <2>3. depth' \in Nat /\ owner' \in Procs \cup {NONE}
    BY <1>12, <2>1 DEF SubscribePush, Give
  <2> QED
    BY <1>12, <2>2, <2>3 DEF SubscribePush, Idle
<1>13. ASSUME NEW t \in Threads, NEW k \in Keys, RegisterTypeAdapter(t, k) PROVE DispatchTypes'
  BY <1>13 DEF RegisterTypeAdapter, Store
<1>14. ASSUME NEW t \in Threads, NEW k \in Keys, UnregisterTypeAdapter(t, k) PROVE DispatchTypes'
  BY <1>14 DEF UnregisterTypeAdapter
<1>15. ASSUME NEW t \in Threads, NEW k \in Keys, WriteFind(t, k) PROVE DispatchTypes'
  BY <1>15 DEF WriteFind
<1>16. ASSUME NEW t \in Threads, Write(t) PROVE DispatchTypes'
  BY <1>16 DEF Write, WriteReadEncode, WriteReadContext, WriteReturn
<1>17. CASE Done
  BY <1>17 DEF Done, vars
<1>18. CASE UNCHANGED vars
  BY <1>18 DEF vars
<1> QED
  BY <1>1, <1>2, <1>3, <1>4, <1>5, <1>6, <1>7, <1>8, <1>9, <1>10, <1>11, <1>12, <1>13, <1>14, <1>15, <1>16, <1>17, <1>18 DEF Next, Receive, Procs

\* The walk's invariant holds initially.
LEMMA InitWalkInv == Init => WalkInv
  BY InitTypes, DispatchAssumption
     DEF Init, WalkInv, InCall, Locked, OtherKey, IteratorsValid, Idle, Procs

\* Every step keeps it, if no callback subscribes to its own key.
LEMMA WalkStep == NoneToSameKey => (WalkInv /\ [Next]_vars => WalkInv')
<1> SUFFICES ASSUME NoneToSameKey, WalkInv, [Next]_vars
             PROVE  InCall' /\ Locked' /\ OtherKey' /\ IteratorsValid'
  BY TypesStep DEF WalkInv
<1>0. /\ Rx \in Procs /\ Threads \subseteq Procs /\ Procs = Threads \cup {Rx} /\ Rx \notin Threads
      /\ NONE \notin Threads \cup {Rx} \cup Keys \cup Subs
      /\ DOMAIN pc = Procs /\ DOMAIN arg = Procs /\ DOMAIN subs = Keys
      /\ owner \in Procs \cup {NONE} /\ depth \in Nat /\ pos \in Nat /\ end \in Nat
      /\ platform \in {"std", "vxworks"} /\ platform \in Platforms
      /\ cur # NONE => cur.key \in Keys
  BY DispatchAssumption DEF Procs, WalkInv, DispatchTypes, Marked
<1> USE <1>0 DEF WalkInv, InCall, Locked, OtherKey, IteratorsValid, subVars, rxVars, adapterVars, Goto
<1>1. ASSUME NEW k \in Keys, NEW m \in Shapes, Arrive(k, m) PROVE InCall' /\ Locked' /\ OtherKey' /\ IteratorsValid'
  BY <1>1 DEF Arrive
<1>2. CASE ReceiveReply
  BY <1>2 DEF ReceiveReply
<1>3. CASE ReceiveEvent
  <2>1. cur' \in Marked
    BY <1>3, FirstDatagram DEF ReceiveEvent, Marked
  <2> QED
    BY <1>3, <2>1, DispatchAssumption DEF ReceiveEvent, Marked
<1>4. CASE DispatchLock
  BY <1>4 DEF DispatchLock, Take
<1>5. CASE DispatchCall
  BY <1>5 DEF DispatchCall, ToCall, Current
<1>6. CASE CallbackReturn
  BY <1>6 DEF CallbackReturn
<1>7. CASE DispatchTyped
  BY <1>7 DEF DispatchTyped, ToCall, Current
<1>8. CASE DispatchEnd
  BY <1>8 DEF DispatchEnd, Give, ToCall
<1>9. ASSUME NEW s \in Subs, NEW k \in Keys, SubscribeInCallback(s, k) PROVE InCall' /\ Locked' /\ OtherKey' /\ IteratorsValid'
  BY <1>9 DEF SubscribeInCallback, Unused, NoneToSameKey
<1>10. ASSUME NEW t \in Threads, NEW s \in Subs, NEW k \in Keys, Subscribe(t, s, k) PROVE InCall' /\ Locked' /\ OtherKey' /\ IteratorsValid'
  BY <1>10 DEF Subscribe, Unused
<1>11. ASSUME NEW t \in Procs, SubscribeLock(t) PROVE InCall' /\ Locked' /\ OtherKey' /\ IteratorsValid'
  BY <1>11 DEF SubscribeLock, Take
<1>12. ASSUME NEW t \in Procs, SubscribePush(t) PROVE InCall' /\ Locked' /\ OtherKey' /\ IteratorsValid'
  BY <1>12 DEF SubscribePush, Give
<1>13. ASSUME NEW t \in Threads, NEW k \in Keys, RegisterTypeAdapter(t, k) PROVE InCall' /\ Locked' /\ OtherKey' /\ IteratorsValid'
  BY <1>13 DEF RegisterTypeAdapter, Store
<1>14. ASSUME NEW t \in Threads, NEW k \in Keys, UnregisterTypeAdapter(t, k) PROVE InCall' /\ Locked' /\ OtherKey' /\ IteratorsValid'
  BY <1>14 DEF UnregisterTypeAdapter
<1>15. ASSUME NEW t \in Threads, NEW k \in Keys, WriteFind(t, k) PROVE InCall' /\ Locked' /\ OtherKey' /\ IteratorsValid'
  BY <1>15 DEF WriteFind
<1>16. ASSUME NEW t \in Threads, Write(t) PROVE InCall' /\ Locked' /\ OtherKey' /\ IteratorsValid'
  BY <1>16 DEF Write, WriteReadEncode, WriteReadContext, WriteReturn
<1>17. CASE Done
  BY <1>17 DEF Done, vars
<1>18. CASE UNCHANGED vars
  BY <1>18 DEF vars
<1> QED
  BY <1>1, <1>2, <1>3, <1>4, <1>5, <1>6, <1>7, <1>8, <1>9, <1>10, <1>11, <1>12, <1>13, <1>14, <1>15, <1>16, <1>17, <1>18 DEF Next, Receive, Procs

\* While the receive thread walks the subscriptions of a key the vector does not change, for any
\* number of threads and subscriptions, if no callback subscribes to its own key where it could.
THEOREM IteratorsAreValid == NoneToSameKey => (Spec => []IteratorsValid)
<1> SUFFICES ASSUME NoneToSameKey PROVE Spec => []IteratorsValid
  OBVIOUS
<1>1. WalkInv /\ [Next]_vars => WalkInv'
  BY WalkStep
<1>2. WalkInv => IteratorsValid
  BY DEF WalkInv
<1> QED
  BY <1>1, <1>2, InitWalkInv, PTL DEF Spec

-----------------------------------------------------------------------------
(* What the callbacks are given.                                           *)

\* Nothing is owed of the events before the subscription.
LEMMA OwedNothing == \A q \in Seq(Nat) : SubSeq(q, Len(q) + 1, Len(q)) = <<>>
  BY SubSeqEmpty

\* One more event is owed to whoever has subscribed before it.
LEMMA OwedGrows ==
  ASSUME NEW q \in Seq(Nat), NEW n \in Nat, NEW a \in 0 .. Len(q)
  PROVE  SubSeq(Append(q, n), a + 1, Len(Append(q, n))) = Append(SubSeq(q, a + 1, Len(q)), n)
<1> DEFINE r == Append(q, n)
           b == a + 1
           c == Len(q)
           d == Len(r)
           u == SubSeq(r, b, d)
           v == SubSeq(q, b, c)
<1>1. /\ c \in Nat /\ r \in Seq(Nat) /\ d = c + 1 /\ r[d] = n
      /\ \A i \in 1 .. c : r[i] = q[i]
  BY AppendProperties, LenProperties
<1>2. b \in Nat /\ b >= 1 /\ b <= d /\ d \in Nat
  BY <1>1
<1>3. \A i \in b .. c : q[i] \in Nat
  BY <1>1, <1>2, ElementOfSeq
<1>4. \A i \in b .. d : r[i] \in Nat
  BY <1>1, <1>2, ElementOfSeq
<1> HIDE DEF r, b, c, d
<1> DEFINE e == d - b + 1
<1>0. e \in Nat /\ e >= 1 /\ c - b + 1 = e - 1
  BY <1>1, <1>2
<1>5. u \in Seq(Nat) /\ Len(u) = e /\ \A i \in 1 .. e : u[i] = r[b + i - 1]
  BY <1>2, <1>4, SubSeqProperties
<1>6. v \in Seq(Nat) /\ Len(v) = e - 1 /\ \A i \in 1 .. e - 1 : v[i] = q[b + i - 1]
  <2>1. /\ v \in Seq(Nat) /\ Len(v) = IF b <= c THEN c - b + 1 ELSE 0
        /\ \A i \in 1 .. c - b + 1 : v[i] = q[b + i - 1]
    BY <1>1, <1>2, <1>3, SubSeqProperties
  <2>2. (IF b <= c THEN c - b + 1 ELSE 0) = e - 1
    BY <1>0, <1>1, <1>2
  <2> QED
    BY <1>0, <2>1, <2>2
<1> HIDE DEF e, u, v
<1>7. /\ Append(v, n) \in Seq(Nat) /\ Len(Append(v, n)) = e
      /\ \A i \in 1 .. e - 1 : Append(v, n)[i] = v[i]
      /\ Append(v, n)[e] = n
  BY <1>0, <1>6, AppendProperties
<1>8. ASSUME NEW i \in 1 .. e PROVE u[i] = Append(v, n)[i]
  <2>1. CASE i \in 1 .. e - 1
    <3>1. b + i - 1 \in 1 .. c
      BY <1>0, <1>1, <1>2, <2>1
    <3>2. u[i] = r[b + i - 1] /\ v[i] = q[b + i - 1]
      BY <1>5, <1>6, <2>1
    <3> QED
      BY <1>1, <1>7, <2>1, <3>1, <3>2
  <2>2. CASE i = e
    <3>1. b + i - 1 = d
      BY <1>2, <2>2 DEF e
    <3> QED
      BY <1>1, <1>5, <1>7, <2>2, <3>1
  <2>3. i \in 1 .. e - 1 \/ i = e
    BY <1>0
  <2> QED
    BY <2>1, <2>2, <2>3
<1>9. u = Append(v, n)
  BY <1>5, <1>7, <1>8, SeqEqual
<1> QED
  BY <1>9 DEF r, b, c, d, u, v

\* Every step takes events for events.
LEMMA ClassifiedStep == WalkInv /\ Classified /\ [Next]_vars => Classified'
<1> SUFFICES ASSUME WalkInv, Classified, [Next]_vars PROVE Classified'
  OBVIOUS
<1>0. DispatchTypes /\ NONE \notin Marked
  BY DispatchAssumption DEF WalkInv, Marked
<1> USE <1>0 DEF Classified, rxVars, subVars, adapterVars
<1>1. ASSUME NEW k \in Keys, NEW m \in Shapes, Arrive(k, m) PROVE Classified'
  BY <1>1 DEF Arrive
<1>2. CASE ReceiveReply
  BY <1>2, FirstDatagram DEF ReceiveReply
<1>3. CASE ReceiveEvent
  BY <1>3, FirstDatagram DEF ReceiveEvent
<1>4. CASE DispatchLock
  BY <1>4 DEF DispatchLock, Take
<1>5. CASE DispatchCall
  BY <1>5 DEF DispatchCall, ToCall, Current
<1>6. CASE CallbackReturn
  BY <1>6 DEF CallbackReturn
<1>7. CASE DispatchTyped
  BY <1>7 DEF DispatchTyped, ToCall, Current
<1>8. CASE DispatchEnd
  BY <1>8 DEF DispatchEnd, Give, ToCall
<1>9. ASSUME NEW s \in Subs, NEW k \in Keys, SubscribeInCallback(s, k) PROVE Classified'
  BY <1>9 DEF SubscribeInCallback, Unused
<1>10. ASSUME NEW t \in Threads, NEW s \in Subs, NEW k \in Keys, Subscribe(t, s, k) PROVE Classified'
  BY <1>10 DEF Subscribe, Unused
<1>11. ASSUME NEW t \in Procs, SubscribeLock(t) PROVE Classified'
  BY <1>11 DEF SubscribeLock, Take
<1>12. ASSUME NEW t \in Procs, SubscribePush(t) PROVE Classified'
  BY <1>12 DEF SubscribePush, Give
<1>13. ASSUME NEW t \in Threads, NEW k \in Keys, RegisterTypeAdapter(t, k) PROVE Classified'
  BY <1>13 DEF RegisterTypeAdapter, Store
<1>14. ASSUME NEW t \in Threads, NEW k \in Keys, UnregisterTypeAdapter(t, k) PROVE Classified'
  BY <1>14 DEF UnregisterTypeAdapter
<1>15. ASSUME NEW t \in Threads, NEW k \in Keys, WriteFind(t, k) PROVE Classified'
  BY <1>15 DEF WriteFind
<1>16. ASSUME NEW t \in Threads, Write(t) PROVE Classified'
  BY <1>16 DEF Write, WriteReadEncode, WriteReadContext, WriteReturn
<1>17. CASE Done
  BY <1>17 DEF Done, vars
<1>18. CASE UNCHANGED vars
  BY <1>18 DEF vars
<1> QED
  BY <1>1, <1>2, <1>3, <1>4, <1>5, <1>6, <1>7, <1>8, <1>9, <1>10, <1>11, <1>12, <1>13, <1>14, <1>15, <1>16, <1>17, <1>18 DEF Next, Receive, Procs

\* Nobody is given anything, initially.
LEMMA InitOrderInv == Init => OrderInv
<1> SUFFICES ASSUME Init PROVE OrderInv
  OBVIOUS
<1>1. WalkInv
  BY InitWalkInv
<1>2. \A k \in Keys : subs[k] = <<>> /\ DOMAIN subs[k] = {}
  BY DEF Init
<1> QED
  BY <1>1, <1>2, DispatchAssumption DEF OrderInv, Classified, Distinct, Making, Given, Init, Idle

\* A subscription is added at the end of the vector of its key, and nothing else moves.
LEMMA Pushed ==
  ASSUME NEW f \in [Keys -> Seq(Subs)], NEW k \in Keys, NEW s \in Subs, NEW l \in Keys,
         NEW i \in DOMAIN [f EXCEPT ![k] = Append(@, s)][l]
  PROVE  IF l = k /\ i = Len(f[k]) + 1 THEN [f EXCEPT ![k] = Append(@, s)][l][i] = s
         ELSE i \in DOMAIN f[l] /\ [f EXCEPT ![k] = Append(@, s)][l][i] = f[l][i]
  OBVIOUS

\* Every step keeps subscriptions apart.
LEMMA DistinctStep == WalkInv /\ Distinct /\ [Next]_vars => Distinct'
<1> SUFFICES ASSUME WalkInv, Distinct, [Next]_vars PROVE Distinct'
  OBVIOUS
<1>0. /\ DispatchTypes /\ NONE \notin Nat /\ NONE \notin Subs /\ NONE \notin Keys /\ Rx \in Procs /\ Threads \subseteq Procs
      /\ DOMAIN pc = Procs /\ DOMAIN arg = Procs /\ DOMAIN subs = Keys /\ DOMAIN since = Subs /\ DOMAIN log = Keys /\ DOMAIN got = Subs
      /\ cur # NONE => cur.key \in Keys /\ cur.n \in Nat
      /\ \A k \in Keys : DOMAIN subs[k] = 1 .. Len(subs[k]) /\ Len(subs[k]) \in Nat /\ Len(log[k]) \in Nat
      /\ \A k \in Keys : \A i \in DOMAIN subs[k] : subs[k][i] \in Subs
  BY DispatchAssumption, ElementOfSeq DEF WalkInv, DispatchTypes, Marked, Procs
<1> USE <1>0 DEF Distinct, Making, rxVars, subVars, adapterVars
<1>1. ASSUME NEW k \in Keys, NEW m \in Shapes, Arrive(k, m) PROVE Distinct'
  BY <1>1 DEF Arrive
<1>2. CASE ReceiveReply
  BY <1>2 DEF ReceiveReply
<1>3. CASE ReceiveEvent
  BY <1>3 DEF ReceiveEvent
<1>4. CASE DispatchLock
  <2>1. cur.key \in Keys /\ cur.n \in Nat
    BY <1>4 DEF DispatchLock, Goto, WalkInv, InCall
  <2>2. \A k \in Keys : Len(log'[k]) \in Nat /\ Len(log'[k]) >= Len(log[k])
    BY <1>4, <2>1 DEF DispatchLock, DispatchTypes
  <2> QED
    BY <1>4, <2>2 DEF DispatchLock
<1>5. CASE DispatchCall
  <2>1. cur.key \in Keys /\ pos \in DOMAIN subs[cur.key]
    BY <1>5 DEF DispatchCall, ToCall, Goto, WalkInv, DispatchTypes, InCall, Locked, IteratorsValid
  <2>2. Current \in Subs /\ since[Current] # NONE
    BY <2>1 DEF Current
  <2> QED
    BY <1>5, <2>2 DEF DispatchCall
<1>6. CASE CallbackReturn
  BY <1>6 DEF CallbackReturn
<1>7. CASE DispatchTyped
  BY <1>7 DEF DispatchTyped, ToCall, Current
<1>8. CASE DispatchEnd
  BY <1>8 DEF DispatchEnd, Give, ToCall
<1>9. ASSUME NEW s \in Subs, NEW k \in Keys, SubscribeInCallback(s, k) PROVE Distinct'
  BY <1>9 DEF SubscribeInCallback, Unused, Goto
<1>10. ASSUME NEW t \in Threads, NEW s \in Subs, NEW k \in Keys, Subscribe(t, s, k) PROVE Distinct'
  BY <1>10 DEF Subscribe, Unused, Goto
<1>11. ASSUME NEW t \in Procs, SubscribeLock(t) PROVE Distinct'
  BY <1>11 DEF SubscribeLock, Take
<1>12. ASSUME NEW t \in Procs, SubscribePush(t) PROVE Distinct'
  <2> DEFINE s == arg[t].sub
             k == arg[t].key
  <2>1. s \in Subs /\ k \in Keys
    BY <1>12 DEF SubscribePush, Goto, WalkInv, InCall
  <2>2. t \in Making /\ since[s] = NONE
    BY <2>1
  <2>3. /\ subs' = [subs EXCEPT ![k] = Append(@, s)] /\ since' = [since EXCEPT ![s] = Len(log[k])]
        /\ arg' = [arg EXCEPT ![t] = Idle] /\ log' = log /\ got' = got
    BY <1>12 DEF SubscribePush
  <2> HIDE DEF s, k
  <2>4. \A l \in Keys : \A i \in DOMAIN subs'[l] :
          IF l = k /\ i = Len(subs[k]) + 1 THEN subs'[l][i] = s
          ELSE i \in DOMAIN subs[l] /\ subs'[l][i] = subs[l][i]
    BY <2>1, <2>3, Pushed DEF DispatchTypes
  <2>5. \A l \in Keys : \A i \in DOMAIN subs[l] : subs[l][i] # s
    BY <2>2
  <2>6. \A u \in Making' : u # t /\ u \in Making /\ arg'[u] = arg[u] /\ arg[u].sub # s
    BY <2>2, <2>3 DEF Idle, DispatchTypes, s
  <2>7. \A x \in Subs : since'[x] = IF x = s THEN Len(log[k]) ELSE since[x]
    BY <2>1, <2>3
  <2>8. \A u \in Making' : arg'[u].sub \in Subs
    BY <2>6 DEF DispatchTypes
  <2>9. \A u \in Making' : since'[arg'[u].sub] = NONE
    BY <2>6, <2>7, <2>8
  <2>10. \A u, v \in Making' : arg'[u].sub = arg'[v].sub => u = v
    BY <2>6
  <2>11. \A x \in Subs : since'[x] = NONE => got'[x] = <<>>
    BY <2>1, <2>3, <2>7
  <2>12. \A l \in Keys : \A i \in DOMAIN subs'[l] : since'[subs'[l][i]] \in 0 .. Len(log'[l])
    BY <2>1, <2>3, <2>4, <2>5, <2>7
  <2>13. \A l \in Keys : \A i \in DOMAIN subs'[l] : \A m \in Keys : \A j \in DOMAIN subs'[m] :
           subs'[l][i] = subs'[m][j] => l = m /\ i = j
    BY <2>4, <2>5
  <2> QED
    BY <2>9, <2>10, <2>11, <2>12, <2>13
<1>13. ASSUME NEW t \in Threads, NEW k \in Keys, RegisterTypeAdapter(t, k) PROVE Distinct'
  BY <1>13 DEF RegisterTypeAdapter, Store
<1>14. ASSUME NEW t \in Threads, NEW k \in Keys, UnregisterTypeAdapter(t, k) PROVE Distinct'
  BY <1>14 DEF UnregisterTypeAdapter
<1>15. ASSUME NEW t \in Threads, NEW k \in Keys, WriteFind(t, k) PROVE Distinct'
  BY <1>15 DEF WriteFind
<1>16. ASSUME NEW t \in Threads, Write(t) PROVE Distinct'
  BY <1>16 DEF Write, WriteReadEncode, WriteReadContext, WriteReturn
<1>17. CASE Done
  BY <1>17 DEF Done, vars
<1>18. CASE UNCHANGED vars
  BY <1>18 DEF vars
<1> QED
  BY <1>1, <1>2, <1>3, <1>4, <1>5, <1>6, <1>7, <1>8, <1>9, <1>10, <1>11, <1>12, <1>13, <1>14, <1>15, <1>16, <1>17, <1>18 DEF Next, Receive, Procs

\* Every step gives the callbacks what they are owed.
LEMMA GivenStep == NoneToSameKey => (OrderInv /\ [Next]_vars => Given')
<1> SUFFICES ASSUME NoneToSameKey, OrderInv, [Next]_vars PROVE Given'
  OBVIOUS
<1>0. /\ DispatchTypes /\ InCall /\ Locked /\ OtherKey /\ IteratorsValid /\ Distinct
      /\ NONE \notin Nat /\ NONE \notin Keys /\ NONE \notin Subs /\ Rx \in Procs /\ Rx \notin Threads /\ Rx # NONE /\ Threads \subseteq Procs
      /\ DOMAIN pc = Procs /\ DOMAIN subs = Keys /\ DOMAIN since = Subs /\ DOMAIN log = Keys /\ DOMAIN got = Subs
      /\ pos \in Nat /\ end \in Nat /\ (cur # NONE => cur.key \in Keys /\ cur.n \in Nat)
      /\ \A k \in Keys : DOMAIN subs[k] = 1 .. Len(subs[k]) /\ Len(subs[k]) \in Nat /\ Len(log[k]) \in Nat
      /\ \A k \in Keys : \A i \in DOMAIN subs[k] : subs[k][i] \in Subs
  BY DispatchAssumption, ElementOfSeq DEF OrderInv, WalkInv, DispatchTypes, Marked, Procs
<1>a. Given
  BY DEF OrderInv
<1>b. ASSUME UNCHANGED <<subs, since, log, cur, pos, got>>,
             pc'[Rx] = "loop" <=> pc[Rx] = "loop", pc'[Rx] = "dispatchLock" <=> pc[Rx] = "dispatchLock"
      PROVE  Given'
  <2>1. \A k \in Keys : Waiting(k)' = Waiting(k)
    BY <1>b DEF Waiting, Dispatching
  <2> QED
    BY <1>a, <1>b, <2>1 DEF Given, Owed
<1> USE <1>0, <1>a DEF Given, Waiting, Dispatching, Owed, Goto, rxVars, subVars, adapterVars
<1>1. ASSUME NEW k \in Keys, NEW m \in Shapes, Arrive(k, m) PROVE Given'
  <2>1. UNCHANGED <<subs, since, log, cur, pos, got, pc>>
    BY <1>1 DEF Arrive
  <2> QED
    BY <1>b, <2>1
<1>2. CASE ReceiveReply
  <2>1. UNCHANGED <<subs, since, log, cur, pos, got, pc>>
    BY <1>2 DEF ReceiveReply
  <2> QED
    BY <1>b, <2>1
<1>3. CASE ReceiveEvent
  <2>1. UNCHANGED <<subs, since, log, pos, got>> /\ pc[Rx] = "idle" /\ pc'[Rx] = "dispatchLock"
    BY <1>3 DEF ReceiveEvent
  <2>2. cur = NONE
    BY <2>1 DEF InCall
  <2>3. \A k \in Keys : Waiting(k) = {} /\ Waiting(k)' = {}
    BY <2>1, <2>2
  <2> QED
    BY <2>1, <2>3
<1>4. CASE DispatchLock
  <2>1. cur # NONE /\ cur.key \in Keys /\ cur.n \in Nat
    BY <1>4 DEF DispatchLock, InCall
  <2>2. /\ subs' = subs /\ since' = since /\ got' = got /\ cur' = cur /\ pos' = 1 /\ pc'[Rx] = "loop" /\ pc[Rx] = "dispatchLock"
        /\ log' = [log EXCEPT ![cur.key] = Append(@, cur.n)]
    BY <1>4 DEF DispatchLock
  <2> SUFFICES ASSUME NEW k \in Keys, NEW i \in DOMAIN subs[k], subs[k][i] \notin Typed
               PROVE  Owed(subs[k][i], k)' = IF i \in Waiting(k)' THEN Append(got[subs[k][i]], cur.n) ELSE got[subs[k][i]]
    BY <2>2
  <2>3. Owed(subs[k][i], k) = got[subs[k][i]]
    BY <2>2
  <2>4. CASE k = cur.key
    <3>1. i \in Waiting(k)'
      BY <2>1, <2>2, <2>4
    <3>2. since[subs[k][i]] \in 0 .. Len(log[k]) /\ log[k] \in Seq(Nat) /\ log'[k] = Append(log[k], cur.n)
      BY <2>1, <2>2, <2>4 DEF Distinct, DispatchTypes
    <3>3. Owed(subs[k][i], k)' = SubSeq(Append(log[k], cur.n), since[subs[k][i]] + 1, Len(Append(log[k], cur.n)))
      BY <2>2, <3>2
    <3>4. SubSeq(Append(log[k], cur.n), since[subs[k][i]] + 1, Len(Append(log[k], cur.n))) = Append(Owed(subs[k][i], k), cur.n)
      BY <2>1, <3>2, OwedGrows
    <3> QED
      BY <2>3, <3>1, <3>3, <3>4
  <2>5. CASE k # cur.key
    BY <2>1, <2>2, <2>3, <2>5
  <2> QED
    BY <2>4, <2>5
<1>5. CASE DispatchCall
  <2>1. cur # NONE /\ cur.key \in Keys /\ pos \in DOMAIN subs[cur.key] /\ pc[Rx] = "loop" /\ pc'[Rx] = "callback"
    BY <1>5 DEF DispatchCall, ToCall, InCall, Locked, IteratorsValid
  <2>2. /\ subs' = subs /\ since' = since /\ log' = log /\ cur' = cur /\ pos' = pos
        /\ Current \in Subs /\ got' = [got EXCEPT ![Current] = Append(@, cur.n)]
    BY <1>5, <2>1 DEF DispatchCall, Current
  <2> SUFFICES ASSUME NEW k \in Keys, NEW i \in DOMAIN subs[k], subs[k][i] \notin Typed
               PROVE  Owed(subs[k][i], k) = IF i \in Waiting(k)' THEN Append(got'[subs[k][i]], cur.n) ELSE got'[subs[k][i]]
    BY <2>2
  <2>3. CASE k = cur.key /\ i = pos
    <3>1. i \in Waiting(k) /\ i \notin Waiting(k)'
      BY <2>1, <2>2, <2>3
    <3>2. subs[k][i] = Current /\ got'[Current] = Append(got[Current], cur.n)
      BY <2>2, <2>3 DEF Current
    <3> QED
      BY <3>1, <3>2
  <2>4. CASE ~ (k = cur.key /\ i = pos)
    <3>1. subs[k][i] # Current
      BY <2>1, <2>4 DEF Distinct, Current
    <3>2. i \in Waiting(k)' <=> i \in Waiting(k)
      BY <2>1, <2>2, <2>4
    <3> QED
      BY <2>2, <3>1, <3>2
  <2> QED
    BY <2>3, <2>4
<1>6. CASE CallbackReturn
  <2>1. \A k \in Keys : Waiting(k)' = Waiting(k)
    BY <1>6 DEF CallbackReturn
  <2> QED
    BY <1>6, <2>1 DEF CallbackReturn
<1>7. CASE DispatchTyped
  <2>1. /\ subs' = subs /\ since' = since /\ log' = log /\ cur' = cur /\ got' = got /\ pc' = pc /\ pc[Rx] = "loop"
        /\ pos' = pos + 1 /\ subs[cur.key][pos] \in Typed
    BY <1>7 DEF DispatchTyped, Current
  <2>2. \A k \in Keys : \A i \in DOMAIN subs[k] :
          subs[k][i] \notin Typed => (i \in Waiting(k)' <=> i \in Waiting(k))
    BY <2>1
  <2> SUFFICES ASSUME NEW k \in Keys, NEW i \in DOMAIN subs[k], subs[k][i] \notin Typed
               PROVE  Owed(subs[k][i], k) = IF i \in Waiting(k)' THEN Append(got[subs[k][i]], cur.n) ELSE got[subs[k][i]]
    BY <2>1
  <2>3. i \in Waiting(k)' <=> i \in Waiting(k)
    BY <2>2
  <2> QED
    BY <2>3
<1>8. CASE DispatchEnd
  <2>1. cur # NONE /\ pos > Len(subs[cur.key])
    BY <1>8 DEF DispatchEnd, ToCall, InCall, IteratorsValid
  <2>2. \A k \in Keys : Waiting(k) = {} /\ Waiting(k)' = {}
    BY <1>8, <2>1 DEF DispatchEnd
  <2> QED
    BY <1>8, <2>2 DEF DispatchEnd
<1>9. ASSUME NEW s \in Subs, NEW k \in Keys, SubscribeInCallback(s, k) PROVE Given'
  <2>1. UNCHANGED <<subs, since, log, cur, pos, got>> /\ pc[Rx] = "callback" /\ pc'[Rx] = "subLock"
    BY <1>9 DEF SubscribeInCallback
  <2> QED
    BY <1>b, <2>1
<1>10. ASSUME NEW t \in Threads, NEW s \in Subs, NEW k \in Keys, Subscribe(t, s, k) PROVE Given'
  <2>1. UNCHANGED <<subs, since, log, cur, pos, got>> /\ pc'[Rx] = pc[Rx]
    BY <1>10 DEF Subscribe
  <2> QED
    BY <1>b, <2>1
<1>11. ASSUME NEW t \in Procs, SubscribeLock(t) PROVE Given'
  <2>1. UNCHANGED <<subs, since, log, cur, pos, got>> /\ pc' = [pc EXCEPT ![t] = "subPush"] /\ pc[t] = "subLock"
    BY <1>11 DEF SubscribeLock
  <2> QED
    BY <1>b, <2>1
<1>12. ASSUME NEW t \in Procs, SubscribePush(t) PROVE Given'
  <2> DEFINE s == arg[t].sub
             k == arg[t].key
  <2>1. s \in Subs /\ k \in Keys /\ since[s] = NONE /\ got[s] = <<>>
    BY <1>12 DEF SubscribePush, InCall, Distinct, Making
  <2>2. /\ subs' = [subs EXCEPT ![k] = Append(@, s)] /\ since' = [since EXCEPT ![s] = Len(log[k])]
        /\ pos' = pos
        /\ pc'[Rx] = "loop" <=> pc[Rx] = "loop"
        /\ pc'[Rx] = "dispatchLock" <=> pc[Rx] = "dispatchLock"
    BY <1>12 DEF SubscribePush
  <2>a. log' = log /\ got' = got /\ cur' = cur
    BY <1>12 DEF SubscribePush
  <2>3. ~Dispatching(k)
    <3>1. CASE t = Rx
      BY <1>12, <3>1 DEF SubscribePush, InCall, Locked, OtherKey
    <3>2. CASE t # Rx
      <4>1. owner = t
        BY <1>12, <3>2 DEF SubscribePush, Locked, Procs
      <4> QED
        BY <3>2, <4>1 DEF InCall, Locked
    <3> QED
      BY <3>1, <3>2
  <2> HIDE DEF s, k
  <2>4. \A l \in Keys : \A i \in DOMAIN subs'[l] :
          IF l = k /\ i = Len(subs[k]) + 1 THEN subs'[l][i] = s
          ELSE i \in DOMAIN subs[l] /\ subs'[l][i] = subs[l][i]
    <3>1. subs \in [Keys -> Seq(Subs)] /\ k \in Keys /\ s \in Subs
      BY <2>1 DEF DispatchTypes
    <3>2. subs' = [subs EXCEPT ![k] = Append(@, s)]
      BY <2>2
    <3> HIDE <1>0, <1>a DEF Given, Waiting, Dispatching, Owed, Goto, rxVars, subVars, adapterVars
    <3> QED
      BY <3>1, <3>2, Pushed
  <2>5. \A l \in Keys : \A i \in DOMAIN subs[l] : subs[l][i] # s
    BY <2>1 DEF Distinct
  <2>6. \A x \in Subs : since'[x] = IF x = s THEN Len(log[k]) ELSE since[x]
    BY <2>1, <2>2
  <2> DEFINE Owes(x, l) == SubSeq(log[l], since'[x] + 1, Len(log[l]))
  <2> SUFFICES ASSUME NEW l \in Keys, NEW i \in DOMAIN subs'[l], subs'[l][i] \notin Typed
               PROVE  Owes(subs'[l][i], l) = IF i \in Waiting(l)' THEN Append(got[subs'[l][i]], cur.n) ELSE got[subs'[l][i]]
    BY <2>a
  <2>7. CASE l = k /\ i = Len(subs[k]) + 1
    <3>1. subs'[l][i] = s /\ since'[s] = Len(log[k]) /\ log[k] \in Seq(Nat)
      BY <2>1, <2>4, <2>6, <2>7 DEF DispatchTypes
    <3>2. Owes(s, l) = <<>>
      BY <2>7, <3>1, OwedNothing
    <3>3. i \notin Waiting(l)'
      BY <2>2, <2>3, <2>7, <2>a
    <3> QED
      BY <2>1, <3>1, <3>2, <3>3
  <2>8. CASE ~ (l = k /\ i = Len(subs[k]) + 1)
    <3>1. i \in DOMAIN subs[l] /\ subs'[l][i] = subs[l][i] /\ subs[l][i] # s /\ subs[l][i] \in Subs
      BY <2>4, <2>5, <2>8
    <3>2. i \in Waiting(l)' <=> i \in Waiting(l)
      BY <2>2, <2>a, <3>1
    <3>3. Owes(subs[l][i], l) = Owed(subs[l][i], l)
      BY <2>6, <3>1
    <3> QED
      BY <3>1, <3>2, <3>3
  <2> QED
    BY <2>7, <2>8
<1>13. ASSUME NEW t \in Threads, NEW k \in Keys, RegisterTypeAdapter(t, k) PROVE Given'
  <2>1. UNCHANGED <<subs, since, log, cur, pos, got>> /\ pc'[Rx] = pc[Rx]
    BY <1>13 DEF RegisterTypeAdapter
  <2> QED
    BY <1>b, <2>1
<1>14. ASSUME NEW t \in Threads, NEW k \in Keys, UnregisterTypeAdapter(t, k) PROVE Given'
  <2>1. UNCHANGED <<subs, since, log, cur, pos, got>> /\ pc'[Rx] = pc[Rx]
    BY <1>14 DEF UnregisterTypeAdapter
  <2> QED
    BY <1>b, <2>1
<1>15. ASSUME NEW t \in Threads, NEW k \in Keys, WriteFind(t, k) PROVE Given'
  <2>1. UNCHANGED <<subs, since, log, cur, pos, got>> /\ pc'[Rx] = pc[Rx]
    BY <1>15 DEF WriteFind
  <2> QED
    BY <1>b, <2>1
<1>16. ASSUME NEW t \in Threads, Write(t) PROVE Given'
  <2>1. UNCHANGED <<subs, since, log, cur, pos, got>> /\ pc'[Rx] = pc[Rx]
    BY <1>16 DEF Write, WriteReadEncode, WriteReadContext, WriteReturn
  <2> QED
    BY <1>b, <2>1
<1>17. CASE Done
  BY <1>17 DEF Done, vars
<1>18. CASE UNCHANGED vars
  BY <1>18 DEF vars
<1> QED
  BY <1>1, <1>2, <1>3, <1>4, <1>5, <1>6, <1>7, <1>8, <1>9, <1>10, <1>11, <1>12, <1>13, <1>14, <1>15, <1>16, <1>17, <1>18 DEF Next, Receive, Procs

\* What every callback was given is what it is owed, but for the event of the walk.
LEMMA OrderInvImplies == OrderInv => InOrder
  BY DEF OrderInv, Classified, Given, Waiting, InOrder

\* Every callback is given every event of its key that was dispatched since it was subscribed, once
\* and in order, and events and replies are told apart: for any number of threads, subscriptions and
\* datagrams, on both builds, if no callback subscribes to its own key where it could.
THEOREM EventsInOrder == NoneToSameKey => (Spec => []InOrder)
<1> SUFFICES ASSUME NoneToSameKey PROVE Spec => []InOrder
  OBVIOUS
<1>1. OrderInv /\ [Next]_vars => OrderInv'
  BY WalkStep, ClassifiedStep, DistinctStep, GivenStep DEF OrderInv
<1> QED
  BY <1>1, InitOrderInv, OrderInvImplies, PTL DEF Spec

-----------------------------------------------------------------------------
(* Types, with the numbers of the datagrams that were sent.                *)

Numbered ==
  /\ inbox \in Seq(Datagrams)
  /\ cur # NONE => cur.n \in 1 .. sent
  /\ log \in [Keys -> Seq(1 .. sent)]
  /\ got \in [Subs -> Seq(1 .. sent)]
  /\ answered \subseteq BOOLEAN

\* A writeStruct that encodes has looked a key up.
AdapterFound ==
  AdapterTypes /\ \A t \in Threads : pc[t] \in {"encode", "context", "encoded"} => ptr[t].key \in Keys

\* Every step keeps the types of the adapters.
LEMMA FoundStep == AdapterFound /\ [Next]_vars => AdapterFound'
<1> SUFFICES ASSUME AdapterFound, [Next]_vars PROVE AdapterFound'
  OBVIOUS
<1>0. Rx \in Procs /\ Rx \notin Threads /\ Threads \subseteq Procs
  BY DispatchAssumption DEF Procs
<1> USE <1>0 DEF AdapterFound, AdapterTypes, PCs, Goto, rxVars, subVars, adapterVars
<1>1. ASSUME NEW k \in Keys, NEW m \in Shapes, Arrive(k, m) PROVE AdapterFound'
  BY <1>1 DEF Arrive
<1>2. CASE ReceiveReply
  BY <1>2 DEF ReceiveReply
<1>3. CASE ReceiveEvent
  BY <1>3 DEF ReceiveEvent
<1>4. CASE DispatchLock
  BY <1>4 DEF DispatchLock
<1>5. CASE DispatchCall
  BY <1>5 DEF DispatchCall
<1>6. CASE CallbackReturn
  BY <1>6 DEF CallbackReturn
<1>7. CASE DispatchTyped
  BY <1>7 DEF DispatchTyped
<1>8. CASE DispatchEnd
  BY <1>8 DEF DispatchEnd
<1>9. ASSUME NEW s \in Subs, NEW k \in Keys, SubscribeInCallback(s, k) PROVE AdapterFound'
  BY <1>9 DEF SubscribeInCallback
<1>10. ASSUME NEW t \in Threads, NEW s \in Subs, NEW k \in Keys, Subscribe(t, s, k) PROVE AdapterFound'
  BY <1>10 DEF Subscribe
<1>11. ASSUME NEW t \in Procs, SubscribeLock(t) PROVE AdapterFound'
  BY <1>11 DEF SubscribeLock
<1>12. ASSUME NEW t \in Procs, SubscribePush(t) PROVE AdapterFound'
  BY <1>12 DEF SubscribePush
<1>13. ASSUME NEW t \in Threads, NEW k \in Keys, RegisterTypeAdapter(t, k) PROVE AdapterFound'
  BY <1>13 DEF RegisterTypeAdapter, Store
<1>14. ASSUME NEW t \in Threads, NEW k \in Keys, UnregisterTypeAdapter(t, k) PROVE AdapterFound'
  BY <1>14 DEF UnregisterTypeAdapter
<1>15. ASSUME NEW t \in Threads, NEW k \in Keys, WriteFind(t, k) PROVE AdapterFound'
  BY <1>15 DEF WriteFind
<1>16. ASSUME NEW t \in Threads, Write(t) PROVE AdapterFound'
  <2>1. CASE WriteReadEncode(t)
    <3>1. Found(t) \subseteq Nat
      BY <2>1 DEF WriteReadEncode, Found
    <3> QED
      BY <2>1, <3>1 DEF WriteReadEncode
  <2>2. CASE WriteReadContext(t)
    <3>1. Found(t) \subseteq Nat
      BY <2>2 DEF WriteReadContext, Found
    <3> QED
      BY <2>2, <3>1 DEF WriteReadContext
  <2>3. CASE WriteReturn(t)
    BY <2>3 DEF WriteReturn
  <2> QED
    BY <1>16, <2>1, <2>2, <2>3 DEF Write
<1>17. CASE Done
  BY <1>17 DEF Done, vars
<1>18. CASE UNCHANGED vars
  BY <1>18 DEF vars
<1> QED
  BY <1>1, <1>2, <1>3, <1>4, <1>5, <1>6, <1>7, <1>8, <1>9, <1>10, <1>11, <1>12, <1>13, <1>14, <1>15, <1>16, <1>17, <1>18 DEF Next, Receive, Procs

\* Every step keeps the numbers: what is queued, dispatched, logged and given was sent.
LEMMA NumberedStep == DispatchTypes /\ InCall /\ Locked /\ IteratorsValid /\ Numbered /\ [Next]_vars => Numbered'
<1> SUFFICES ASSUME DispatchTypes, InCall, Locked, IteratorsValid, Numbered, [Next]_vars PROVE Numbered'
  OBVIOUS
<1> USE DEF subVars, rxVars, adapterVars, Goto
<1> DEFINE Same == UNCHANGED <<inbox, sent, cur, log, got, answered>>
<1>0. Same => Numbered'
  BY DEF Numbered, Datagrams
<1>1. ASSUME NEW k \in Keys, NEW m \in Shapes, Arrive(k, m) PROVE Numbered'
  <2>1. sent' = sent + 1 /\ sent \in Nat /\ UNCHANGED <<cur, log, got, answered>>
        /\ inbox' = Append(inbox, [key |-> k, msg |-> m, n |-> sent + 1])
    BY <1>1 DEF Arrive, DispatchTypes
  <2>2. 1 .. sent \subseteq (1 .. sent)' /\ sent + 1 \in (1 .. sent)'
    BY <2>1
  <2>3. Datagrams \subseteq Datagrams' /\ [key |-> k, msg |-> m, n |-> sent + 1] \in Datagrams'
    BY <2>2 DEF Datagrams
  <2>4. inbox \in Seq(Datagrams')
    BY <2>3, SeqMonotonic DEF Numbered
  <2>5. inbox' \in Seq(Datagrams')
    BY <2>1, <2>3, <2>4, AppendProperties
  <2>6. \A q \in Seq(1 .. sent) : q \in Seq((1 .. sent)')
    BY <2>2, SeqMonotonic
  <2>7. (log \in [Keys -> Seq(1 .. sent)])' /\ (got \in [Subs -> Seq(1 .. sent)])'
    BY <2>1, <2>6 DEF Numbered
  <2> QED
    BY <2>1, <2>2, <2>5, <2>7 DEF Numbered
<1>a. inbox # <<>> => inbox[1] \in Datagrams /\ Tail(inbox) \in Seq(Datagrams) /\ inbox[1].msg.event \in BOOLEAN
  <2> SUFFICES ASSUME inbox # <<>>
               PROVE  inbox[1] \in Datagrams /\ Tail(inbox) \in Seq(Datagrams) /\ inbox[1].msg.event \in BOOLEAN
    OBVIOUS
  <2> DEFINE D == Datagrams
  <2>1. inbox \in Seq(D)
    BY DEF Numbered
  <2>2. inbox[1].msg.event \in BOOLEAN
    BY FirstDatagram
  <2> HIDE DEF D
  <2>3. 1 \in 1 .. Len(inbox)
    BY <2>1, EmptySeq
  <2>4. inbox[1] \in D
    BY <2>1, <2>3, ElementOfSeq
  <2>5. Tail(inbox) \in Seq(D)
    BY <2>1, HeadTailProperties
  <2> QED
    BY <2>2, <2>4, <2>5 DEF D
<1>2. CASE ReceiveReply
  <2>1. inbox # <<>> /\ inbox' = Tail(inbox) /\ answered' = answered \cup {inbox[1].msg.event}
        /\ UNCHANGED <<sent, cur, log, got>>
    BY <1>2 DEF ReceiveReply
  <2> QED
    BY <1>a, <2>1 DEF Numbered, Datagrams
<1>3. CASE ReceiveEvent
  <2>1. inbox # <<>> /\ inbox' = Tail(inbox) /\ UNCHANGED <<sent, log, got, answered>>
        /\ cur' = [key |-> inbox[1].key, n |-> inbox[1].n, event |-> inbox[1].msg.event]
    BY <1>3 DEF ReceiveEvent
  <2>2. inbox[1].n \in 1 .. sent
    BY <1>a, <2>1 DEF Datagrams
  <2> QED
    BY <1>a, <2>1, <2>2 DEF Numbered, Datagrams
<1>4. CASE DispatchLock
  <2>1. cur # NONE /\ cur.key \in Keys /\ cur.n \in 1 .. sent
    BY <1>4 DEF DispatchLock, InCall, DispatchTypes, Marked, Numbered
  <2>2. log' = [log EXCEPT ![cur.key] = Append(@, cur.n)] /\ UNCHANGED <<inbox, sent, cur, got, answered>>
    BY <1>4 DEF DispatchLock
  <2>3. log' \in [Keys -> Seq(1 .. sent)]
    BY <2>1, <2>2, AppendProperties DEF Numbered
  <2> QED
    BY <2>2, <2>3 DEF Numbered, Datagrams
<1>5. CASE DispatchCall
  <2>1. cur # NONE /\ cur.key \in Keys /\ cur.n \in 1 .. sent
    BY <1>5 DEF DispatchCall, InCall, DispatchTypes, Marked, Numbered
  <2>2. Current \in Subs
    <3>1. pos \in 1 .. Len(subs[cur.key]) /\ subs[cur.key] \in Seq(Subs)
      BY <1>5, <2>1 DEF DispatchCall, Locked, IteratorsValid, ToCall, DispatchTypes
    <3> QED
      BY <3>1, ElementOfSeq DEF Current
  <2>3. got' = [got EXCEPT ![Current] = Append(@, cur.n)] /\ UNCHANGED <<inbox, sent, cur, log, answered>>
    BY <1>5 DEF DispatchCall
  <2>4. got' \in [Subs -> Seq(1 .. sent)]
    BY <2>1, <2>2, <2>3, AppendProperties DEF Numbered
  <2> QED
    BY <2>3, <2>4 DEF Numbered, Datagrams
<1>6. CASE DispatchEnd
  BY <1>6 DEF DispatchEnd, Numbered, Datagrams
<1>7. CASE CallbackReturn \/ DispatchTyped
  BY <1>0, <1>7 DEF CallbackReturn, DispatchTyped
<1>8. ASSUME NEW s \in Subs, NEW k \in Keys, SubscribeInCallback(s, k) PROVE Numbered'
  BY <1>0, <1>8 DEF SubscribeInCallback
<1>9. ASSUME NEW t \in Threads, NEW s \in Subs, NEW k \in Keys, Subscribe(t, s, k) PROVE Numbered'
  BY <1>0, <1>9 DEF Subscribe
<1>10. ASSUME NEW t \in Procs, SubscribeLock(t) \/ SubscribePush(t) PROVE Numbered'
  BY <1>0, <1>10 DEF SubscribeLock, SubscribePush
<1>11. ASSUME NEW t \in Threads, NEW k \in Keys,
              RegisterTypeAdapter(t, k) \/ UnregisterTypeAdapter(t, k) \/ WriteFind(t, k)
       PROVE  Numbered'
  BY <1>0, <1>11 DEF RegisterTypeAdapter, UnregisterTypeAdapter, WriteFind
<1>12. ASSUME NEW t \in Threads, Write(t) PROVE Numbered'
  BY <1>0, <1>12 DEF Write, WriteReadEncode, WriteReadContext, WriteReturn
<1>13. CASE Done \/ UNCHANGED vars
  BY <1>0, <1>13 DEF Done, vars
<1> QED
  BY <1>1, <1>2, <1>3, <1>4, <1>5, <1>6, <1>7, <1>8, <1>9, <1>10, <1>11, <1>12, <1>13 DEF Next, Receive

\* No datagram is sent, initially.
LEMMA InitNumbered == Init => Numbered /\ AdapterFound
<1> SUFFICES ASSUME Init PROVE Numbered /\ AdapterFound
  OBVIOUS
<1>1. \A S : <<>> \in Seq(S)
  BY EmptySeq
<1>2. Numbered
  BY <1>1 DEF Init, Numbered
<1>3. AdapterFound
  BY InitTypes DEF Init, AdapterFound, Procs
<1> QED
  BY <1>2, <1>3

\* The program has the types its declarations give it, and every datagram that is queued, dispatched,
\* logged or given to a callback is one the Agent sent, if no callback subscribes to its own key where
\* it could: the walk would otherwise leave the vector.
THEOREM TypeCorrect == NoneToSameKey => (Spec => []TypeOK)
<1> SUFFICES ASSUME NoneToSameKey PROVE Spec => []TypeOK
  OBVIOUS
<1>1. WalkInv /\ Numbered /\ [Next]_vars => (WalkInv /\ Numbered)'
  BY WalkStep, NumberedStep DEF WalkInv
<1>2. WalkInv /\ Numbered /\ AdapterFound => TypeOK
  <2> SUFFICES ASSUME WalkInv, Numbered, AdapterFound PROVE TypeOK
    OBVIOUS
  <2>1. cur \in [key : Keys, n : 1 .. sent, event : BOOLEAN] \cup {NONE}
    BY DEF WalkInv, DispatchTypes, Numbered, Marked
  <2> QED
    BY <2>1 DEF WalkInv, DispatchTypes, Numbered, AdapterFound, AdapterTypes, TypeOK
<1> QED
  BY InitWalkInv, InitNumbered, FoundStep, <1>1, <1>2, PTL DEF Spec
=============================================================================
