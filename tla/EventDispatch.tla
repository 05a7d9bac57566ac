---------------------------- MODULE EventDispatch ----------------------------
(***************************************************************************)
(* Events and type adapters of the LegacyLib client: the application       *)
(* threads subscribe callbacks under sub_mutex_, the receive thread walks  *)
(* the subscriptions of a key and calls them with that lock held, and      *)
(* legacy_agent_write_struct uses an adapter through a pointer that        *)
(* findTypeAdapter returns after it has released adapter_mutex_.           *)
(*                                                                         *)
(* A section under adapter_mutex_ is one step: nothing reads the map       *)
(* outside it but through the pointer.  A section under sub_mutex_ is a    *)
(* lock step and a step of its body, for the callbacks run inside one.     *)
(***************************************************************************)
EXTENDS Naturals, Sequences, FiniteSets

CONSTANTS
  Threads,    \* application threads
  Rx,         \* the receive thread (tIpcRecv)
  Keys,       \* "topic/type" strings
  Subs,       \* subscriptions an application makes, each once
  Typed,      \* those made with legacy_agent_subscribe_typed
  Platforms,  \* builds: "std" (std::mutex), "vxworks" (semMCreate)
  Nested,     \* per build, the subscriptions a callback makes: "other", "same" key
  Loads,      \* bounds on one behaviour: subscriptions, datagrams, registrations
  NONE

ASSUME DispatchAssumption ==
  /\ Rx \notin Threads
  /\ Typed \subseteq Subs
  /\ Platforms \subseteq {"std", "vxworks"}
  /\ Nested \in [Platforms -> SUBSET {"other", "same"}]
  /\ Loads \subseteq [subs : SUBSET Subs, events : Nat, regs : Nat]
  /\ NONE \notin Threads \cup {Rx} \cup Keys \cup Subs
  /\ NONE \notin Nat \cup [key : Keys, n : Nat, event : BOOLEAN]

VARIABLES
  platform,   \* the build, chosen once
  load,       \* the bounds of this behaviour, chosen once
  pc,         \* where each thread is
  arg,        \* the subscription or key of the call a thread is in
  owner,      \* holder of sub_mutex_ / sub_sem_
  depth,      \* times the holder took it: a VxWorks mutex is recursive
  subs,       \* subscriptions_: key -> sequence of subscriptions
  inbox,      \* decoded datagrams not yet handled
  sent,       \* how many the Agent sent
  cur,        \* the event being dispatched
  pos, end,   \* the loop's iterator and end(), read when the loop began
  adapters,   \* type_adapters_: key -> [node, reg], node 0 when absent
  regs,       \* registrations so far: the identity of an adapter's contents
  ptr,        \* the LegacyTypeAdapter* a writeStruct holds
  seen,       \* encode and user_ctx as that writeStruct read them
  log,        \* history: events dispatched, per key
  since,      \* history: events of its key dispatched before it subscribed
  got,        \* history: events each subscription's callback was given
  answered    \* history: whether an event, a reply went down the reply path

subVars     == <<owner, depth, subs, since>>
rxVars      == <<inbox, sent, cur, pos, end, log, got, answered>>
adapterVars == <<adapters, regs, ptr, seen>>
vars == <<platform, load, pc, arg, subVars, rxVars, adapterVars>>

Procs == Threads \cup {Rx}

-----------------------------------------------------------------------------
(* Datagrams, as the fields the classification looks at.                   *)

\* The shapes the Agent sends: events in their three forms, replies (one of
\* them carrying topic and data), as {evt, op} = "data", ok, topic and data.
Shapes ==
  { [evt |-> TRUE,  op |-> FALSE, ok |-> FALSE, body |-> TRUE,  event |-> TRUE],
    [evt |-> FALSE, op |-> TRUE,  ok |-> FALSE, body |-> TRUE,  event |-> TRUE],
    [evt |-> FALSE, op |-> FALSE, ok |-> FALSE, body |-> TRUE,  event |-> TRUE],
    [evt |-> FALSE, op |-> FALSE, ok |-> TRUE,  body |-> TRUE,  event |-> FALSE] }

\* receiveLoop's is_event: marked as data, or implicitly so without "ok".
IsEvent(m) == m.evt \/ m.op \/ (~m.ok /\ m.body)

-----------------------------------------------------------------------------
(* Plausible bugs, for the mutants PROJECT.json lists.                     *)

\* The lock taken although another thread holds it.
TakeAlways(t) ==
  /\ owner' = t
  /\ depth' = depth + 1

\* The loop left when the first callback returns.
LoopOnce == IF pos > 1 THEN {} ELSE pos .. end

-----------------------------------------------------------------------------
(* sub_mutex_: a std::mutex, or a VxWorks mutex its holder may take again. *)

Take(t) ==
  /\ \/ owner = NONE
     \/ owner = t /\ platform = "vxworks"
  /\ owner' = t
  /\ depth' = depth + 1

Give ==
  /\ depth' = depth - 1
  /\ owner' = IF depth = 1 THEN NONE ELSE owner

Goto(t, from, to) ==
  /\ pc[t] = from
  /\ pc' = [pc EXCEPT ![t] = to]

Unused(s) == s \in load.subs /\ since[s] = NONE /\ \A t \in Procs : arg[t].sub # s

Idle == [sub |-> NONE, key |-> NONE]

-----------------------------------------------------------------------------
Init ==
  /\ platform \in Platforms
  /\ load \in Loads
  /\ pc = [t \in Procs |-> "idle"]
  /\ arg = [t \in Procs |-> Idle]
  /\ owner = NONE
  /\ depth = 0
  /\ subs = [k \in Keys |-> <<>>]
  /\ inbox = <<>>
  /\ sent = 0
  /\ cur = NONE
  /\ pos = 0
  /\ end = 0
  /\ adapters = [k \in Keys |-> [node |-> 0, reg |-> 0]]
  /\ regs = 0
  /\ ptr = [t \in Threads |-> [key |-> NONE, node |-> 0]]
  /\ seen = [t \in Threads |-> [encode |-> 0, ctx |-> 0]]
  /\ log = [k \in Keys |-> <<>>]
  /\ since = [s \in Subs |-> NONE]
  /\ got = [s \in Subs |-> <<>>]
  /\ answered = {}

-----------------------------------------------------------------------------
(* legacy_agent_subscribe_event and legacy_agent_subscribe_typed.          *)

\* A call with a NULL handle, topic or type returns LEGACY_ERR_PARAM before
\* it reaches the client: no state changes, so only valid calls are actions.
Subscribe(t, s, k) ==
  /\ t \in Threads
  /\ Unused(s)
  /\ Goto(t, "idle", "subLock")
  /\ arg' = [arg EXCEPT ![t] = [sub |-> s, key |-> k]]
  /\ UNCHANGED <<platform, load, subVars, rxVars, adapterVars>>

\* A callback of the receive thread subscribes another one.
SubscribeInCallback(s, k) ==
  /\ Goto(Rx, "callback", "subLock")
  /\ Unused(s)
  /\ (IF k = cur.key THEN "same" ELSE "other") \in Nested[platform]
  /\ arg' = [arg EXCEPT ![Rx] = [sub |-> s, key |-> k]]
  /\ UNCHANGED <<platform, load, subVars, rxVars, adapterVars>>

SubscribeLock(t) ==
  /\ Goto(t, "subLock", "subPush")
  /\ Take(t)
  /\ UNCHANGED <<platform, load, arg, subs, since, rxVars, adapterVars>>

\* push_back, and the guard's destructor as the call returns.
SubscribePush(t) ==
  LET s == arg[t].sub
      k == arg[t].key
  IN /\ Goto(t, "subPush", IF t = Rx THEN "callback" ELSE "idle")
     /\ subs' = [subs EXCEPT ![k] = Append(@, s)]
     /\ since' = [since EXCEPT ![s] = Len(log[k])]
     /\ arg' = [arg EXCEPT ![t] = Idle]
     /\ Give
     /\ UNCHANGED <<platform, load, rxVars, adapterVars>>

-----------------------------------------------------------------------------
(* The receive loop.                                                       *)

\* The Agent sends a datagram (the network's losses are IpcClient's subject).
Arrive(k, m) ==
  /\ sent < load.events
  /\ sent' = sent + 1
  /\ inbox' = Append(inbox, [key |-> k, msg |-> m, n |-> sent + 1])
  /\ UNCHANGED <<platform, load, pc, arg, subVars, cur, pos, end, log, got, answered,
                 adapterVars>>

\* A reply: looked up in pending_requests_, which IpcClient models.
ReceiveReply ==
  /\ pc[Rx] = "idle"
  /\ inbox # <<>>
  /\ ~IsEvent(inbox[1].msg)
  /\ inbox' = Tail(inbox)
  /\ answered' = answered \cup {inbox[1].msg.event}
  /\ UNCHANGED <<platform, load, pc, arg, subVars, sent, cur, pos, end, log, got,
                 adapterVars>>

ReceiveEvent ==
  /\ inbox # <<>>
  /\ IsEvent(inbox[1].msg)
  /\ Goto(Rx, "idle", "dispatchLock")
  /\ inbox' = Tail(inbox)
  /\ cur' = [key |-> inbox[1].key, n |-> inbox[1].n, event |-> inbox[1].msg.event]
  /\ UNCHANGED <<platform, load, arg, subVars, sent, pos, end, log, got, answered,
                 adapterVars>>

\* The lock, the lookup of the key and the loop's begin() and end().
DispatchLock ==
  /\ Goto(Rx, "dispatchLock", "loop")
  /\ Take(Rx)
  /\ pos' = 1
  /\ end' = Len(subs[cur.key])
  /\ log' = [log EXCEPT ![cur.key] = Append(@, cur.n)]
  /\ UNCHANGED <<platform, load, arg, subs, since, inbox, sent, cur, got, answered,
                 adapterVars>>

\* The positions of the vector still to visit, and the one visited now.
ToCall == pos .. end

Current == subs[cur.key][pos]

\* sub.event_cb(nullptr, &evt, sub.user), the lock held.
DispatchCall ==
  /\ Goto(Rx, "loop", "callback")
  /\ ToCall # {}
  /\ Current \notin Typed
  /\ got' = [got EXCEPT ![Current] = Append(@, cur.n)]
  /\ UNCHANGED <<platform, load, arg, subVars, inbox, sent, cur, pos, end, log,
                 answered, adapterVars>>

CallbackReturn ==
  /\ Goto(Rx, "callback", "loop")
  /\ pos' = pos + 1
  /\ UNCHANGED <<platform, load, arg, subVars, inbox, sent, cur, end, log, got,
                 answered, adapterVars>>

\* The branch of a typed subscription without the step to the next one.
DispatchTypedStays ==
  /\ pc[Rx] = "loop"
  /\ ToCall # {}
  /\ Current \in Typed
  /\ UNCHANGED vars

\* A typed subscription: the branch is empty, nothing decodes or calls it.
DispatchTyped ==
  /\ pc[Rx] = "loop"
  /\ ToCall # {}
  /\ Current \in Typed
  /\ pos' = pos + 1
  /\ UNCHANGED <<platform, load, pc, arg, subVars, inbox, sent, cur, end, log, got,
                 answered, adapterVars>>

DispatchEnd ==
  /\ Goto(Rx, "loop", "idle")
  /\ ToCall = {}
  /\ Give
  /\ cur' = NONE
  /\ pos' = 0
  /\ end' = 0
  /\ UNCHANGED <<platform, load, arg, subs, since, inbox, sent, log, got, answered,
                 adapterVars>>

-----------------------------------------------------------------------------
(* Type adapters.                                                          *)

\* type_adapters_[key] = *adapter: a new node, or the old one overwritten.
\* Nodes of a std::map stay where they are when others come and go.
Store(k) ==
  [adapters EXCEPT ![k] =
     [node |-> IF @.node = 0 THEN regs + 1 ELSE @.node, reg |-> regs + 1]]

RegisterTypeAdapter(t, k) ==
  /\ pc[t] = "idle"
  /\ regs < load.regs
  /\ adapters' = Store(k)
  /\ regs' = regs + 1
  /\ UNCHANGED <<platform, load, pc, arg, subVars, rxVars, ptr, seen>>

\* Nothing asks whether a writeStruct holds the pointer.  An erase that finds no
\* adapter changes nothing, and is left out.
UnregisterTypeAdapter(t, k) ==
  /\ pc[t] = "idle"
  /\ adapters[k].node # 0
  /\ adapters' = [adapters EXCEPT ![k] = [node |-> 0, reg |-> 0]]
  /\ UNCHANGED <<platform, load, pc, arg, subVars, rxVars, regs, ptr, seen>>

\* writeStruct: without an adapter it returns LEGACY_ERR_PARAM at once.
WriteFind(t, k) ==
  /\ adapters[k].node # 0
  /\ Goto(t, "idle", "encode")
  /\ ptr' = [ptr EXCEPT ![t] = [key |-> k, node |-> adapters[k].node]]
  /\ UNCHANGED <<platform, load, arg, subVars, rxVars, adapters, regs, seen>>

\* Whose fields are found at the pointer: the adapter's, as it is now, or, once its
\* node is freed, those of any registration, or nothing meaningful.
Found(t) ==
  IF adapters[ptr[t].key].node = ptr[t].node THEN {adapters[ptr[t].key].reg} ELSE 0 .. regs

\* Through the pointer, without the lock: adapter->encode is read ...
WriteReadEncode(t) ==
  /\ Goto(t, "encode", "context")
  /\ \E r \in Found(t) : seen' = [seen EXCEPT ![t].encode = r]
  /\ UNCHANGED <<platform, load, arg, subVars, rxVars, adapters, regs, ptr>>

\* ... and then adapter->user_ctx, and encode is called (writeJson follows).
WriteReadContext(t) ==
  /\ Goto(t, "context", "encoded")
  /\ \E r \in Found(t) : seen' = [seen EXCEPT ![t].ctx = r]
  /\ UNCHANGED <<platform, load, arg, subVars, rxVars, adapters, regs, ptr>>

WriteReturn(t) ==
  /\ Goto(t, "encoded", "idle")
  /\ ptr' = [ptr EXCEPT ![t] = [key |-> NONE, node |-> 0]]
  /\ seen' = [seen EXCEPT ![t] = [encode |-> 0, ctx |-> 0]]
  /\ UNCHANGED <<platform, load, arg, subVars, rxVars, adapters, regs>>

-----------------------------------------------------------------------------
Write(t) == WriteReadEncode(t) \/ WriteReadContext(t) \/ WriteReturn(t)

Receive ==
  \/ ReceiveReply \/ ReceiveEvent \/ DispatchLock
  \/ DispatchCall \/ CallbackReturn \/ DispatchTyped \/ DispatchEnd

\* Everything the client may do has been asked of it.
Done ==
  /\ \A t \in Procs : pc[t] = "idle"
  /\ inbox = <<>> /\ sent = load.events
  /\ \A s \in load.subs : since[s] # NONE
  /\ UNCHANGED vars

Next ==
  \/ \E k \in Keys, m \in Shapes : Arrive(k, m)
  \/ Receive
  \/ \E s \in Subs, k \in Keys :
       SubscribeInCallback(s, k) \/ \E t \in Threads : Subscribe(t, s, k)
  \/ \E t \in Procs : SubscribeLock(t) \/ SubscribePush(t)
  \/ \E t \in Threads, k \in Keys :
       RegisterTypeAdapter(t, k) \/ UnregisterTypeAdapter(t, k) \/ WriteFind(t, k)
  \/ \E t \in Threads : Write(t)
  \/ Done

Spec == Init /\ [][Next]_vars

\* Callbacks return, the receive thread runs, and a lock that is free often
\* enough is obtained.
Fairness ==
  /\ WF_vars(Receive)
  /\ \A t \in Procs : SF_vars(SubscribeLock(t)) /\ WF_vars(SubscribePush(t))
  /\ \A t \in Threads : WF_vars(Write(t))

FairSpec == Spec /\ Fairness

-----------------------------------------------------------------------------
(* Properties.                                                             *)

PCs == {"idle", "subLock", "subPush", "dispatchLock", "loop", "callback",
        "encode", "context", "encoded"}

Datagrams == [key : Keys, msg : Shapes, n : 1 .. sent]

TypeOK ==
  /\ platform \in Platforms
  /\ load \in Loads
  /\ pc \in [Procs -> PCs]
  /\ arg \in [Procs -> [sub : Subs \cup {NONE}, key : Keys \cup {NONE}]]
  /\ owner \in Procs \cup {NONE}
  /\ depth \in Nat
  /\ subs \in [Keys -> Seq(Subs)]
  /\ inbox \in Seq(Datagrams)
  /\ sent \in Nat
  /\ cur \in [key : Keys, n : 1 .. sent, event : BOOLEAN] \cup {NONE}
  /\ pos \in Nat /\ end \in Nat
  /\ adapters \in [Keys -> [node : Nat, reg : Nat]]
  /\ regs \in Nat
  /\ ptr \in [Threads -> [key : Keys \cup {NONE}, node : Nat]]
  /\ seen \in [Threads -> [encode : Nat, ctx : Nat]]
  /\ log \in [Keys -> Seq(1 .. sent)]
  /\ since \in [Subs -> Nat \cup {NONE}]
  /\ got \in [Subs -> Seq(1 .. sent)]
  /\ answered \subseteq BOOLEAN

\* While the receive thread walks the subscriptions of a key, the vector it
\* walks does not change, whoever subscribes meanwhile, a callback of the walk
\* included: the iterators and end() the loop holds stay valid.
IteratorsValid ==
  pc[Rx] \in {"loop", "callback", "subLock", "subPush"} =>
    end = Len(subs[cur.key])

Dispatching(k) == cur # NONE /\ cur.key = k /\ pc[Rx] # "dispatchLock"

\* What a subscription is owed: the events of its key dispatched since it was
\* made, in the order they came.
Owed(s, k) == SubSeq(log[k], since[s] + 1, Len(log[k]))

\* Every callback is given every event of its key dispatched since it was
\* subscribed, once and in order; only the event of the walk in progress may
\* still be missing.  No event is taken for a reply, which without a req_id
\* would answer the oldest request, and no reply for an event.
InOrder ==
  /\ TRUE \notin answered
  /\ cur # NONE => cur.event
  /\ \A k \in Keys : \A i \in DOMAIN subs[k] :
       LET s == subs[k][i]
       IN  s \notin Typed =>
             \/ got[s] = Owed(s, k)
             \/ Dispatching(k) /\ Append(got[s], cur.n) = Owed(s, k)

\* encode is called through a pointer to a live adapter, with the user_ctx
\* that was registered with it.
AdapterAlive ==
  \A t \in Threads :
    /\ pc[t] \in {"encode", "context"} => adapters[ptr[t].key].node = ptr[t].node
    /\ pc[t] = "encoded" => seen[t].encode = seen[t].ctx

\* Every datagram is handled and every call that subscribes returns.
Handled ==
  /\ []<>(inbox = <<>> /\ pc[Rx] = "idle")
  /\ \A t \in Threads : pc[t] = "subLock" ~> pc[t] = "idle"
=============================================================================
