----------------------------- MODULE MCIpcClient -----------------------------
(* Model-checking instances of IpcClient.  What surrounds the client is    *)
(* chosen in the initial state: the std or the VxWorks build, with the     *)
(* Agent and the network of the configuration; or, for the std build, an   *)
(* Agent that returns no request id over a network that keeps the order    *)
(* and loses nothing.                                                      *)
EXTENDS IpcClient, TLC

CONSTANTS a, b, rxThread, Worlds

OneCaller    == {a}
TwoCallers   == {a, b}
WithCallback == {a, rxThread}

\* The application threads are interchangeable.
CallerSymmetry == Permutations(Callers \ {Rx})

VARIABLE world

OnVxWorks == INSTANCE IpcClient WITH Platform <- "vxworks"
InOrder   == INSTANCE IpcClient WITH Echo <- FALSE, Faults <- {}

MCInit == world \in Worlds /\ Init

MCNext ==
  /\ UNCHANGED world
  /\ \/ world = "std" /\ Next
     \/ world = "vxworks" /\ OnVxWorks!Next
     \/ world = "order" /\ InOrder!Next

MCSpec == MCInit /\ [][MCNext]_<<world, vars>>

\* The fairness is that of the Agent without ids; of the other worlds only safety is
\* checked.
MCFairSpec == MCSpec /\ InOrder!Fairness

\* With the Agent without ids every request is answered, by the first-key fallback of
\* receiveLoop, ...
AnsweredInOrder == world = "order" => Answered

\* ... and legacy_agent_close returns.
CloseReturnsInOrder == world = "order" => CloseReturns
=============================================================================
