------------------------------ MODULE MCConsole ------------------------------
(* Model-checking instances of Console and of Logger, which share no       *)
(* variable: a behaviour is one of either.                                 *)
EXTENDS Console, Logger

CONSTANTS k1, k2, k3, l1

ThreeSockets == {k1, k2, k3}
OneLogger    == {l1}

\* One command that lets fewer messages through of each kind.
SomeSettings ==
  { [op |-> "setMode", value |-> "console"], [op |-> "setLevel", value |-> 0],
    [op |-> "setEnabled", value |-> FALSE] }

VARIABLE part

MCInit == part \in {"console", "logger"} /\ Init /\ LoggerInit

MCNext ==
  \/ part = "console" /\ Next /\ UNCHANGED <<part, loggerVars>>
  \/ part = "logger" /\ LoggerNext /\ UNCHANGED <<part, vars>>

MCSpec ==
  /\ MCInit /\ [][MCNext]_<<part, vars, loggerVars>>
  /\ Fairness
=============================================================================
