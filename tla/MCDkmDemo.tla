------------------------------ MODULE MCDkmDemo ------------------------------
(* Model-checking instances of DkmDemo and of ExampleCli, which share no   *)
(* variable: a behaviour is one of either.                                 *)
EXTENDS DkmDemo, ExampleCli

CONSTANTS f1, f2

TwoFiles == {f1, f2}

VARIABLE part

MCInit == part \in {"dkm", "example"} /\ Init /\ ExampleInit

MCNext ==
  \/ part = "dkm" /\ Next /\ UNCHANGED <<part, exampleVars>>
  \/ part = "example" /\ ExampleNext /\ UNCHANGED <<part, vars>>

MCSpec ==
  /\ MCInit /\ [][MCNext]_<<part, vars, exampleVars>>
  /\ Fairness
=============================================================================
