--------------------------- MODULE MCPublishRate ---------------------------
(* Model-checking instances of what a tick does: PublishRate and           *)
(* TurretControl share no variable, so a behaviour is one of either.       *)
EXTENDS PublishRate, TurretControl, TLC

\* A negative rate, none, two in range and one above the limit.
FiveRates == {-1, 0, 2, 3, 5}

\* A position alone; a velocity, which also changes the elevation; a stop with
\* a new position and a mode; and one whose velocity is ill-typed after a
\* position that is applied.
FiveMessages ==
  { Garbage,
    "drivingPosition" :> 12,
    ("roundAngleVelocity" :> 14) @@ ("upDownAngleVelocity" :> 3),
    ("drivingPosition" :> -7) @@ ("roundAngleVelocity" :> 0)
      @@ ("operationMode" :> {"EMERGENCY", "NORMAL"}),
    ("drivingPosition" :> 2) @@ ("roundAngleVelocity" :> ILL) }

\* A text without any JSON.
NoFields == [f \in {} |-> 0]

VARIABLE part

MCInit == part \in {"rate", "turret"} /\ Init /\ TurretInit

MCNext ==
  \/ part = "rate" /\ Next /\ UNCHANGED <<part, turretVars>>
  \/ part = "turret" /\ TurretNext /\ UNCHANGED <<part, vars>>

MCSpec ==
  /\ MCInit /\ [][MCNext]_<<part, vars, turretVars>>
  /\ TurretFairness
=============================================================================
