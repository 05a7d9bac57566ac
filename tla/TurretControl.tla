--------------------------- MODULE TurretControl ---------------------------
(***************************************************************************)
(* The control loop of DemoApp.  Control messages arrive on the receive    *)
(* thread of the agent, which writes control_state field by field; the     *)
(* timer thread integrates the turret's angle from it once per tick        *)
(* (demo_timer_update_simulation); the publisher's worker, or the timer    *)
(* itself, reads signal_state for the Signal message.  No lock protects    *)
(* either structure, so every statement that reads or writes a field that  *)
(* another thread uses is a step.                                          *)
(*                                                                         *)
(* Angles and velocities are integers in a small unit.  That stands for    *)
(* the doubles of the structures as long as the angle is below about       *)
(* 2^43 degrees: an increment is then not lost in rounding, which is what  *)
(* TurretAssumption asks of the unit.  The time stamps of the last update  *)
(* are left out.                                                           *)
(***************************************************************************)
EXTENDS Integers, Sequences

CONSTANTS
  TicksPerSecond,  \* 1 / dt (1000)
  Tolerance,       \* the position error that is left alone (0.01)
  VelocityLimit,   \* of position control (10.0)
  VelocityMax,     \* what is published of the velocity (450.0)
  AzimuthMax,      \* the same for the azimuth (800.0)
  GyroMax,         \* the same for the gyros (655.0)
  ControlMessages, \* control messages: field name -> value, or ILL
  Garbage,         \* the one that is no JSON object
  ILL,             \* a JSON value of another type than the field's
  MaxInputs,       \* bound: messages received and faults changed
  MaxDriven,       \* bound: ticks under a velocity command
  MaxScenarios     \* bound: scenarios started

-----------------------------------------------------------------------------
(* Enumerations.  A text is the set of the words that strstr finds in it.  *)

\* The enumerators of a field in the order the parser looks for them.
Searched ==
  [ operationMode        |-> <<"EMERGENCY", "MANUAL", "NORMAL">>,
    parm                 |-> <<"ON", "OFF">>,
    targetDesingation    |-> <<"ALLOT", "ETC">>,
    autoArmPosition      |-> <<"LOCK", "RELEASE">>,
    manualArmPosition    |-> <<"LOCK", "RELEASE">>,
    mainCannonRestore    |-> <<"COMMAND", "RELEASE">>,
    manCannonFix         |-> <<"COMMAND", "RELEASE">>,
    closeEquipOpenStatus |-> <<"OPEN", "LOCK">> ]

\* What a text with none of them is taken for.
Otherwise ==
  [ operationMode |-> "NORMAL", parm |-> "OFF", targetDesingation |-> "ALLOT",
    autoArmPosition |-> "RELEASE", manualArmPosition |-> "RELEASE",
    mainCannonRestore |-> "RELEASE", manCannonFix |-> "RELEASE",
    closeEquipOpenStatus |-> "LOCK" ]

Parse(field, text) ==
  LET found == {i \in DOMAIN Searched[field] : Searched[field][i] \in text}
  IN  IF found = {} THEN Otherwise[field]
      ELSE Searched[field][CHOOSE i \in found : \A k \in found : i <= k]

Enumerators(field) == {Searched[field][i] : i \in DOMAIN Searched[field]}

\* The status fields of Signal and what the schema calls their enumerators.
SchemaName ==
  [ energyStorage       |-> [NORMAL |-> "NORMAL", DISCHARGE |-> "DISCHARGE"],
    mainCannonFixStatus |-> [NORMAL |-> "RELEASE", FIX |-> "FIX"],
    deckClearance       |-> [OUTSIDE |-> "OUT_OF_DECK", RUNNING |-> "IN_DECK"],
    autoArmPositionComplement   |-> [NORMAL |-> "DRIVING", MANUAL |-> "DONE"],
    manualArmPositionComple     |-> [NORMAL |-> "DRIVING", MANUAL |-> "DONE"],
    mainCannonRestoreComplement |-> [RUNNING |-> "DRIVING", COMPLETE |-> "DONE"],
    armSafetyMainCannonLock     |-> [NORMAL |-> "NORMAL", COMPLETE |-> "LOCKED"],
    shutdown            |-> [UNKNOWN |-> "UNKNOWN", SHUTDOWN |-> "SHUTDOWN"] ]

Statuses == DOMAIN SchemaName

-----------------------------------------------------------------------------
(* State.                                                                  *)

\* The fields in the order the receive thread writes them.
FloatFields ==
  << "drivingPosition", "upDownPosition", "roundAngleVelocity",
     "upDownAngleVelocity", "cannonUpDownAngle", "topRelativeAngle" >>

EnumFields ==
  << "operationMode", "parm", "targetDesingation", "autoArmPosition",
     "manualArmPosition", "mainCannonRestore", "manCannonFix",
     "closeEquipOpenStatus" >>

Fields == FloatFields \o EnumFields

\* The limit of the velocity is a multiple of what the gyros are rounded to, as 10.0
\* is one of 0.02, and a message gives numbers, or what is refused, to the numbers.
ASSUME TurretAssumption ==
  /\ TicksPerSecond \in Nat \ {0}
  /\ Tolerance \in Nat /\ Tolerance >= TicksPerSecond
  /\ VelocityLimit \in Nat /\ VelocityLimit >= TicksPerSecond /\ VelocityLimit % 2 = 0
  /\ VelocityMax \in Nat /\ AzimuthMax \in Nat /\ GyroMax \in Nat
  /\ MaxInputs \in Nat /\ MaxDriven \in Nat /\ MaxScenarios \in Nat
  /\ \A m \in ControlMessages :
       /\ DOMAIN m \subseteq {Fields[i] : i \in DOMAIN Fields}
       /\ \A f \in DOMAIN m \ DOMAIN Searched : m[f] \in Int \cup {ILL}

VARIABLES
  control, \* ctx->control_state
  signal,  \* ctx->signal_state
  speed,   \* ctx->speed_state.speed
  rxCount, \* control_rx_count and speed_rx_count
  inRun,   \* current_state is RUN, so a tick simulates
  faulty,  \* the components of pbit_components that are ABNORMAL
  rxBusy,  \* the receive thread is inside demo_msg_on_actuator_control
  rxLeft,  \* the fields of its message that are left
  sim,     \* the timer thread: the statement it is at
  pub,     \* the publisher: the field it reads next
  draft,   \* the publisher: the fields of the message it builds
  inputs, driven, scenarios, \* what the bounds count
  positions, \* history: positions that were ever in drivingPosition
  posOnly    \* history: roundAngleVelocity was never anything but 0

turretState == <<control, signal, speed, rxCount, inRun, faulty>>
turretBounds == <<inputs, driven, scenarios>>
turretHist == <<positions, posOnly>>
pubVars == <<pub, draft>>
turretVars ==
  <<turretState, rxBusy, rxLeft, sim, pubVars, turretBounds, turretHist>>

\* demo_app_context_init; the enumerators that are not named there are their 0.
InitialControl ==
  [f \in {Fields[i] : i \in DOMAIN Fields} |->
    CASE f \in {FloatFields[i] : i \in DOMAIN FloatFields} -> 0
      [] f = "operationMode"        -> "NORMAL"
      [] f = "parm"                 -> "OFF"
      [] f = "targetDesingation"    -> "ETC"
      [] f = "closeEquipOpenStatus" -> "LOCK"
      [] OTHER                      -> "RELEASE"]

\* The statuses that are the same at the start and after every tick.
Unchanging ==
  [ deckClearance |-> "OUTSIDE", autoArmPositionComplement |-> "NORMAL",
    manualArmPositionComple |-> "NORMAL", mainCannonRestoreComplement |-> "RUNNING",
    armSafetyMainCannonLock |-> "NORMAL", shutdown |-> "UNKNOWN" ]

\* f, and what g has besides.
Over(f, g) ==
  [x \in DOMAIN f \cup DOMAIN g |-> IF x \in DOMAIN f THEN f[x] ELSE g[x]]

InitialSignal ==
  Over(Unchanging,
       [ azAngle |-> 0, e1AngleVelocity |-> 0, roundGyro |-> 0, upDownGyro |-> 0,
         energyStorage |-> "NORMAL", mainCannonFixStatus |-> "NORMAL" ])

TurretInit ==
  /\ control = InitialControl
  /\ signal = InitialSignal
  /\ speed = 0
  /\ rxCount = [control |-> 0, speed |-> 0]
  /\ inRun = FALSE
  /\ faulty = {}
  /\ rxBusy = FALSE /\ rxLeft = <<>>
  /\ sim = "wait"
  /\ pub = "idle" /\ draft = <<>>
  /\ inputs = 0 /\ driven = 0 /\ scenarios = 0
  /\ positions = {0}
  /\ posOnly = TRUE

-----------------------------------------------------------------------------
(* The receive thread.                                                     *)

Receive ==
  /\ ~rxBusy /\ inputs < MaxInputs
  /\ inputs' = inputs + 1

\* demo_msg_on_actuator_control up to the parse: the message is counted here and
\* once more at its end.  A text that is no JSON object is counted once.
OnActuatorControl(m) ==
  /\ Receive
  /\ rxCount' = [rxCount EXCEPT !.control = @ + 1]
  /\ rxBusy' = (m # Garbage)
  /\ rxLeft' = m
  /\ UNCHANGED <<control, signal, speed, inRun, faulty, sim, pubVars, driven,
                 scenarios, turretHist>>

\* The first field that is left.
NextField(m) ==
  Fields[CHOOSE i \in DOMAIN Fields :
           /\ Fields[i] \in DOMAIN m
           /\ \A k \in 1 .. i - 1 : Fields[k] \notin DOMAIN m]

Converted(f, v) == IF f \in DOMAIN Searched THEN Parse(f, v) ELSE v

\* One field.
WriteField ==
  /\ rxBusy /\ DOMAIN rxLeft # {}
  /\ LET f == NextField(rxLeft)
         v == rxLeft[f]
     IN  /\ v # ILL
         /\ control' = [control EXCEPT ![f] = Converted(f, v)]
         /\ rxLeft' = [g \in DOMAIN rxLeft \ {f} |-> rxLeft[g]]
         /\ positions' = IF f = "drivingPosition" THEN positions \cup {v} ELSE positions
         /\ posOnly' = (posOnly /\ (f = "roundAngleVelocity" => v = 0))
  /\ UNCHANGED <<signal, speed, rxCount, inRun, faulty, rxBusy, sim, pubVars,
                 turretBounds>>

\* A value of another type throws: the fields that were written stay.
RefuseField ==
  /\ rxBusy /\ DOMAIN rxLeft # {}
  /\ rxLeft[NextField(rxLeft)] = ILL
  /\ rxBusy' = FALSE /\ rxLeft' = <<>>
  /\ UNCHANGED <<turretState, sim, pubVars, turretBounds, turretHist>>

EndOfControl ==
  /\ rxBusy /\ DOMAIN rxLeft = {}
  /\ rxBusy' = FALSE
  /\ rxCount' = [rxCount EXCEPT !.control = @ + 1]
  /\ UNCHANGED <<control, signal, speed, inRun, faulty, rxLeft, sim, pubVars,
                 turretBounds, turretHist>>

\* demo_msg_on_vehicle_speed: an ill-typed value changes nothing.
OnVehicleSpeed(v) ==
  /\ Receive
  /\ IF v = ILL
       THEN UNCHANGED <<speed, rxCount>>
       ELSE /\ speed' = v
            /\ rxCount' = [rxCount EXCEPT !.speed = @ + 1]
  /\ UNCHANGED <<control, signal, inRun, faulty, rxBusy, rxLeft, sim, pubVars,
                 driven, scenarios, turretHist>>

-----------------------------------------------------------------------------
(* Plausible bugs, for the mutants PROJECT.json lists.                     *)

\* The velocity of position control is not limited.
Unlimited(v) == v

\* Only a position ahead of the turret counts as away from it.
AheadOnly(error) == error > Tolerance

-----------------------------------------------------------------------------
(* The timer thread: demo_timer_update_simulation, which a tick in RUN      *)
(* calls before it publishes.                                              *)

Abs(x) == IF x < 0 THEN -x ELSE x

\* v clamped to the range -max .. max.
Clamp(v, max) == IF v > max THEN max ELSE IF v < -max THEN -max ELSE v

\* v * dt, rounded towards 0.
Increment(v) == IF v < 0 THEN -((-v) \div TicksPerSecond) ELSE v \div TicksPerSecond

\* The position error that position control acts on.
Away(error) == Abs(error) > Tolerance

\* What position control makes of its velocity in a statement of its own.
Limited(v) == Clamp(v, VelocityLimit)

SimStep(from) ==
  /\ sim = from
  /\ UNCHANGED <<control, speed, rxCount, inRun, faulty, rxBusy, rxLeft, pubVars,
                 inputs, scenarios, turretHist>>

\* The test for a velocity command.
SimTest ==
  /\ SimStep("wait") /\ inRun
  /\ IF control.roundAngleVelocity # 0
       THEN driven < MaxDriven /\ driven' = driven + 1 /\ sim' = "velocity"
       ELSE UNCHANGED driven /\ sim' = "position"
  /\ UNCHANGED signal

\* The command is read a second time.
SimVelocity ==
  /\ SimStep("velocity")
  /\ signal' = [signal EXCEPT !.e1AngleVelocity = control.roundAngleVelocity]
  /\ sim' = "move"
  /\ UNCHANGED driven

SimPosition ==
  /\ SimStep("position")
  /\ LET error == control.drivingPosition - signal.azAngle
     IN  IF Away(error)
           THEN /\ signal' = [signal EXCEPT !.e1AngleVelocity = error]
                /\ sim' = "limit"
           ELSE /\ signal' = [signal EXCEPT !.e1AngleVelocity = 0]
                /\ sim' = "gyro"
  /\ UNCHANGED driven

SimLimit ==
  /\ SimStep("limit")
  /\ signal' = [signal EXCEPT !.e1AngleVelocity = Limited(@)]
  /\ sim' = "move"
  /\ UNCHANGED driven

SimMove ==
  /\ SimStep("move")
  /\ signal' = [signal EXCEPT !.azAngle = @ + Increment(signal.e1AngleVelocity)]
  /\ sim' = "gyro"
  /\ UNCHANGED driven

\* A component in order shows as DISCHARGE and FIX, a faulty one as NORMAL.
SimGyro ==
  /\ SimStep("gyro")
  /\ signal' = Over(Unchanging, [signal EXCEPT
       !.roundGyro  = signal.e1AngleVelocity,
       !.upDownGyro = control.upDownAngleVelocity,
       !.energyStorage = IF "energyStorage" \in faulty THEN "NORMAL" ELSE "DISCHARGE",
       !.mainCannonFixStatus = IF "roundMotor" \in faulty THEN "NORMAL" ELSE "FIX"])
  /\ sim' = "wait"
  /\ UNCHANGED driven

Simulation ==
  \/ SimTest \/ SimVelocity \/ SimPosition \/ SimLimit \/ SimMove \/ SimGyro

-----------------------------------------------------------------------------
(* The publisher: demo_msg_publish_actuator_signal on the worker thread.    *)

\* round(v / quantum) * quantum, halves away from 0, of the clamped v.
Quantized(v, max, quantum) ==
  LET c == Abs(Clamp(v, max))
      q == ((2 * c + quantum) \div (2 * quantum)) * quantum
  IN  IF v < 0 THEN -q ELSE q

PubStep(from, to) ==
  /\ pub = from /\ pub' = to
  /\ UNCHANGED <<turretState, rxBusy, rxLeft, sim, turretBounds, turretHist>>

\* e1AngleVelocity is read for the field A_azAngleVelocity as well.
PubAzimuth ==
  /\ PubStep("idle", "elevation") /\ scenarios > 0
  /\ draft' = [azAngleVelocity |-> Quantized(signal.e1AngleVelocity, AzimuthMax, 1)]

PubElevation ==
  /\ PubStep("elevation", "gyros")
  /\ draft' = Over([e1AngleVelocity |-> Quantized(signal.e1AngleVelocity, VelocityMax, 1)], draft)

PubGyros ==
  /\ PubStep("gyros", "write")
  /\ draft' =
       Over([ roundGyro  |-> Quantized(signal.roundGyro, GyroMax, 2),
              upDownGyro |-> Quantized(signal.upDownGyro, GyroMax, 2) ],
            Over([f \in Statuses |-> SchemaName[f][signal[f]]], draft))

\* legacy_agent_write_json is given the message.
PubWrite == PubStep("write", "idle") /\ draft' = <<>>

-----------------------------------------------------------------------------
(* The operator.                                                           *)

Operate ==
  UNCHANGED <<control, signal, speed, rxCount, rxBusy, rxLeft, sim, pubVars,
              driven, turretHist>>

\* start_scenario; the structures keep what the last scenario left.
StartScenario ==
  /\ Operate /\ UNCHANGED inputs
  /\ ~inRun /\ scenarios < MaxScenarios
  /\ inRun' = TRUE
  /\ scenarios' = scenarios + 1
  /\ UNCHANGED faulty

\* stop_scenario waits for the tick in progress.
StopScenario ==
  /\ Operate /\ UNCHANGED inputs
  /\ inRun /\ sim = "wait"
  /\ inRun' = FALSE
  /\ UNCHANGED <<faulty, scenarios>>

\* A fault injected or cleared.
ChangeFault(c) ==
  /\ inputs < MaxInputs /\ inputs' = inputs + 1
  /\ Operate
  /\ faulty' = IF c \in faulty THEN faulty \ {c} ELSE faulty \cup {c}
  /\ UNCHANGED <<inRun, scenarios>>

-----------------------------------------------------------------------------
TurretNext ==
  \/ \E m \in ControlMessages : OnActuatorControl(m)
  \/ \E v \in {1, ILL} : OnVehicleSpeed(v)
  \/ WriteField \/ RefuseField \/ EndOfControl
  \/ Simulation
  \/ PubAzimuth \/ PubElevation \/ PubGyros \/ PubWrite
  \/ StartScenario \/ StopScenario
  \/ \E c \in {"energyStorage", "roundMotor"} : ChangeFault(c)

\* The timer thread goes on ticking.
TurretFairness == WF_turretVars(Simulation)

TurretSpec == TurretInit /\ [][TurretNext]_turretVars /\ TurretFairness

-----------------------------------------------------------------------------
(* Properties.                                                             *)

TurretTypeOK ==
  /\ DOMAIN control = {Fields[i] : i \in DOMAIN Fields}
  /\ \A f \in DOMAIN Searched : control[f] \in Enumerators(f)
  /\ {signal.azAngle, signal.e1AngleVelocity, signal.roundGyro, signal.upDownGyro} \subseteq Int
  /\ \A f \in Statuses : signal[f] \in DOMAIN SchemaName[f]
  /\ rxBusy \in BOOLEAN /\ inRun \in BOOLEAN /\ posOnly \in BOOLEAN
  /\ DOMAIN rxLeft \subseteq DOMAIN control
  /\ sim \in {"wait", "velocity", "position", "limit", "move", "gyro"}
  /\ pub \in {"idle", "elevation", "gyros", "write"}

\* As long as only positions are commanded, the turret stays between the
\* positions it was sent to, and no Signal shows a gyro above the limit of the
\* velocity, although the timer leaves the velocity unlimited for a statement,
\* messages arrive field by field during a tick, and the publisher reads at any
\* time.
PositionControl ==
  posOnly =>
    /\ \E a, b \in positions : a <= signal.azAngle /\ signal.azAngle <= b
    /\ pub = "write" => Abs(draft.roundGyro) <= VelocityLimit

\* When the commands stop changing, no velocity is commanded and the scenario
\* goes on, the turret comes to rest at the commanded position, whatever was
\* commanded before and wherever between two fields the messages stopped.
Settles ==
  \A p \in {m["drivingPosition"] : m \in {n \in ControlMessages : "drivingPosition" \in DOMAIN n}} \ {ILL} :
    <>[](inRun /\ control.roundAngleVelocity = 0 /\ control.drivingPosition = p)
      => <>[](/\ Abs(p - signal.azAngle) <= Tolerance
              /\ signal.e1AngleVelocity = 0 /\ signal.roundGyro = 0)
=============================================================================
