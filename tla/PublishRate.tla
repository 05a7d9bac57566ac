---------------------------- MODULE PublishRate ----------------------------
(***************************************************************************)
(* What a tick of demo_app_timer.c does with time: the publish periods the *)
(* operator sets, the windows of the statistics and the length of an IBIT; *)
(* and the component states the BIT messages carry, which the operator's   *)
(* faults change while the timer publishes.                                *)
(*                                                                         *)
(* A tick is one step.  The start and stop of the threads are the subject  *)
(* of DemoApp, the queue between timer and worker that of Publisher: here  *)
(* a signal event counts when the tick enqueues it.                        *)
(***************************************************************************)
EXTENDS Integers

CONSTANTS
  Second,      \* ticks in a statistics window; the highest rate (1000)
  IbitTicks,   \* ticks an IBIT takes (3000)
  SignalTicks, \* default period of the signal (5)
  CbitTicks,   \* default period of CBIT (1000)
  Width,       \* 2^64, the range of the tick counters
  Rates,       \* values of atoi the operator may type after set_hz
  Faults,      \* names the operator may type after fault_inject and fault_clear
  MaxTicks,    \* bound: ticks of a scenario
  MaxStarts,   \* bound: start_scenario calls
  MaxCommands  \* bound: other commands

ASSUME RateAssumption ==
  /\ Second \in Nat \ {0} /\ IbitTicks \in Nat
  /\ SignalTicks \in Nat \ {0} /\ CbitTicks \in Nat \ {0}
  /\ Rates \subseteq Int
  /\ MaxTicks \in Nat /\ MaxStarts \in Nat /\ MaxCommands \in Nat
  /\ Width \in Nat /\ MaxTicks + Second < Width

Topics == {"signal", "cbit", "pbit"}

VARIABLES
  state,     \* ctx->current_state: "PEND", "RUN" or "IBIT_RUNNING"
  tick,      \* tick_count
  last,      \* topic -> last_200hz_tick, last_1hz_tick
  period,    \* topic -> signal_period_ms, cbit_period_ms, pbit_period_ms
  count,     \* topic -> events published
  prev, hz,  \* topic -> the counts at the last window, and their difference
  statsLast, \* stats_last_tick
  ibitStart, \* ibit_start_time
  bits,      \* report -> the components it shows as ABNORMAL
  cli,       \* the fault command in progress: what is left of it
  starts,    \* start_scenario calls so far
  commands,  \* other commands so far
  quiet,     \* history: ticks of this scenario since a window closed
  sent,      \* history: topic -> events published in this scenario
  steady     \* history: no period was set and no IBIT ran in this scenario

timeVars  == <<state, tick, last, count, prev, hz, statsLast, ibitStart>>
histVars  == <<quiet, sent, steady>>
boundVars == <<starts, commands>>
vars == <<timeVars, period, bits, cli, boundVars, histVars>>

-----------------------------------------------------------------------------
(* Components and reports.                                                 *)

Reports == {"pbit", "cbit", "result"}

\* The components every report shows, and those that only CBIT shows.
Components ==
  { "upDownMotor", "roundMotor", "upDownAmp", "roundAmp", "baseGyro",
    "topForwardGyro", "vehicleForwardGyro", "powerController",
    "energyStorage", "directPower", "cableLoop" }

CbitOnly ==
  {"controllerNetwork", "upDownPark", "roundPark", "mainCannonLock", "commFault"}

\* What the three publish functions write of the components.
Content(r) ==
  [c \in IF r = "cbit" THEN Components \cup CbitOnly ELSE Components |->
     IF c \in bits[r] THEN "ABNORMAL" ELSE "NORMAL"]

\* The verdict demo_msg_publish_result_bit logs with the result.
HasFault == \E c \in Components : Content("result")[c] # "NORMAL"

\* The components that fault_inject marks, by the name typed.
Injects(f) ==
  CASE f \in {"azimuth", "round"} -> {"roundMotor", "roundAmp"}
    [] f = "updown"               -> {"upDownMotor", "upDownAmp"}
    [] f \in {"sensor", "Gyro"}   -> {"baseGyro", "vehicleForwardGyro"}
    [] f = "power"                -> {"powerController", "energyStorage", "directPower"}
    [] f = "motor"                -> {"roundMotor", "upDownMotor"}
    [] OTHER                      -> {}

\* fault_clear knows "all" and does not know "motor".
Clears(f) ==
  CASE f = "all"   -> Components
    [] f = "motor" -> {}
    [] OTHER       -> Injects(f)

-----------------------------------------------------------------------------
(* Plausible bugs, for the mutants PROJECT.json lists.                     *)

\* The elapsed ticks as a signed difference.
SinceSigned(t) == tick + 1 - t

\* One tick more than the period.
DueLate(p, t) == t > 0 /\ tick + 1 - last[p] > t

-----------------------------------------------------------------------------
(* Time.                                                                   *)

\* The new tick_count less an older one, unsigned.
Since(t) == IF tick + 1 >= t THEN tick + 1 - t ELSE Width + (tick + 1 - t)

\* demo_app_set_publish_hz: a negative number is a large unsigned one.
Period(n) ==
  IF n = 0 THEN 0
  ELSE IF n < 0 \/ n > Second THEN 1
  ELSE Second \div n

DefaultPeriods == [p \in Topics |->
  CASE p = "signal" -> SignalTicks [] p = "cbit" -> CbitTicks [] OTHER -> 0]

Zero == [p \in Topics |-> 0]

\* demo_app_context_init.
Init ==
  /\ state = "PEND"
  /\ tick = 0 /\ last = Zero /\ statsLast = 0 /\ ibitStart = 0
  /\ period = DefaultPeriods
  /\ count = Zero /\ prev = Zero /\ hz = Zero
  /\ bits = [r \in Reports |-> {}]
  /\ cli = {}
  /\ starts = 0 /\ commands = 0
  /\ quiet = 0 /\ sent = Zero /\ steady = TRUE

\* start_scenario: PBIT is published once, and demo_timer_init resets the tick
\* count and the publish times, but not the time of the last window.
Start ==
  /\ state = "PEND" /\ cli = {}
  /\ starts < MaxStarts
  /\ starts' = starts + 1
  /\ state' = "RUN"
  /\ tick' = 0 /\ last' = Zero
  /\ count' = [count EXCEPT !["pbit"] = @ + 1]
  /\ quiet' = 0 /\ sent' = Zero
  /\ steady' = TRUE
  /\ UNCHANGED <<period, prev, hz, statsLast, ibitStart, bits, cli, commands>>

\* stop_scenario.
Stop ==
  /\ state # "PEND" /\ cli = {}
  /\ state' = "PEND"
  /\ UNCHANGED <<tick, last, period, count, prev, hz, statsLast, ibitStart,
                 bits, cli, boundVars, histVars>>

\* The statistics, before anything is published by this tick.
Window ==
  IF Since(statsLast) >= Second
    THEN /\ hz' = [p \in Topics |-> count[p] - prev[p]]
         /\ prev' = count
         /\ statsLast' = tick + 1
         /\ quiet' = 0
    ELSE /\ UNCHANGED <<hz, prev, statsLast>>
         /\ quiet' = quiet + 1

\* The timer publishes p when its period t is not 0 and has gone by; the period
\* of PBIT is stored and looked at by nothing.
Due(p, t) == t > 0 /\ Since(last[p]) >= t
Published == {p \in {"signal", "cbit"} : state = "RUN" /\ Due(p, period[p])}

Publish(topics) ==
  /\ count' = [p \in Topics |-> IF p \in topics THEN count[p] + 1 ELSE count[p]]
  /\ sent'  = [p \in Topics |-> IF p \in topics THEN sent[p] + 1 ELSE sent[p]]
  /\ last'  = [p \in Topics |-> IF p \in topics THEN tick + 1 ELSE last[p]]

\* demo_timer_tick.  An IBIT that ends puts RUN back and publishes nothing else.
Tick ==
  /\ state # "PEND"
  /\ tick < MaxTicks
  /\ tick' = tick + 1
  /\ Window
  /\ Publish(Published)
  /\ state' = IF state = "IBIT_RUNNING" /\ Since(ibitStart) >= IbitTicks
              THEN "RUN" ELSE state
  /\ UNCHANGED <<period, ibitStart, bits, cli, boundVars, steady>>

\* demo_app_trigger_ibit, from the prompt or a runBIT event.
TriggerIbit ==
  /\ state = "RUN" /\ commands < MaxCommands
  /\ commands' = commands + 1
  /\ ibitStart' = tick
  /\ state' = "IBIT_RUNNING"
  /\ steady' = FALSE
  /\ UNCHANGED <<tick, last, period, count, prev, hz, statsLast, bits, cli,
                 starts, quiet, sent>>

-----------------------------------------------------------------------------
(* The operator's commands.                                                *)

Command ==
  /\ cli = {}
  /\ commands < MaxCommands
  /\ commands' = commands + 1

\* An unknown topic is refused and changes nothing.
SetHz(p, n) ==
  /\ Command
  /\ period' = [period EXCEPT ![p] = Period(n)]
  /\ steady' = FALSE
  /\ UNCHANGED <<timeVars, bits, cli, starts, quiet, sent>>

ResetHz ==
  /\ Command
  /\ period' = DefaultPeriods
  /\ steady' = FALSE
  /\ UNCHANGED <<timeVars, bits, cli, starts, quiet, sent>>

\* fault_inject and fault_clear: the three reports in turn, the timer running.
Fault(on, f) ==
  /\ Command
  /\ (IF on THEN Injects(f) ELSE Clears(f)) # {}
  /\ cli' = {[report |-> r, on |-> on, of |-> IF on THEN Injects(f) ELSE Clears(f)]
               : r \in Reports}
  /\ UNCHANGED <<timeVars, period, bits, starts, histVars>>

\* The components c of report r set to ABNORMAL, or to NORMAL.
SetBits(r, on, c) == [bits EXCEPT ![r] = IF on THEN @ \cup c ELSE @ \ c]

Order == [pbit |-> 1, cbit |-> 2, result |-> 3]

FaultStep ==
  \E s \in cli :
    /\ \A o \in cli : Order[s.report] <= Order[o.report]
    /\ bits' = SetBits(s.report, s.on, s.of)
    /\ cli' = cli \ {s}
    /\ UNCHANGED <<timeVars, period, boundVars, histVars>>

-----------------------------------------------------------------------------
\* The operator may leave it at that, and MaxTicks ends a scenario.
Rest ==
  /\ cli = {}
  /\ state = "PEND" \/ tick = MaxTicks
  /\ UNCHANGED vars

Next ==
  \/ Rest
  \/ Start \/ Stop \/ Tick \/ TriggerIbit
  \/ ResetHz \/ FaultStep
  \/ \E p \in Topics, n \in Rates : SetHz(p, n)
  \/ \E on \in BOOLEAN, f \in Faults : Fault(on, f)

Spec == Init /\ [][Next]_vars

-----------------------------------------------------------------------------
(* Properties.                                                             *)

TypeOK ==
  /\ state \in {"PEND", "RUN", "IBIT_RUNNING"}
  /\ tick \in 0 .. MaxTicks
  /\ last \in [Topics -> 0 .. MaxTicks]
  /\ period \in [Topics -> Nat]
  /\ count \in [Topics -> Nat] /\ prev \in [Topics -> Nat] /\ hz \in [Topics -> Int]
  /\ statsLast \in 0 .. MaxTicks
  /\ ibitStart \in 0 .. MaxTicks
  /\ bits \in [Reports -> SUBSET Components]
  /\ cli \subseteq [report : Reports, on : BOOLEAN, of : SUBSET Components]
  /\ starts \in Nat /\ commands \in Nat
  /\ quiet \in Nat
  /\ sent \in [Topics -> Nat]
  /\ steady \in BOOLEAN

\* The periods do not drift: in a scenario in which none was set and no IBIT
\* ran, exactly one signal and one CBIT were published per period gone by.
NoDrift ==
  steady /\ state = "RUN" =>
    \A p \in {"signal", "cbit"} :
      period[p] > 0 => sent[p] * period[p] <= tick /\ tick < (sent[p] + 1) * period[p]

\* While a scenario runs, the rates the status shows are renewed at least once
\* a second and a tick, whatever stats_last_tick an earlier scenario left.
Renewed == quiet <= Second

\* At the prompt the three reports agree on every component they share, and so
\* does the verdict of the IBIT, in whatever order faults with common
\* components were injected and cleared.
ReportsAgree ==
  cli = {} =>
    /\ \A r, s \in Reports, c \in Components : Content(r)[c] = Content(s)[c]
    /\ HasFault <=> bits["cbit"] # {}
=============================================================================
