------------------------------ MODULE TickProofs ------------------------------
(***************************************************************************)
(* Theorems about what a tick does.  First PublishRate, for every length   *)
(* of a second, of a period and of an IBIT, every width of the counters    *)
(* that exceeds a scenario by a second, and any rates, faults and number   *)
(* of commands.  Then TurretControl, for any messages, positions,          *)
(* velocities, limits and tick lengths.                                    *)
(***************************************************************************)
EXTENDS PublishRate, TurretControl, SequenceTheorems, WellFoundedInduction, TLAPS

Periodic == {"signal", "cbit"}

\* No publish time lies ahead of the clock, so that the unsigned difference of
\* the two is their difference.
NotAhead == \A p \in Topics : last[p] <= tick

\* In a scenario that nobody disturbed, a topic was last published at a multiple
\* of its period, less than a period ago.
OnTime ==
  steady =>
    /\ state # "IBIT_RUNNING"
    /\ \A p \in Periodic :
         period[p] > 0 => last[p] = sent[p] * period[p] /\ tick < last[p] + period[p]

\* The last window is less than a second old, or belongs to an earlier scenario
\* and ends with the first tick of this one.
WindowOpen ==
  \/ statsLast <= tick /\ tick < statsLast + Second /\ quiet <= tick + 1 - statsLast
  \/ tick < statsLast /\ tick = 0 /\ quiet = 0

\* Component c is, or will be when the command in progress has ended, a fault in
\* report r.
WillShow(r, c) ==
  \/ c \in bits[r] /\ ~\E s \in cli : s.report = r /\ c \in s.of
  \/ \E s \in cli : s.report = r /\ c \in s.of /\ s.on

\* The reports will agree: what is left of a command sets or clears the same
\* components in each of them, once.
WillAgree ==
  /\ \A s, t \in cli : s.on = t.on /\ s.of = t.of
  /\ \A r, s \in Reports, c \in Components : WillShow(r, c) <=> WillShow(s, c)

IndInv == TypeOK /\ NotAhead /\ OnTime /\ WindowOpen /\ WillAgree

-----------------------------------------------------------------------------
\* The period that set_hz stores is a number of ticks.
LEMMA PeriodType == \A n \in Rates : Period(n) \in Nat
  BY RateAssumption DEF Period

\* A command names components only.
LEMMA FaultTypes == \A f : Injects(f) \subseteq Components /\ Clears(f) \subseteq Components
  BY DEF Injects, Clears, Components

\* Types hold initially.
LEMMA InitTypeOK == Init => TypeOK
  BY RateAssumption DEF Init, TypeOK, Zero, DefaultPeriods, Topics

\* What a tick publishes has the types of the counters.
LEMMA PublishType ==
  ASSUME TypeOK, NEW topics, Publish(topics), tick < MaxTicks
  PROVE  count' \in [Topics -> Nat] /\ sent' \in [Topics -> Nat] /\ last' \in [Topics -> 0 .. MaxTicks]
  BY RateAssumption DEF TypeOK, Publish

\* So do the windows.
LEMMA WindowType ==
  ASSUME TypeOK, Window, tick < MaxTicks
  PROVE  /\ hz' \in [Topics -> Int] /\ prev' \in [Topics -> Nat]
         /\ statsLast' \in 0 .. MaxTicks /\ quiet' \in Nat
<1>1. CASE Since(statsLast) >= Second
  BY <1>1, RateAssumption DEF TypeOK, Window
<1>2. CASE ~(Since(statsLast) >= Second)
  BY <1>2, RateAssumption DEF TypeOK, Window
<1> QED
  BY <1>1, <1>2

\* Every step keeps the types.
LEMMA TypeStep == TypeOK /\ [Next]_vars => TypeOK'
<1> SUFFICES ASSUME TypeOK, [Next]_vars PROVE TypeOK'
  OBVIOUS
<1> USE RateAssumption
<1>1. CASE Start
  BY <1>1 DEF Start, TypeOK, Zero, Topics
<1>2. CASE Stop
  BY <1>2 DEF Stop, TypeOK, boundVars, histVars
<1>3. CASE Tick
  <2>1. tick < MaxTicks /\ Window /\ Publish(Published)
    BY <1>3 DEF Tick
  <2>2. tick' \in 0 .. MaxTicks /\ state' \in {"PEND", "RUN", "IBIT_RUNNING"}
    BY <1>3 DEF Tick, TypeOK
  <2> QED
    BY <1>3, <2>1, <2>2, PublishType, WindowType DEF Tick, TypeOK, boundVars
<1>4. CASE TriggerIbit
  <2>1. steady' \in BOOLEAN
    BY <1>4 DEF TriggerIbit
  <2>2. ibitStart' \in 0 .. MaxTicks /\ commands' \in Nat
    BY <1>4 DEF TriggerIbit, TypeOK
  <2> QED
    BY <1>4, <2>1, <2>2 DEF TriggerIbit, TypeOK
<1>5. ASSUME NEW p \in Topics, NEW n \in Rates, SetHz(p, n) PROVE TypeOK'
  <2>1. steady' \in BOOLEAN
    BY <1>5 DEF SetHz
  <2>2. period' \in [Topics -> Nat] /\ commands' \in Nat
    BY <1>5, PeriodType DEF SetHz, Command, TypeOK
  <2> QED
    BY <1>5, <2>1, <2>2 DEF SetHz, TypeOK, timeVars
<1>6. CASE ResetHz
  <2>1. steady' \in BOOLEAN
    BY <1>6 DEF ResetHz
  <2>2. period' \in [Topics -> Nat] /\ commands' \in Nat
    BY <1>6 DEF ResetHz, Command, TypeOK, DefaultPeriods
  <2> QED
    BY <1>6, <2>1, <2>2 DEF ResetHz, TypeOK, timeVars
<1>7. ASSUME NEW on \in BOOLEAN, NEW f \in Faults, Fault(on, f) PROVE TypeOK'
  BY <1>7, FaultTypes DEF Fault, Command, TypeOK, timeVars, histVars
<1>8. CASE FaultStep
  <2>1. PICK s \in cli : bits' = SetBits(s.report, s.on, s.of) /\ cli' = cli \ {s}
    BY <1>8 DEF FaultStep
  <2>2. bits' \in [Reports -> SUBSET Components]
    BY <2>1 DEF TypeOK, SetBits
  <2> QED
    BY <1>8, <2>1, <2>2 DEF FaultStep, TypeOK, timeVars, boundVars, histVars
<1>9. CASE UNCHANGED vars
  BY <1>9 DEF vars, timeVars, boundVars, histVars, TypeOK
<1> QED
  BY <1>1, <1>2, <1>3, <1>4, <1>5, <1>6, <1>7, <1>8, <1>9 DEF Next, Rest

-----------------------------------------------------------------------------
\* The unsigned difference, for a time that is not ahead.
LEMMA SinceBehind ==
  ASSUME NEW t \in Nat, tick \in Nat, t <= tick + 1
  PROVE  Since(t) = tick + 1 - t
  BY DEF Since

\* Only a tick and a start move the clock and the publish times.
LEMMA NotAheadStep == TypeOK /\ NotAhead /\ [Next]_vars => NotAhead'
<1> SUFFICES ASSUME TypeOK, NotAhead, [Next]_vars PROVE NotAhead'
  OBVIOUS
<1>1. CASE Start
  BY <1>1 DEF Start, NotAhead, TypeOK, Zero
<1>2. CASE Tick
  BY <1>2 DEF Tick, Publish, NotAhead, TypeOK
<1>3. CASE ~Start /\ ~Tick
  <2>1. UNCHANGED <<tick, last>>
    BY <1>3 DEF Next, Rest, Stop, TriggerIbit, SetHz, ResetHz, Fault, FaultStep, vars, timeVars
  <2> QED
    BY <2>1 DEF NotAhead
<1> QED
  BY <1>1, <1>2, <1>3

\* One more period is one more publication.
LEMMA OneMore == \A s, t \in Nat : (s + 1) * t = s * t + t
  BY SMT

\* A tick publishes a topic exactly when its period is full.
LEMMA OnTimeTick ==
  ASSUME TypeOK, NotAhead, OnTime, Tick
  PROVE  OnTime'
<1> SUFFICES ASSUME steady
             PROVE  /\ state' # "IBIT_RUNNING"
                    /\ \A p \in Periodic : period'[p] > 0 =>
                         last'[p] = sent'[p] * period'[p] /\ tick' < last'[p] + period'[p]
  BY DEF OnTime, Tick
<1>1. state = "RUN" /\ state' = "RUN"
  BY DEF OnTime, Tick, TypeOK
<1>2. ASSUME NEW p \in Periodic, period'[p] > 0
      PROVE  last'[p] = sent'[p] * period'[p] /\ tick' < last'[p] + period'[p]
  <2> DEFINE t == period[p]
  <2>1. /\ t \in Nat \ {0} /\ period'[p] = t /\ tick' = tick + 1 /\ p \in Topics
        /\ tick \in Nat /\ last[p] \in Nat /\ sent[p] \in Nat
    BY <1>2 DEF Tick, TypeOK, Periodic, Topics
  <2>2. last[p] = sent[p] * t /\ tick < last[p] + t /\ last[p] <= tick
    BY <1>2, <2>1 DEF OnTime, NotAhead
  <2>3. Since(last[p]) = tick + 1 - last[p]
    BY <2>1, <2>2, SinceBehind
  <2>4. p \in Published <=> tick + 1 - last[p] >= t
    BY <1>1, <2>1, <2>3 DEF Published, Due, Periodic
  <2>5. CASE p \in Published
    <3>1. last'[p] = tick + 1 /\ sent'[p] = sent[p] + 1
      BY <2>1, <2>5 DEF Tick, Publish
    <3>2. tick + 1 = last[p] + t
      BY <2>1, <2>2, <2>4, <2>5
    <3>3. (sent[p] + 1) * t = sent[p] * t + t
      BY <2>1, OneMore
    <3> QED
      BY <2>1, <2>2, <3>1, <3>2, <3>3
  <2>6. CASE p \notin Published
    <3>1. last'[p] = last[p] /\ sent'[p] = sent[p]
      BY <2>1, <2>6 DEF Tick, Publish
    <3> QED
      BY <2>1, <2>2, <2>4, <2>6, <3>1
  <2> QED
    BY <2>5, <2>6
<1> QED
  BY <1>1, <1>2

\* Nothing else disturbs a scenario without ending the claim about it.
LEMMA OnTimeStep == TypeOK /\ NotAhead /\ OnTime /\ [Next]_vars => OnTime'
<1> SUFFICES ASSUME TypeOK, NotAhead, OnTime, [Next]_vars PROVE OnTime'
  OBVIOUS
<1>1. CASE Start
  <2>1. \A p \in Periodic : last'[p] = 0 /\ sent'[p] = 0 /\ period'[p] \in Nat
    BY <1>1 DEF Start, Zero, Topics, Periodic, TypeOK
  <2>2. tick' = 0 /\ state' = "RUN"
    BY <1>1 DEF Start
  <2> QED
    BY <2>1, <2>2 DEF OnTime
<1>2. CASE Tick
  BY <1>2, OnTimeTick
<1>3. CASE Stop
  BY <1>3 DEF Stop, OnTime, histVars
<1>4. CASE TriggerIbit \/ ResetHz \/ \E p \in Topics, n \in Rates : SetHz(p, n)
  BY <1>4 DEF TriggerIbit, ResetHz, SetHz, OnTime
<1>5. CASE FaultStep \/ Rest \/ UNCHANGED vars \/ \E on \in BOOLEAN, f \in Faults : Fault(on, f)
  <2>1. UNCHANGED <<steady, state, period, last, sent, tick>>
    BY <1>5 DEF FaultStep, Rest, Fault, vars, timeVars, histVars
  <2> QED
    BY <2>1 DEF OnTime
<1> QED
  BY <1>1, <1>2, <1>3, <1>4, <1>5 DEF Next

\* The window that an earlier scenario left ends at once, since the difference
\* wraps; any other one is a second long.
LEMMA WindowStep == TypeOK /\ WindowOpen /\ [Next]_vars => WindowOpen'
<1> SUFFICES ASSUME TypeOK, WindowOpen, [Next]_vars PROVE WindowOpen'
  OBVIOUS
<1> USE RateAssumption
<1>1. CASE Start
  BY <1>1 DEF Start, WindowOpen, TypeOK
<1>2. CASE Tick
  <2>1. /\ tick' = tick + 1 /\ Window /\ tick \in Nat /\ statsLast \in Nat /\ quiet \in Nat
        /\ statsLast <= MaxTicks
    BY <1>2 DEF Tick, TypeOK
  <2>2. CASE Since(statsLast) >= Second
    BY <2>1, <2>2 DEF Window, WindowOpen
  <2>3. CASE ~(Since(statsLast) >= Second)
    <3>1. statsLast' = statsLast /\ quiet' = quiet + 1
      BY <2>1, <2>3 DEF Window
    <3>2. statsLast <= tick + 1
      BY <2>1, <2>3 DEF Since, WindowOpen
    <3>3. tick + 1 - statsLast < Second
      BY <2>1, <2>3, <3>2, SinceBehind
    <3> QED
      BY <2>1, <3>1, <3>2, <3>3 DEF WindowOpen
  <2> QED
    BY <2>2, <2>3
<1>3. CASE ~Start /\ ~Tick
  <2>1. UNCHANGED <<tick, statsLast, quiet>>
    BY <1>3 DEF Next, Rest, Stop, TriggerIbit, SetHz, ResetHz, Fault, FaultStep, vars, timeVars,
                histVars
  <2> QED
    BY <2>1 DEF WindowOpen
<1> QED
  BY <1>1, <1>2, <1>3

-----------------------------------------------------------------------------
\* A command is taken at the prompt, where the reports agree, and will do the same
\* to each of them.
LEMMA FaultAgrees ==
  ASSUME TypeOK, WillAgree, NEW on \in BOOLEAN, NEW f \in Faults, Fault(on, f)
  PROVE  WillAgree'
<1> DEFINE names == IF on THEN Injects(f) ELSE Clears(f)
<1>1. cli = {} /\ cli' = {[report |-> r, on |-> on, of |-> names] : r \in Reports} /\ bits' = bits
  BY DEF Fault, Command
<1>2. \A s \in cli' : s.on = on /\ s.of = names /\ s.report \in Reports
  BY <1>1
<1>3. ASSUME NEW r \in Reports PROVE \E s \in cli' : s.report = r /\ s.on = on /\ s.of = names
  <2> HIDE DEF names
  <2>1. [report |-> r, on |-> on, of |-> names] \in cli'
    BY <1>1
  <2> QED
    BY <2>1
<1>4. \A r \in Reports, c \in Components : WillShow(r, c) <=> c \in bits[r]
  BY <1>1 DEF WillShow
<1>5. \A r \in Reports, c \in Components :
        WillShow(r, c)' <=> IF c \in names THEN on ELSE c \in bits[r]
  <2> HIDE DEF names
  <2> QED
    BY <1>1, <1>2, <1>3 DEF WillShow
<1> QED
  BY <1>2, <1>4, <1>5 DEF WillAgree

\* A step of it changes one report into what it was to become.
LEMMA FaultStepAgrees ==
  ASSUME TypeOK, WillAgree, FaultStep
  PROVE  WillAgree'
<1>1. PICK s \in cli : bits' = SetBits(s.report, s.on, s.of) /\ cli' = cli \ {s}
  BY DEF FaultStep
<1>2. /\ s.report \in Reports /\ s.on \in BOOLEAN /\ s.of \subseteq Components
      /\ s = [report |-> s.report, on |-> s.on, of |-> s.of]
  BY <1>1 DEF TypeOK
<1>3. \A t \in cli : t.report = s.report => t = s
  <2> TAKE t \in cli
  <2>1. t = [report |-> t.report, on |-> t.on, of |-> t.of]
    BY DEF TypeOK
  <2>2. t.on = s.on /\ t.of = s.of
    BY <1>1 DEF WillAgree
  <2> QED
    BY <1>2, <2>1, <2>2
<1>4. ASSUME NEW r \in Reports, NEW c \in Components
      PROVE  WillShow(r, c)' <=> WillShow(r, c)
  <2>1. CASE r = s.report
    <3>1. bits'[r] = IF s.on THEN bits[r] \cup s.of ELSE bits[r] \ s.of
      BY <1>1, <1>2, <2>1 DEF SetBits, TypeOK
    <3>2. \A t \in cli' : t.report # r
      BY <1>1, <1>3, <2>1
    <3>3. WillShow(r, c)' <=> c \in bits'[r]
      BY <3>2 DEF WillShow
    <3>4. WillShow(r, c) <=> IF c \in s.of THEN s.on ELSE c \in bits[r]
      BY <1>1, <1>2, <1>3, <2>1 DEF WillShow
    <3> QED
      BY <1>2, <3>1, <3>3, <3>4
  <2>2. CASE r # s.report
    <3>1. bits'[r] = bits[r]
      BY <1>1, <2>2 DEF SetBits, TypeOK
    <3>2. \A t : t \in cli' /\ t.report = r <=> t \in cli /\ t.report = r
      BY <1>1, <2>2
    <3> QED
      BY <3>1, <3>2 DEF WillShow
  <2> QED
    BY <2>1, <2>2
<1>5. \A t, u \in cli' : t.on = u.on /\ t.of = u.of
  BY <1>1 DEF WillAgree
<1>6. \A r, t \in Reports, c \in Components : WillShow(r, c)' <=> WillShow(t, c)'
  BY <1>4 DEF WillAgree
<1> QED
  BY <1>5, <1>6 DEF WillAgree

\* Nothing but a fault command moves a component of a report.
LEMMA WillAgreeStep == TypeOK /\ WillAgree /\ [Next]_vars => WillAgree'
<1> SUFFICES ASSUME TypeOK, WillAgree, [Next]_vars PROVE WillAgree'
  OBVIOUS
<1>1. CASE \E on \in BOOLEAN, f \in Faults : Fault(on, f)
  BY <1>1, FaultAgrees
<1>2. CASE FaultStep
  BY <1>2, FaultStepAgrees
<1>3. CASE ~FaultStep /\ ~\E on \in BOOLEAN, f \in Faults : Fault(on, f)
  <2>1. UNCHANGED <<cli, bits>>
    BY <1>3 DEF Next, Rest, Start, Stop, Tick, TriggerIbit, SetHz, ResetHz, vars
  <2>2. \A r, c : WillShow(r, c)' <=> WillShow(r, c)
    BY <2>1 DEF WillShow
  <2> QED
    BY <2>1, <2>2 DEF WillAgree
<1> QED
  BY <1>1, <1>2, <1>3

-----------------------------------------------------------------------------
\* The invariant holds initially and is kept.
LEMMA InitIndInv == Init => IndInv
<1> SUFFICES ASSUME Init PROVE IndInv
  OBVIOUS
<1>1. TypeOK
  BY InitTypeOK
<1>2. NotAhead /\ OnTime
  BY RateAssumption, <1>1 DEF Init, NotAhead, OnTime, Zero, Topics, Periodic, TypeOK
<1>3. WindowOpen /\ WillAgree
  BY RateAssumption DEF Init, WindowOpen, WillAgree, WillShow
<1> QED
  BY <1>1, <1>2, <1>3 DEF IndInv

\* Every step keeps it: each part from the types and itself.
LEMMA StepIndInv == IndInv /\ [Next]_vars => IndInv'
  BY TypeStep, NotAheadStep, OnTimeStep, WindowStep, WillAgreeStep DEF IndInv

\* So every reachable state satisfies it.
LEMMA Inductive == Spec => []IndInv
<1>1. Init => IndInv
  BY InitIndInv
<1>2. IndInv /\ [Next]_vars => IndInv'
  BY StepIndInv
<1> QED
  BY <1>1, <1>2, PTL DEF Spec

\* Every reachable state is well typed: no counter leaves its range.
THEOREM TypeCorrect == Spec => []TypeOK
<1>1. IndInv => TypeOK
  BY DEF IndInv
<1> QED
  BY <1>1, Inductive, PTL

\* The periods do not drift (demo_timer_tick): in a scenario that nobody
\* disturbed, one signal and one CBIT were published per period gone by.
THEOREM PeriodsDoNotDrift == Spec => []NoDrift
<1>1. IndInv => NoDrift
  <2> SUFFICES ASSUME IndInv, steady, NEW p \in Periodic, period[p] > 0
               PROVE  sent[p] * period[p] <= tick /\ tick < (sent[p] + 1) * period[p]
    BY DEF NoDrift, Periodic
  <2>1. sent[p] \in Nat /\ period[p] \in Nat /\ last[p] \in Nat /\ tick \in Nat /\ p \in Topics
    BY DEF IndInv, TypeOK, Topics, Periodic
  <2>2. last[p] = sent[p] * period[p] /\ tick < last[p] + period[p] /\ last[p] <= tick
    BY <2>1 DEF IndInv, OnTime, NotAhead
  <2>3. (sent[p] + 1) * period[p] = sent[p] * period[p] + period[p]
    BY <2>1, OneMore
  <2> QED
    BY <2>1, <2>2, <2>3
<1> QED
  BY <1>1, Inductive, PTL

\* The statistics are renewed every second, whatever stats_last_tick an earlier
\* scenario left: demo_timer_init does not reset it.
THEOREM RatesAreRenewed == Spec => []Renewed
<1>1. IndInv => Renewed
  BY RateAssumption DEF IndInv, TypeOK, WindowOpen, Renewed
<1> QED
  BY <1>1, Inductive, PTL

\* At the prompt the three BIT reports agree on the components they share, and
\* so does the verdict of the IBIT (demo_app_inject_fault, demo_app_clear_fault).
THEOREM ReportsDoAgree == Spec => []ReportsAgree
<1>1. IndInv => ReportsAgree
  <2> SUFFICES ASSUME IndInv, cli = {}
               PROVE  /\ \A r, s \in Reports, c \in Components : Content(r)[c] = Content(s)[c]
                      /\ HasFault <=> bits["cbit"] # {}
    BY DEF ReportsAgree
  <2>1. \A r, s \in Reports, c \in Components : c \in bits[r] <=> c \in bits[s]
    BY DEF IndInv, WillAgree, WillShow
  <2>2. \A r \in Reports, c \in Components :
          Content(r)[c] = IF c \in bits[r] THEN "ABNORMAL" ELSE "NORMAL"
    BY DEF Content
  <2>3. \A r \in Reports : bits[r] \subseteq Components
    BY DEF IndInv, TypeOK
  <2>4. HasFault <=> \E c \in Components : c \in bits["result"]
    BY <2>2 DEF HasFault, Reports
  <2> QED
    BY <2>1, <2>2, <2>3, <2>4 DEF Reports
<1> QED
  BY <1>1, Inductive, PTL

-----------------------------------------------------------------------------
(* TurretControl.                                                          *)

FieldNames == {Fields[i] : i \in DOMAIN Fields}

\* What the proofs need of the structures.
SimTypes ==
  /\ signal = [f \in DOMAIN signal |-> signal[f]]
  /\ {"azAngle", "e1AngleVelocity", "roundGyro"} \subseteq DOMAIN signal
  /\ signal.azAngle \in Int /\ signal.e1AngleVelocity \in Int /\ signal.roundGyro \in Int
  /\ control = [f \in FieldNames |-> control[f]]
  /\ positions \subseteq Int /\ control.drivingPosition \in positions
  /\ control.roundAngleVelocity \in Int
  /\ DOMAIN rxLeft \subseteq FieldNames
  /\ \A f \in DOMAIN rxLeft \ DOMAIN Searched : rxLeft[f] \in Int \cup {ILL}
  /\ posOnly \in BOOLEAN

\* az is between two positions.
Between(az) == \E a, b \in positions : a <= az /\ az <= b

\* A velocity v points from az to a position, and not beyond.
Towards(az, v) == \E p \in positions : (0 <= v /\ v <= p - az) \/ (p - az <= v /\ v <= 0)

Slow(v) == Abs(v) <= VelocityLimit

\* What the timer thread and the publisher are about to use, without a velocity command.
Course ==
  posOnly =>
    /\ control.roundAngleVelocity = 0
    /\ sim # "velocity"
    /\ Between(signal.azAngle)
    /\ sim \in {"limit", "move"} => Towards(signal.azAngle, signal.e1AngleVelocity)
    /\ sim \in {"move", "gyro"} => Slow(signal.e1AngleVelocity)
    /\ Slow(signal.roundGyro)
    /\ pub = "write" => Slow(draft.roundGyro)

CourseInv == SimTypes /\ Course

-----------------------------------------------------------------------------
(* The operators.                                                          *)

\* A set of naturals that is not empty has a least element.
LEMMA LeastIndex ==
  ASSUME NEW S, S \subseteq Nat, S # {}
  PROVE  \E s \in S : \A r \in S : s <= r
<1>1. PICK s \in S : \A r \in S : ~ (<<r, s>> \in OpToRel(<, Nat))
  <2> DEFINE R == OpToRel(<, Nat)
  <2>1. IsWellFoundedOn(R, Nat)
    BY NatLessThanWellFounded
  <2> HIDE DEF R
  <2>2. \E s \in S : \A r \in S : ~ (<<r, s>> \in R)
    BY <2>1, WFMin
  <2> QED
    BY <2>2 DEF R
<1>2. \A r \in S : ~ (r < s)
  BY <1>1 DEF OpToRel
<1> QED
  BY <1>2

\* The fields are a sequence, with the position first and the velocity third.
LEMMA FieldsKnown ==
  /\ DOMAIN Fields = 1 .. 14
  /\ "drivingPosition" \in FieldNames /\ "roundAngleVelocity" \in FieldNames
<1> DEFINE S == {FloatFields[i] : i \in 1 .. 6} \cup {EnumFields[i] : i \in 1 .. 8}
<1>1. FloatFields \in [1 .. 6 -> S] /\ EnumFields \in [1 .. 8 -> S]
  <2>1. FloatFields = [i \in 1 .. 6 |-> FloatFields[i]]
    BY DEF FloatFields
  <2>2. EnumFields = [i \in 1 .. 8 |-> EnumFields[i]]
    BY DEF EnumFields
  <2> QED
    BY <2>1, <2>2
<1>2. FloatFields \in Seq(S) /\ EnumFields \in Seq(S) /\ Len(FloatFields) = 6 /\ Len(EnumFields) = 8
  <2> HIDE DEF S
  <2>0. \A n \in Nat : [1 .. n -> S] \subseteq Seq(S)
    BY SeqDef
  <2>1. FloatFields \in Seq(S)
    BY <1>1, <2>0
  <2>4. EnumFields \in Seq(S)
    BY <1>1, <2>0
  <2>2. Len(FloatFields) = 6
    BY DEF FloatFields
  <2>3. Len(EnumFields) = 8
    BY DEF EnumFields
  <2> QED
    BY <2>1, <2>2, <2>3, <2>4
<1> HIDE DEF S
<1>3. /\ Fields \in Seq(S) /\ Len(Fields) = 14
      /\ Fields[1] = FloatFields[1] /\ Fields[3] = FloatFields[3]
  <2>1. Fields \in Seq(S) /\ Len(Fields) = Len(FloatFields) + Len(EnumFields)
    BY <1>2, ConcatProperties DEF Fields
  <2>2. \A i \in 1 .. Len(FloatFields) + Len(EnumFields) :
          Fields[i] = IF i <= Len(FloatFields) THEN FloatFields[i] ELSE EnumFields[i - Len(FloatFields)]
    BY <1>2, ConcatProperties DEF Fields
  <2>3. \A i \in {1, 3} : i \in 1 .. Len(FloatFields) + Len(EnumFields) /\ i <= Len(FloatFields)
    BY <1>2
  <2>4. Fields[1] = FloatFields[1] /\ Fields[3] = FloatFields[3]
    BY <2>2, <2>3
  <2> QED
    BY <1>2, <2>1, <2>4
<1>4. DOMAIN Fields = 1 .. 14
  BY <1>3, LenProperties
<1>5. FloatFields[1] = "drivingPosition" /\ FloatFields[3] = "roundAngleVelocity"
  BY DEF FloatFields
<1>6. 1 \in 1 .. 14 /\ 3 \in 1 .. 14
  OBVIOUS
<1> QED
  BY <1>3, <1>4, <1>5, <1>6 DEF FieldNames

\* The next field of a message is one that it has.
LEMMA NextIsLeft ==
  ASSUME NEW m, DOMAIN m # {}, DOMAIN m \subseteq FieldNames
  PROVE  NextField(m) \in DOMAIN m
<1> DEFINE S == {i \in DOMAIN Fields : Fields[i] \in DOMAIN m}
           First(i) == Fields[i] \in DOMAIN m /\ \A k \in 1 .. i - 1 : Fields[k] \notin DOMAIN m
<1>1. S \subseteq Nat /\ S # {}
  BY FieldsKnown DEF FieldNames
<1>2. PICK i \in S : \A r \in S : i <= r
  BY <1>1, LeastIndex
<1>3. \A k \in 1 .. i - 1 : Fields[k] \notin DOMAIN m
  <2> SUFFICES ASSUME NEW k \in 1 .. i - 1, Fields[k] \in DOMAIN m PROVE FALSE
    OBVIOUS
  <2>1. k \in S /\ k < i
    BY <1>1, FieldsKnown
  <2> QED
    BY <1>1, <1>2, <2>1
<1>4. \E j \in DOMAIN Fields : First(j)
  BY <1>2, <1>3
<1>5. NextField(m) = Fields[CHOOSE j \in DOMAIN Fields : First(j)]
  BY DEF NextField
<1>6. First(CHOOSE j \in DOMAIN Fields : First(j))
  BY <1>4
<1> QED
  BY <1>5, <1>6

\* The numbers are not converted.
LEMMA NotConverted ==
  ASSUME NEW v
  PROVE  /\ Converted("drivingPosition", v) = v /\ Converted("roundAngleVelocity", v) = v
         /\ "drivingPosition" \notin DOMAIN Searched /\ "roundAngleVelocity" \notin DOMAIN Searched
  BY DEF Converted, Searched

\* A tick moves by no more than the velocity, in its direction.
LEMMA IncrementBounded ==
  ASSUME NEW v \in Int
  PROVE  /\ Increment(v) \in Int
         /\ v >= 0 => 0 <= Increment(v) /\ Increment(v) <= v
         /\ v <= 0 => v <= Increment(v) /\ Increment(v) <= 0
<1>1. \A u \in Nat : u \div TicksPerSecond \in Nat /\ u \div TicksPerSecond <= u
  BY TurretAssumption
<1>2. CASE v < 0
  BY <1>1, <1>2 DEF Increment
<1>3. CASE ~ (v < 0)
  BY <1>1, <1>3 DEF Increment
<1> QED
  BY <1>2, <1>3

\* A limited velocity is slow, of the same direction and no faster.
LEMMA LimitedBounded ==
  ASSUME NEW v \in Int
  PROVE  /\ Limited(v) \in Int /\ Slow(Limited(v))
         /\ v >= 0 => 0 <= Limited(v) /\ Limited(v) <= v
         /\ v <= 0 => v <= Limited(v) /\ Limited(v) <= 0
  BY TurretAssumption DEF Limited, Clamp, Slow, Abs

\* Rounding to the quantum of the gyros does not exceed the limit, a multiple of it.
LEMMA GyroBounded ==
  ASSUME NEW v \in Int, Slow(v)
  PROVE  Quantized(v, GyroMax, 2) \in Int /\ Slow(Quantized(v, GyroMax, 2))
<1> DEFINE c == Abs(Clamp(v, GyroMax))
           q == ((2 * c + 2) \div 4) * 2
<1>1. c \in Nat /\ c <= VelocityLimit /\ VelocityLimit \in Nat /\ VelocityLimit % 2 = 0
  BY TurretAssumption DEF Clamp, Slow, Abs
<1>2. Quantized(v, GyroMax, 2) = IF v < 0 THEN -q ELSE q
  BY DEF Quantized
<1> HIDE DEF c
<1>3. q \in Nat /\ q <= VelocityLimit
  BY <1>1
<1> HIDE DEF q
<1> QED
  BY <1>2, <1>3, <1>1 DEF Slow, Abs

-----------------------------------------------------------------------------
(* The invariant.                                                          *)

\* The turret is at rest at its first position.
LEMMA InitCourse == TurretInit => CourseInv
<1> SUFFICES ASSUME TurretInit PROVE CourseInv
  OBVIOUS
<1> DEFINE z == [ azAngle |-> 0, e1AngleVelocity |-> 0, roundGyro |-> 0, upDownGyro |-> 0,
                  energyStorage |-> "NORMAL", mainCannonFixStatus |-> "NORMAL" ]
<1>1. signal = Over(Unchanging, z)
  BY DEF TurretInit, InitialSignal
<1>2. /\ {"azAngle", "e1AngleVelocity", "roundGyro"} \subseteq DOMAIN z \ DOMAIN Unchanging
      /\ z.azAngle = 0 /\ z.e1AngleVelocity = 0 /\ z.roundGyro = 0
  BY DEF Unchanging
<1> HIDE DEF z
<1>3. /\ signal = [f \in DOMAIN signal |-> signal[f]]
      /\ {"azAngle", "e1AngleVelocity", "roundGyro"} \subseteq DOMAIN signal
      /\ signal.azAngle = 0 /\ signal.e1AngleVelocity = 0 /\ signal.roundGyro = 0
  BY <1>1, <1>2 DEF Over
<1>4. control = [f \in FieldNames |-> control[f]]
  BY DEF TurretInit, InitialControl, FieldNames
<1>5. control.drivingPosition = 0 /\ control.roundAngleVelocity = 0
  <2>1. 1 \in DOMAIN FloatFields /\ 3 \in DOMAIN FloatFields
        /\ FloatFields[1] = "drivingPosition" /\ FloatFields[3] = "roundAngleVelocity"
    BY DEF FloatFields
  <2>2. "drivingPosition" \in {FloatFields[i] : i \in DOMAIN FloatFields}
        /\ "roundAngleVelocity" \in {FloatFields[i] : i \in DOMAIN FloatFields}
    BY <2>1
  <2>3. InitialControl["drivingPosition"] = 0 /\ InitialControl["roundAngleVelocity"] = 0
    BY <2>2, FieldsKnown DEF InitialControl, FieldNames
  <2> QED
    BY <2>3 DEF TurretInit
<1>6. positions = {0} /\ DOMAIN rxLeft = {} /\ posOnly \in BOOLEAN /\ sim = "wait" /\ pub = "idle"
  BY DEF TurretInit
<1>7. SimTypes
  BY <1>3, <1>4, <1>5, <1>6 DEF SimTypes
<1>8. Course
  BY <1>3, <1>5, <1>6, TurretAssumption DEF Course, Between, Slow, Abs
<1> QED
  BY <1>7, <1>8 DEF CourseInv

\* Every step keeps the course.
LEMMA CourseStep == CourseInv /\ [TurretNext]_turretVars => CourseInv'
<1> SUFFICES ASSUME SimTypes, Course, [TurretNext]_turretVars PROVE SimTypes' /\ Course'
  BY DEF CourseInv
<1> USE DEF turretState, pubVars, turretBounds, turretHist
<1>1. ASSUME NEW m \in ControlMessages, OnActuatorControl(m) PROVE SimTypes' /\ Course'
  <2>1. DOMAIN m \subseteq FieldNames /\ \A f \in DOMAIN m \ DOMAIN Searched : m[f] \in Int \cup {ILL}
    BY TurretAssumption DEF FieldNames
  <2> QED
    BY <1>1, <2>1 DEF OnActuatorControl, SimTypes, Course, Between, Towards
<1>2. ASSUME NEW v \in {1, ILL}, OnVehicleSpeed(v) PROVE SimTypes' /\ Course'
  BY <1>2 DEF OnVehicleSpeed, SimTypes, Course, Between, Towards
<1>3. CASE WriteField
  <2> DEFINE f == NextField(rxLeft)
             v == rxLeft[f]
  <2>1. f \in DOMAIN rxLeft /\ f \in FieldNames
    BY <1>3, NextIsLeft DEF WriteField, SimTypes
  <2>2. /\ v # ILL /\ control' = [control EXCEPT ![f] = Converted(f, v)]
        /\ rxLeft' = [g \in DOMAIN rxLeft \ {f} |-> rxLeft[g]]
        /\ positions' = IF f = "drivingPosition" THEN positions \cup {v} ELSE positions
        /\ posOnly' = (posOnly /\ (f = "roundAngleVelocity" => v = 0))
        /\ UNCHANGED <<signal, sim, pub, draft>>
    BY <1>3 DEF WriteField
  <2>3. f \in {"drivingPosition", "roundAngleVelocity"} => v \in Int /\ Converted(f, v) = v
    BY <2>1, <2>2, NotConverted DEF SimTypes
  <2> HIDE DEF f, v
  <2>4. positions \subseteq positions' /\ positions' \subseteq Int
    BY <2>2, <2>3 DEF SimTypes
  <2>5. control'.drivingPosition \in positions' /\ control' = [g \in FieldNames |-> control'[g]]
    BY <2>1, <2>2, <2>3, FieldsKnown DEF SimTypes
  <2>6. DOMAIN rxLeft' \subseteq DOMAIN rxLeft /\ \A g \in DOMAIN rxLeft' : rxLeft'[g] = rxLeft[g]
    BY <2>2
  <2>7. posOnly' \in BOOLEAN /\ (posOnly' => posOnly /\ (f = "roundAngleVelocity" => v = 0))
    BY <2>2
  <2>a. control'.roundAngleVelocity \in Int
    BY <2>1, <2>2, <2>3, FieldsKnown DEF SimTypes
  <2>8. SimTypes'
    BY <2>2, <2>4, <2>5, <2>6, <2>7, <2>a DEF SimTypes
  <2>9. posOnly' => control'.roundAngleVelocity = 0
    BY <2>1, <2>2, <2>3, <2>7, FieldsKnown DEF SimTypes, Course
  <2>10. /\ Between(signal.azAngle) => Between(signal.azAngle)'
         /\ Towards(signal.azAngle, signal.e1AngleVelocity) => Towards(signal.azAngle, signal.e1AngleVelocity)'
    BY <2>2, <2>4 DEF Between, Towards
  <2> QED
    BY <2>2, <2>7, <2>8, <2>9, <2>10 DEF Course
<1>4. CASE RefuseField
  <2>1. DOMAIN rxLeft' = {}
    BY <1>4 DEF RefuseField
  <2> QED
    BY <1>4, <2>1 DEF RefuseField, SimTypes, Course, Between, Towards
<1>5. CASE EndOfControl
  BY <1>5 DEF EndOfControl, SimTypes, Course, Between, Towards
<1>6. CASE Simulation
  <2>0. UNCHANGED <<control, rxLeft, pub, draft, positions, posOnly>>
    BY <1>6 DEF Simulation, SimTest, SimVelocity, SimPosition, SimLimit, SimMove, SimGyro, SimStep
  <2>a. \A az : Between(az)' <=> Between(az)
    BY <2>0 DEF Between
  <2>b. \A az, v : Towards(az, v)' <=> Towards(az, v)
    BY <2>0 DEF Towards
  <2>1. CASE SimTest
    <3>1. signal' = signal /\ (control.roundAngleVelocity = 0 => sim' = "position")
          /\ sim' \in {"velocity", "position"}
      BY <2>1 DEF SimTest
    <3> QED
      BY <2>0, <2>a, <3>1 DEF SimTypes, Course
  <2>2. CASE SimVelocity
    <3>1. sim = "velocity" /\ sim' = "move"
          /\ signal' = [signal EXCEPT !.e1AngleVelocity = control.roundAngleVelocity]
      BY <2>2 DEF SimVelocity, SimStep
    <3> QED
      BY <2>0, <3>1 DEF SimTypes, Course
  <2>3. CASE SimPosition
    <3> DEFINE error == control.drivingPosition - signal.azAngle
    <3>1. \/ sim' = "limit" /\ signal' = [signal EXCEPT !.e1AngleVelocity = error]
          \/ sim' = "gyro" /\ signal' = [signal EXCEPT !.e1AngleVelocity = 0]
      BY <2>3 DEF SimPosition
    <3>2. error \in Int /\ Towards(signal.azAngle, error) /\ Slow(0)
      BY TurretAssumption DEF SimTypes, Towards, Slow, Abs
    <3> HIDE DEF error
    <3>3. /\ signal'.azAngle = signal.azAngle /\ signal'.roundGyro = signal.roundGyro
          /\ \/ sim' = "limit" /\ signal'.e1AngleVelocity = error
             \/ sim' = "gyro" /\ signal'.e1AngleVelocity = 0
      BY <3>1 DEF SimTypes
    <3>4. SimTypes'
      BY <2>0, <3>1, <3>2 DEF SimTypes
    <3> QED
      BY <2>0, <2>a, <2>b, <3>1, <3>2, <3>3, <3>4 DEF Course
  <2>4. CASE SimLimit
    <3> DEFINE v == signal.e1AngleVelocity
    <3>1. sim = "limit" /\ sim' = "move" /\ signal' = [signal EXCEPT !.e1AngleVelocity = Limited(v)]
      BY <2>4 DEF SimLimit, SimStep
    <3>2. v \in Int /\ Limited(v) \in Int /\ Slow(Limited(v))
      BY LimitedBounded DEF SimTypes
    <3>3. Towards(signal.azAngle, v) => Towards(signal.azAngle, Limited(v))
      BY <3>2, LimitedBounded DEF SimTypes, Towards
    <3>4. /\ signal'.azAngle = signal.azAngle /\ signal'.roundGyro = signal.roundGyro
          /\ signal'.e1AngleVelocity = Limited(v)
      BY <3>1 DEF SimTypes
    <3>5. SimTypes'
      BY <2>0, <3>1, <3>2 DEF SimTypes
    <3> QED
      BY <2>0, <2>a, <2>b, <3>1, <3>2, <3>3, <3>4, <3>5 DEF Course
  <2>5. CASE SimMove
    <3> DEFINE v == signal.e1AngleVelocity
               az == signal.azAngle
    <3>1. sim = "move" /\ sim' = "gyro" /\ signal' = [signal EXCEPT !.azAngle = az + Increment(v)]
      BY <2>5 DEF SimMove, SimStep
    <3>2. v \in Int /\ az \in Int /\ Increment(v) \in Int
      BY IncrementBounded DEF SimTypes
    <3>3. Between(az) /\ Towards(az, v) => Between(az + Increment(v))
      BY <3>2, IncrementBounded DEF SimTypes, Towards, Between
    <3>4. /\ signal'.azAngle = az + Increment(v) /\ signal'.roundGyro = signal.roundGyro
          /\ signal'.e1AngleVelocity = v
      BY <3>1 DEF SimTypes
    <3>5. SimTypes'
      BY <2>0, <3>1, <3>2 DEF SimTypes
    <3> QED
      BY <2>0, <2>a, <3>1, <3>3, <3>4, <3>5 DEF Course
  <2>6. CASE SimGyro
    <3> DEFINE g == [signal EXCEPT
                       !.roundGyro  = signal.e1AngleVelocity,
                       !.upDownGyro = control.upDownAngleVelocity,
                       !.energyStorage = IF "energyStorage" \in faulty THEN "NORMAL" ELSE "DISCHARGE",
                       !.mainCannonFixStatus = IF "roundMotor" \in faulty THEN "NORMAL" ELSE "FIX"]
    <3>1. sim = "gyro" /\ sim' = "wait" /\ signal' = Over(Unchanging, g)
      BY <2>6 DEF SimGyro, SimStep
    <3>2. /\ DOMAIN g = DOMAIN signal /\ g.azAngle = signal.azAngle
          /\ g.e1AngleVelocity = signal.e1AngleVelocity /\ g.roundGyro = signal.e1AngleVelocity
      BY DEF SimTypes
    <3> HIDE DEF g
    <3>3. {"azAngle", "e1AngleVelocity", "roundGyro"} \subseteq DOMAIN g \ DOMAIN Unchanging
      BY <3>2 DEF SimTypes, Unchanging
    <3>4. /\ signal' = [f \in DOMAIN signal' |-> signal'[f]]
          /\ {"azAngle", "e1AngleVelocity", "roundGyro"} \subseteq DOMAIN signal'
          /\ signal'.azAngle = signal.azAngle
          /\ signal'.e1AngleVelocity = signal.e1AngleVelocity /\ signal'.roundGyro = signal.e1AngleVelocity
      BY <3>1, <3>2, <3>3 DEF Over
    <3>5. SimTypes'
      BY <2>0, <3>4 DEF SimTypes
    <3> QED
      BY <2>0, <2>a, <3>1, <3>4, <3>5 DEF Course
  <2> QED
    BY <1>6, <2>1, <2>2, <2>3, <2>4, <2>5, <2>6 DEF Simulation
<1>7. CASE PubAzimuth
  BY <1>7 DEF PubAzimuth, PubStep, SimTypes, Course, Between, Towards
<1>8. CASE PubElevation
  BY <1>8 DEF PubElevation, PubStep, SimTypes, Course, Between, Towards
<1>9. CASE PubGyros
  <2>1. draft'.roundGyro = Quantized(signal.roundGyro, GyroMax, 2)
    BY <1>9 DEF PubGyros, Over
  <2>2. signal.roundGyro \in Int /\ (Slow(signal.roundGyro) => Slow(draft'.roundGyro))
    BY <2>1, GyroBounded DEF SimTypes
  <2> QED
    BY <1>9, <2>2 DEF PubGyros, PubStep, SimTypes, Course, Between, Towards
<1>10. CASE PubWrite
  BY <1>10 DEF PubWrite, PubStep, SimTypes, Course, Between, Towards
<1>11. CASE StartScenario
  BY <1>11 DEF StartScenario, Operate, SimTypes, Course, Between, Towards
<1>12. CASE StopScenario
  BY <1>12 DEF StopScenario, Operate, SimTypes, Course, Between, Towards
<1>13. ASSUME NEW c \in {"energyStorage", "roundMotor"}, ChangeFault(c) PROVE SimTypes' /\ Course'
  BY <1>13 DEF ChangeFault, Operate, SimTypes, Course, Between, Towards
<1>14. CASE UNCHANGED turretVars
  BY <1>14 DEF turretVars, SimTypes, Course, Between, Towards
<1> QED
  BY <1>1, <1>2, <1>3, <1>4, <1>5, <1>6, <1>7, <1>8, <1>9, <1>10, <1>11, <1>12, <1>13, <1>14 DEF TurretNext

\* With nothing but positions commanded the turret stays between them, and no Signal shows a gyro above
\* the limit of the velocity, for any messages and however the three threads interleave.
THEOREM KeepsPosition == TurretSpec => []PositionControl
<1>1. CourseInv => PositionControl
  BY DEF CourseInv, Course, Between, Slow, PositionControl
<1> QED
  BY InitCourse, CourseStep, <1>1, PTL DEF TurretSpec

-----------------------------------------------------------------------------
(* Types.                                                                  *)

ControlTypes ==
  /\ control = [f \in FieldNames |-> control[f]]
  /\ \A f \in DOMAIN Searched : control[f] \in Enumerators(f)
  /\ \A f \in FieldNames \ DOMAIN Searched : control[f] \in Int
  /\ DOMAIN rxLeft \subseteq FieldNames
  /\ \A f \in DOMAIN rxLeft \ DOMAIN Searched : rxLeft[f] \in Int \cup {ILL}

Measured == {"azAngle", "e1AngleVelocity", "roundGyro", "upDownGyro"}

SignalTypes ==
  /\ signal = [f \in DOMAIN signal |-> signal[f]]
  /\ Measured \cup Statuses \subseteq DOMAIN signal
  /\ \A f \in Measured : signal[f] \in Int
  /\ \A f \in Statuses : signal[f] \in DOMAIN SchemaName[f]

ThreadTypes ==
  /\ rxBusy \in BOOLEAN /\ inRun \in BOOLEAN /\ posOnly \in BOOLEAN
  /\ sim \in {"wait", "velocity", "position", "limit", "move", "gyro"}
  /\ pub \in {"idle", "elevation", "gyros", "write"}

TypeInv == ControlTypes /\ SignalTypes /\ ThreadTypes

\* A set of naturals has its least element chosen.
LEMMA ChosenLeast ==
  ASSUME NEW S, S \subseteq Nat, S # {}
  PROVE  (CHOOSE i \in S : \A k \in S : i <= k) \in S
  BY LeastIndex

\* What the parser looks for, for each field.
LEMMA SearchedKnown ==
  /\ DOMAIN Searched = {"operationMode", "parm", "targetDesingation", "autoArmPosition", "manualArmPosition",
                        "mainCannonRestore", "manCannonFix", "closeEquipOpenStatus"}
  /\ \A f \in DOMAIN Searched : DOMAIN Searched[f] \subseteq Nat
  /\ Enumerators("operationMode") = {"EMERGENCY", "MANUAL", "NORMAL"}
  /\ Enumerators("parm") = {"ON", "OFF"}
  /\ Enumerators("targetDesingation") = {"ALLOT", "ETC"}
  /\ Enumerators("autoArmPosition") = {"LOCK", "RELEASE"}
  /\ Enumerators("manualArmPosition") = {"LOCK", "RELEASE"}
  /\ Enumerators("mainCannonRestore") = {"COMMAND", "RELEASE"}
  /\ Enumerators("manCannonFix") = {"COMMAND", "RELEASE"}
  /\ Enumerators("closeEquipOpenStatus") = {"OPEN", "LOCK"}
<1>1. DOMAIN Searched = {"operationMode", "parm", "targetDesingation", "autoArmPosition", "manualArmPosition",
                        "mainCannonRestore", "manCannonFix", "closeEquipOpenStatus"}
  BY DEF Searched
<1>2. \A a, b : /\ DOMAIN <<a, b>> = {1, 2}
                /\ {<<a, b>>[i] : i \in DOMAIN <<a, b>>} = {a, b}
  <2> SUFFICES ASSUME NEW a, NEW b
               PROVE  DOMAIN <<a, b>> = {1, 2} /\ {<<a, b>>[i] : i \in DOMAIN <<a, b>>} = {a, b}
    OBVIOUS
  <2>1. DOMAIN <<a, b>> = {1, 2} /\ <<a, b>>[1] = a /\ <<a, b>>[2] = b
    OBVIOUS
  <2> QED
    BY <2>1
<1>3. \A a, b, c : /\ DOMAIN <<a, b, c>> = {1, 2, 3}
                   /\ {<<a, b, c>>[i] : i \in DOMAIN <<a, b, c>>} = {a, b, c}
  <2> SUFFICES ASSUME NEW a, NEW b, NEW c
               PROVE  DOMAIN <<a, b, c>> = {1, 2, 3} /\ {<<a, b, c>>[i] : i \in DOMAIN <<a, b, c>>} = {a, b, c}
    OBVIOUS
  <2>1. /\ DOMAIN <<a, b, c>> = {1, 2, 3}
        /\ <<a, b, c>>[1] = a /\ <<a, b, c>>[2] = b /\ <<a, b, c>>[3] = c
    OBVIOUS
  <2> QED
    BY <2>1
<1>4. /\ Searched["operationMode"] = <<"EMERGENCY", "MANUAL", "NORMAL">>
      /\ Searched["parm"] = <<"ON", "OFF">>
      /\ Searched["targetDesingation"] = <<"ALLOT", "ETC">>
      /\ Searched["autoArmPosition"] = <<"LOCK", "RELEASE">>
      /\ Searched["manualArmPosition"] = <<"LOCK", "RELEASE">>
      /\ Searched["mainCannonRestore"] = <<"COMMAND", "RELEASE">>
      /\ Searched["manCannonFix"] = <<"COMMAND", "RELEASE">>
      /\ Searched["closeEquipOpenStatus"] = <<"OPEN", "LOCK">>
  BY DEF Searched
<1>5. \A f \in DOMAIN Searched : DOMAIN Searched[f] \subseteq Nat
  BY <1>1, <1>2, <1>3, <1>4
<1> QED
  BY <1>1, <1>2, <1>3, <1>4, <1>5 DEF Enumerators

\* Whatever the text, the parser makes an enumerator of it.
LEMMA ParsedIsEnumerator ==
  ASSUME NEW f \in DOMAIN Searched, NEW text
  PROVE  Parse(f, text) \in Enumerators(f)
<1> DEFINE found == {i \in DOMAIN Searched[f] : Searched[f][i] \in text}
           least == CHOOSE i \in found : \A k \in found : i <= k
<1>1. Otherwise[f] \in Enumerators(f)
  BY SearchedKnown DEF Otherwise
<1>2. ASSUME found # {} PROVE Searched[f][least] \in Enumerators(f)
  <2>1. found \subseteq Nat
    BY SearchedKnown
  <2>2. least \in found
    BY <1>2, <2>1, ChosenLeast
  <2> QED
    BY <2>2 DEF Enumerators
<1> QED
  BY <1>1, <1>2 DEF Parse

\* The names of the fields.
LEMMA NamesKnown ==
  /\ {FloatFields[i] : i \in DOMAIN FloatFields} \cap DOMAIN Searched = {}
  /\ \A f \in FieldNames \ DOMAIN Searched : f \in {FloatFields[i] : i \in DOMAIN FloatFields}
  /\ DOMAIN Searched \subseteq FieldNames
  /\ "upDownAngleVelocity" \in FieldNames \ DOMAIN Searched
<1> DEFINE floats == {"drivingPosition", "upDownPosition", "roundAngleVelocity",
                      "upDownAngleVelocity", "cannonUpDownAngle", "topRelativeAngle"}
<1>1. /\ DOMAIN FloatFields = 1 .. 6 /\ FloatFields[1] = "drivingPosition" /\ FloatFields[2] = "upDownPosition"
      /\ FloatFields[3] = "roundAngleVelocity" /\ FloatFields[4] = "upDownAngleVelocity"
      /\ FloatFields[5] = "cannonUpDownAngle" /\ FloatFields[6] = "topRelativeAngle" /\ Len(FloatFields) = 6
  BY DEF FloatFields
<1>2. /\ DOMAIN EnumFields = 1 .. 8 /\ EnumFields[1] = "operationMode" /\ EnumFields[2] = "parm"
      /\ EnumFields[3] = "targetDesingation" /\ EnumFields[4] = "autoArmPosition"
      /\ EnumFields[5] = "manualArmPosition" /\ EnumFields[6] = "mainCannonRestore"
      /\ EnumFields[7] = "manCannonFix" /\ EnumFields[8] = "closeEquipOpenStatus" /\ Len(EnumFields) = 8
  BY DEF EnumFields
<1>3. {FloatFields[i] : i \in DOMAIN FloatFields} = floats
  BY <1>1
<1>4. {EnumFields[i] : i \in DOMAIN EnumFields} = DOMAIN Searched
  BY <1>2, SearchedKnown
<1>5. FieldNames = {FloatFields[i] : i \in DOMAIN FloatFields} \cup {EnumFields[i] : i \in DOMAIN EnumFields}
  <2>1. FloatFields \in Seq(floats) /\ EnumFields \in Seq(DOMAIN Searched)
    <3>1. FloatFields = [i \in 1 .. 6 |-> FloatFields[i]] /\ EnumFields = [i \in 1 .. 8 |-> EnumFields[i]]
      BY <1>1, <1>2 DEF FloatFields, EnumFields
    <3>2. FloatFields \in [1 .. 6 -> floats] /\ EnumFields \in [1 .. 8 -> DOMAIN Searched]
      BY <1>1, <1>2, <1>3, <1>4, <3>1
    <3> HIDE DEF floats
    <3>3. \A S : \A n \in Nat : [1 .. n -> S] \subseteq Seq(S)
      BY SeqDef
    <3> QED
      BY <3>2, <3>3
  <2> DEFINE S == floats \cup DOMAIN Searched
  <2>2. FloatFields \in Seq(S) /\ EnumFields \in Seq(S)
    BY <2>1, SeqMonotonic
  <2> HIDE DEF S, floats
  <2>a. \A i \in 1 .. Len(FloatFields) + Len(EnumFields) :
          Fields[i] = IF i <= Len(FloatFields) THEN FloatFields[i] ELSE EnumFields[i - Len(FloatFields)]
    BY <2>2, ConcatProperties DEF Fields
  <2>b. Len(FloatFields) = 6 /\ Len(EnumFields) = 8
    BY <1>1, <1>2
  <2>3. \A i \in 1 .. 14 : Fields[i] = IF i <= 6 THEN FloatFields[i] ELSE EnumFields[i - 6]
    BY <2>a, <2>b
  <2>4. \A i \in 1 .. 6 : i \in 1 .. 14 /\ Fields[i] = FloatFields[i]
    BY <2>3
  <2>5. \A i \in 1 .. 8 : i + 6 \in 1 .. 14 /\ Fields[i + 6] = EnumFields[i]
    BY <2>3
  <2>6. \A i \in 1 .. 14 : i \in 1 .. 6 \/ (i - 6 \in 1 .. 8 /\ Fields[i] = EnumFields[i - 6])
    BY <2>3
  <2> QED
    BY <1>1, <1>2, <2>4, <2>5, <2>6, FieldsKnown DEF FieldNames
<1> QED
  BY <1>3, <1>4, <1>5, SearchedKnown

\* The statuses.
LEMMA StatusesKnown ==
  /\ Statuses = DOMAIN Unchanging \cup {"energyStorage", "mainCannonFixStatus"}
  /\ "energyStorage" \notin DOMAIN Unchanging /\ "mainCannonFixStatus" \notin DOMAIN Unchanging
  /\ Measured \cap DOMAIN Unchanging = {}
  /\ \A f \in DOMAIN Unchanging : Unchanging[f] \in DOMAIN SchemaName[f]
  /\ {"NORMAL", "DISCHARGE"} \subseteq DOMAIN SchemaName["energyStorage"]
  /\ {"NORMAL", "FIX"} \subseteq DOMAIN SchemaName["mainCannonFixStatus"]
  BY DEF Statuses, SchemaName, Unchanging, Measured

\* The statuses that never change and typed others make a typed signal.
LEMMA OverTyped ==
  ASSUME NEW g, Measured \cup {"energyStorage", "mainCannonFixStatus"} \subseteq DOMAIN g,
         \A f \in Measured : g[f] \in Int,
         g.energyStorage \in {"NORMAL", "DISCHARGE"}, g.mainCannonFixStatus \in {"NORMAL", "FIX"},
         signal' = Over(Unchanging, g)
  PROVE  SignalTypes'
<1>1. /\ signal' = [x \in DOMAIN signal' |-> signal'[x]] /\ DOMAIN signal' = DOMAIN Unchanging \cup DOMAIN g
      /\ \A x \in DOMAIN Unchanging : signal'[x] = Unchanging[x]
      /\ \A x \in DOMAIN g \ DOMAIN Unchanging : signal'[x] = g[x]
  BY DEF Over
<1> QED
  BY <1>1, StatusesKnown DEF SignalTypes

\* The structures are typed at the start.
LEMMA InitTypes == TurretInit => TypeInv
<1> SUFFICES ASSUME TurretInit PROVE TypeInv
  OBVIOUS
<1> DEFINE z == [ azAngle |-> 0, e1AngleVelocity |-> 0, roundGyro |-> 0, upDownGyro |-> 0,
                  energyStorage |-> "NORMAL", mainCannonFixStatus |-> "NORMAL" ]
<1>1. ControlTypes
  <2>1. control = InitialControl /\ rxLeft = <<>> /\ DOMAIN rxLeft = {}
    BY DEF TurretInit
  <2>2. control = [f \in FieldNames |-> control[f]]
    BY <2>1 DEF InitialControl, FieldNames
  <2>3. \A f \in FieldNames \ DOMAIN Searched : control[f] = 0
    <3> SUFFICES ASSUME NEW f \in FieldNames \ DOMAIN Searched PROVE InitialControl[f] = 0
      BY <2>1
    <3>1. f \in {FloatFields[i] : i \in DOMAIN FloatFields}
      BY NamesKnown
    <3>2. f # "operationMode" /\ f # "parm" /\ f # "targetDesingation" /\ f # "closeEquipOpenStatus"
      BY SearchedKnown
    <3>3. f \in {Fields[i] : i \in DOMAIN Fields}
      BY DEF FieldNames
    <3> DEFINE floats == {FloatFields[i] : i \in DOMAIN FloatFields}
               names == {Fields[i] : i \in DOMAIN Fields}
    <3>4. InitialControl = [n \in names |-> CASE n \in floats -> 0
                                              [] n = "operationMode"        -> "NORMAL"
                                              [] n = "parm"                 -> "OFF"
                                              [] n = "targetDesingation"    -> "ETC"
                                              [] n = "closeEquipOpenStatus" -> "LOCK"
                                              [] OTHER                      -> "RELEASE"]
      BY DEF InitialControl
    <3> HIDE DEF floats, names
    <3> QED
      <4>1. f \in floats /\ f \in names
        BY <3>1, <3>3 DEF floats, names
      <4> QED
        BY <3>2, <3>4, <4>1
  <2>4. \A f \in DOMAIN Searched :
          control[f] = CASE f = "operationMode"        -> "NORMAL"
                         [] f = "parm"                 -> "OFF"
                         [] f = "targetDesingation"    -> "ETC"
                         [] f = "closeEquipOpenStatus" -> "LOCK"
                         [] OTHER                      -> "RELEASE"
    BY <2>1, NamesKnown DEF InitialControl, FieldNames
  <2>5. \A f \in DOMAIN Searched : control[f] \in Enumerators(f)
    BY <2>4, SearchedKnown
  <2> QED
    BY <2>1, <2>2, <2>3, <2>5 DEF ControlTypes
<1>2. SignalTypes
  <2>1. signal = Over(Unchanging, z)
    BY DEF TurretInit, InitialSignal
  <2>2. /\ DOMAIN z = Measured \cup {"energyStorage", "mainCannonFixStatus"} /\ \A f \in Measured : z[f] = 0
        /\ z.energyStorage = "NORMAL" /\ z.mainCannonFixStatus = "NORMAL"
    BY DEF Measured
  <2> HIDE DEF z
  <2>3. /\ signal = [x \in DOMAIN signal |-> signal[x]] /\ DOMAIN signal = DOMAIN Unchanging \cup DOMAIN z
        /\ \A x \in DOMAIN Unchanging : signal[x] = Unchanging[x]
        /\ \A x \in DOMAIN z \ DOMAIN Unchanging : signal[x] = z[x]
    BY <2>1 DEF Over
  <2> QED
    BY <2>2, <2>3, StatusesKnown DEF SignalTypes
<1>3. ThreadTypes
  BY DEF TurretInit, ThreadTypes
<1> QED
  BY <1>1, <1>2, <1>3 DEF TypeInv

\* The receive thread keeps the types: a field is converted to one of its values.
LEMMA ControlTypesStep == TypeInv /\ [TurretNext]_turretVars => ControlTypes'
<1> SUFFICES ASSUME ControlTypes, [TurretNext]_turretVars PROVE ControlTypes'
  BY DEF TypeInv
<1> USE DEF turretState, pubVars, turretBounds, turretHist
<1>0. UNCHANGED <<control, rxLeft>> => ControlTypes'
  BY DEF ControlTypes
<1>1. ASSUME NEW m \in ControlMessages, OnActuatorControl(m) PROVE ControlTypes'
  <2>1. DOMAIN m \subseteq FieldNames /\ \A f \in DOMAIN m \ DOMAIN Searched : m[f] \in Int \cup {ILL}
    BY TurretAssumption DEF FieldNames
  <2> QED
    BY <1>1, <2>1 DEF OnActuatorControl, ControlTypes
<1>2. CASE WriteField
  <2> DEFINE f == NextField(rxLeft)
             v == rxLeft[f]
  <2>1. f \in DOMAIN rxLeft /\ f \in FieldNames
    BY <1>2, NextIsLeft DEF WriteField, ControlTypes
  <2>2. /\ v # ILL /\ control' = [control EXCEPT ![f] = Converted(f, v)]
        /\ rxLeft' = [g \in DOMAIN rxLeft \ {f} |-> rxLeft[g]]
    BY <1>2 DEF WriteField
  <2>3. f \in DOMAIN Searched => Converted(f, v) \in Enumerators(f)
    BY ParsedIsEnumerator DEF Converted
  <2>4. f \notin DOMAIN Searched => Converted(f, v) \in Int
    BY <2>1, <2>2 DEF ControlTypes, Converted
  <2> HIDE DEF f, v
  <2> QED
    BY <2>1, <2>2, <2>3, <2>4, NamesKnown DEF ControlTypes, Enumerators
<1>3. CASE RefuseField
  <2>1. DOMAIN rxLeft' = {} /\ UNCHANGED control
    BY <1>3 DEF RefuseField
  <2> QED
    BY <2>1 DEF ControlTypes
<1>4. CASE EndOfControl
  BY <1>0, <1>4 DEF EndOfControl
<1>5. ASSUME NEW v \in {1, ILL}, OnVehicleSpeed(v) PROVE ControlTypes'
  BY <1>0, <1>5 DEF OnVehicleSpeed
<1>6. CASE Simulation
  BY <1>0, <1>6 DEF Simulation, SimTest, SimVelocity, SimPosition, SimLimit, SimMove, SimGyro, SimStep
<1>7. CASE PubAzimuth \/ PubElevation \/ PubGyros \/ PubWrite
  BY <1>0, <1>7 DEF PubAzimuth, PubElevation, PubGyros, PubWrite, PubStep
<1>8. CASE StartScenario \/ StopScenario
  BY <1>0, <1>8 DEF StartScenario, StopScenario, Operate
<1>9. ASSUME NEW c \in {"energyStorage", "roundMotor"}, ChangeFault(c) PROVE ControlTypes'
  BY <1>0, <1>9 DEF ChangeFault, Operate
<1>10. CASE UNCHANGED turretVars
  BY <1>0, <1>10 DEF turretVars
<1> QED
  BY <1>1, <1>2, <1>3, <1>4, <1>5, <1>6, <1>7, <1>8, <1>9, <1>10 DEF TurretNext

\* A measured value that is overwritten by an integer stays one.
LEMMA MeasuredTyped ==
  ASSUME SignalTypes, NEW f \in Measured, NEW v \in Int, signal' = [signal EXCEPT ![f] = v]
  PROVE  SignalTypes'
<1>1. Measured \cap Statuses = {}
  BY DEF Measured, Statuses, SchemaName
<1> QED
  BY <1>1 DEF SignalTypes

\* The timer thread keeps the types of what the publisher reads.
LEMMA SignalTypesStep == TypeInv /\ [TurretNext]_turretVars => SignalTypes'
<1> SUFFICES ASSUME ControlTypes, SignalTypes, [TurretNext]_turretVars PROVE SignalTypes'
  BY DEF TypeInv
<1> USE DEF turretState, pubVars, turretBounds, turretHist
<1>0. UNCHANGED signal => SignalTypes'
  BY DEF SignalTypes
<1>a. /\ control["drivingPosition"] \in Int /\ control["roundAngleVelocity"] \in Int
      /\ control["upDownAngleVelocity"] \in Int
  BY FieldsKnown, NamesKnown, NotConverted DEF ControlTypes
<1>b. /\ {"azAngle", "e1AngleVelocity", "roundGyro", "upDownGyro"} = Measured
      /\ signal["azAngle"] \in Int /\ signal["e1AngleVelocity"] \in Int
  BY DEF SignalTypes, Measured
<1>1. CASE Simulation
  <2>1. CASE SimTest
    BY <1>0, <2>1 DEF SimTest
  <2>2. CASE SimVelocity
    <3>1. signal' = [signal EXCEPT !["e1AngleVelocity"] = control.roundAngleVelocity]
      BY <2>2 DEF SimVelocity
    <3> QED
      BY <1>a, <1>b, <3>1, MeasuredTyped
  <2>3. CASE SimPosition
    <3>1. \E v \in Int : signal' = [signal EXCEPT !["e1AngleVelocity"] = v]
      <4> DEFINE error == control.drivingPosition - signal.azAngle
      <4>1. error \in Int /\ 0 \in Int
        BY <1>a, <1>b
      <4>2. \/ signal' = [signal EXCEPT !["e1AngleVelocity"] = error]
            \/ signal' = [signal EXCEPT !["e1AngleVelocity"] = 0]
        BY <2>3 DEF SimPosition
      <4> HIDE DEF error
      <4> QED
        BY <4>1, <4>2
    <3> QED
      BY <1>b, <3>1, MeasuredTyped
  <2>4. CASE SimLimit
    <3>1. signal' = [signal EXCEPT !["e1AngleVelocity"] = Limited(signal.e1AngleVelocity)]
      BY <2>4 DEF SimLimit
    <3>2. Limited(signal.e1AngleVelocity) \in Int
      BY <1>b, LimitedBounded
    <3> QED
      BY <1>b, <3>1, <3>2, MeasuredTyped
  <2>5. CASE SimMove
    <3>1. signal' = [signal EXCEPT !["azAngle"] = signal.azAngle + Increment(signal.e1AngleVelocity)]
      BY <2>5 DEF SimMove
    <3>2. signal.azAngle + Increment(signal.e1AngleVelocity) \in Int
      BY <1>b, IncrementBounded
    <3> QED
      BY <1>b, <3>1, <3>2, MeasuredTyped
  <2>6. CASE SimGyro
    <3> DEFINE g == [signal EXCEPT
                       !.roundGyro  = signal.e1AngleVelocity,
                       !.upDownGyro = control.upDownAngleVelocity,
                       !.energyStorage = IF "energyStorage" \in faulty THEN "NORMAL" ELSE "DISCHARGE",
                       !.mainCannonFixStatus = IF "roundMotor" \in faulty THEN "NORMAL" ELSE "FIX"]
    <3>1. signal' = Over(Unchanging, g)
      BY <2>6 DEF SimGyro
    <3>2. Measured \cup {"energyStorage", "mainCannonFixStatus"} \subseteq DOMAIN signal
      BY StatusesKnown DEF SignalTypes
    <3>3. /\ DOMAIN g = DOMAIN signal
          /\ g.azAngle = signal.azAngle /\ g.e1AngleVelocity = signal.e1AngleVelocity
          /\ g.roundGyro = signal.e1AngleVelocity /\ g.upDownGyro = control.upDownAngleVelocity
          /\ g.energyStorage \in {"NORMAL", "DISCHARGE"} /\ g.mainCannonFixStatus \in {"NORMAL", "FIX"}
      BY <3>2 DEF SignalTypes, Measured
    <3> HIDE DEF g
    <3>4. \A f \in Measured : g[f] \in Int
      BY <1>a, <1>b, <3>3 DEF Measured
    <3> QED
      BY <3>1, <3>2, <3>3, <3>4, OverTyped
  <2> QED
    BY <1>1, <2>1, <2>2, <2>3, <2>4, <2>5, <2>6 DEF Simulation
<1>2. ASSUME NEW m \in ControlMessages, OnActuatorControl(m) PROVE SignalTypes'
  BY <1>0, <1>2 DEF OnActuatorControl
<1>3. CASE WriteField \/ RefuseField \/ EndOfControl
  BY <1>0, <1>3 DEF WriteField, RefuseField, EndOfControl
<1>4. ASSUME NEW v \in {1, ILL}, OnVehicleSpeed(v) PROVE SignalTypes'
  BY <1>0, <1>4 DEF OnVehicleSpeed
<1>5. CASE PubAzimuth \/ PubElevation \/ PubGyros \/ PubWrite
  BY <1>0, <1>5 DEF PubAzimuth, PubElevation, PubGyros, PubWrite, PubStep
<1>6. CASE StartScenario \/ StopScenario
  BY <1>0, <1>6 DEF StartScenario, StopScenario, Operate
<1>7. ASSUME NEW c \in {"energyStorage", "roundMotor"}, ChangeFault(c) PROVE SignalTypes'
  BY <1>0, <1>7 DEF ChangeFault, Operate
<1>8. CASE UNCHANGED turretVars
  BY <1>0, <1>8 DEF turretVars
<1> QED
  BY <1>1, <1>2, <1>3, <1>4, <1>5, <1>6, <1>7, <1>8 DEF TurretNext

\* The threads are at one of their statements.
LEMMA ThreadTypesStep == TypeInv /\ [TurretNext]_turretVars => ThreadTypes'
<1> SUFFICES ASSUME ThreadTypes, [TurretNext]_turretVars PROVE ThreadTypes'
  BY DEF TypeInv
<1> USE DEF ThreadTypes, turretState, pubVars, turretBounds, turretHist
<1>1. ASSUME NEW m \in ControlMessages, OnActuatorControl(m) PROVE ThreadTypes'
  BY <1>1 DEF OnActuatorControl
<1>2. CASE WriteField
  BY <1>2 DEF WriteField
<1>3. CASE RefuseField \/ EndOfControl
  BY <1>3 DEF RefuseField, EndOfControl
<1>4. ASSUME NEW v \in {1, ILL}, OnVehicleSpeed(v) PROVE ThreadTypes'
  BY <1>4 DEF OnVehicleSpeed
<1>5. CASE Simulation
  BY <1>5 DEF Simulation, SimTest, SimVelocity, SimPosition, SimLimit, SimMove, SimGyro, SimStep
<1>6. CASE PubAzimuth \/ PubElevation \/ PubGyros \/ PubWrite
  BY <1>6 DEF PubAzimuth, PubElevation, PubGyros, PubWrite, PubStep
<1>7. CASE StartScenario \/ StopScenario
  BY <1>7 DEF StartScenario, StopScenario, Operate
<1>8. ASSUME NEW c \in {"energyStorage", "roundMotor"}, ChangeFault(c) PROVE ThreadTypes'
  BY <1>8 DEF ChangeFault, Operate
<1>9. CASE UNCHANGED turretVars
  BY <1>9 DEF turretVars
<1> QED
  BY <1>1, <1>2, <1>3, <1>4, <1>5, <1>6, <1>7, <1>8, <1>9 DEF TurretNext

\* The structures keep the types of their declarations, for any messages and however the threads
\* interleave: a text of a message becomes an enumerator of its field, whatever it is, and every status
\* that the publisher looks up has a name in the schema.
THEOREM TurretTypeCorrect == TurretSpec => []TurretTypeOK
<1>1. TypeInv /\ [TurretNext]_turretVars => TypeInv'
  BY ControlTypesStep, SignalTypesStep, ThreadTypesStep DEF TypeInv
<1>2. TypeInv => TurretTypeOK
  <2> SUFFICES ASSUME TypeInv PROVE TurretTypeOK
    OBVIOUS
  <2>1. DOMAIN control = FieldNames
    BY DEF TypeInv, ControlTypes
  <2>2. {signal.azAngle, signal.e1AngleVelocity, signal.roundGyro, signal.upDownGyro} \subseteq Int
    BY DEF TypeInv, SignalTypes, Measured
  <2> QED
    BY <2>1, <2>2 DEF TypeInv, ControlTypes, SignalTypes, ThreadTypes, TurretTypeOK, FieldNames
<1> QED
  BY InitTypes, <1>1, <1>2, PTL DEF TurretSpec
=============================================================================
