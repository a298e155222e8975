------------------------ MODULE EngineAndAdas_proofs ------------------------
(***************************************************************************)
(* Theorems about the two boards at the ends of the vehicle's speed: the   *)
(* engine simulator of Board A (EngineSim) with whatever is at the other   *)
(* end of its serial line (EngineBench), for every scale of speed, ADC and *)
(* coolant, every filter and every number of events; and the ADAS ECU of   *)
(* Board E (Adas), for every queue, period, timeout and lateness.  The two *)
(* specifications share no variable: Spec and vars are the bench's,        *)
(* Adas_Spec and adas are the ECU's.                                       *)
(***************************************************************************)
EXTENDS EngineBench, Adas, SequenceTheorems, FiniteSetTheorems, TLAPS

-----------------------------------------------------------------------------
(* The formulas. *)

LEMMA Scales ==
    /\ SPEED_MAX \in Nat \ {0} /\ ADC_MAX_VALUE \in Nat /\ COOLANT_MAX \in Nat
    /\ COOLANT_INIT \in 0..COOLANT_MAX /\ MODEL_LOOPS \in Nat
    /\ RoomWatched \in Nat /\ Readings \subseteq 0..ADC_MAX_VALUE
  BY SimAssumption

LEMMA QuotientType ==
    ASSUME NEW a \in Int, NEW b \in Nat \ {0}
    PROVE  Quotient(a, b) \in Int
  BY DEF Quotient

LEMMA LowPassType ==
    ASSUME NEW filtered \in 0..ADC_MAX_VALUE, NEW raw \in 0..ADC_MAX_VALUE
    PROVE  LowPassAdc(filtered, raw) \in 0..ADC_MAX_VALUE
  <1>1. Quotient(raw - filtered, FILTER) \in Int
    BY QuotientType, SimAssumption
  <1>2. ADC_MAX_VALUE \in Nat
    BY SimAssumption
  <1> DEFINE x == filtered + Quotient(raw - filtered, FILTER)
  <1>3. x \in Int
    BY <1>1, <1>2
  <1>4. LowPassAdc(filtered, raw) = Clamp(0, x, ADC_MAX_VALUE)
    BY DEF LowPassAdc
  <1> HIDE DEF x
  <1> QED
    BY <1>2, <1>3, <1>4 DEF Clamp

\* Between the dead zone and the clamp the pedal's range is stretched to 0..100.
LEMMA MapPedalType ==
    ASSUME NEW percent \in Int,
           NEW deadzone \in {THROTTLE_DEADZONE_PERCENT, BRAKE_DEADZONE_PERCENT}
    PROVE  MapPedalPercent(percent, deadzone) \in Percent
  <1>1. CASE deadzone = 3
    BY <1>1 DEF MapPedalPercent, PEDAL_MAX_CLAMP_PERCENT, Percent
  <1>2. CASE deadzone = 8
    BY <1>2 DEF MapPedalPercent, PEDAL_MAX_CLAMP_PERCENT, Percent
  <1> QED
    BY <1>1, <1>2 DEF THROTTLE_DEADZONE_PERCENT, BRAKE_DEADZONE_PERCENT

LEMMA AdcToPercentType ==
    ASSUME NEW adc \in 0..ADC_MAX_VALUE
    PROVE  AdcToPercent(adc) \in Int
  BY SimAssumption DEF AdcToPercent

LEMMA TargetSpeedType ==
    ASSUME NEW t \in Percent, NEW b \in Percent
    PROVE  BrakeCurve(b) \in Nat /\ TargetSpeed(t, b) \in Int
  <1>1. b * b \in Nat
    BY DEF Percent
  <1>2. BrakeCurve(b) \in Nat
    BY <1>1 DEF BrakeCurve
  <1>3. (t * (100 - BrakeCurve(b))) \in Int
    BY <1>2 DEF Percent
  <1>4. ((t * (100 - BrakeCurve(b))) \div 100) * SPEED_MAX \in Int
    BY <1>3, SimAssumption
  <1> QED
    BY <1>2, <1>4 DEF TargetSpeed

\* A physics step stays on the scale, and speeds up by 4 at most.
LEMMA NextSpeedFacts ==
    ASSUME NEW s \in 0..SPEED_MAX, NEW t \in Percent, NEW b \in Percent
    PROVE  NextSpeed(s, t, b) \in 0..SPEED_MAX /\ NextSpeed(s, t, b) <= s + 4
  <1> DEFINE target == TargetSpeed(t, b)
             moved == IF s < target THEN s + 1 + t \div 30
                      ELSE IF s > target THEN s - (1 + BrakeCurve(b) \div 18)
                      ELSE s
             rolled == IF t = 0 /\ b = 0 /\ moved > 0 THEN moved - 1 ELSE moved
  <1>1. target \in Int /\ BrakeCurve(b) \in Nat
    BY TargetSpeedType
  <1>2. t \div 30 \in 0..3 /\ BrakeCurve(b) \div 18 \in Nat
    BY <1>1 DEF Percent
  <1>3. moved \in Int /\ moved <= s + 4
    BY <1>1, <1>2
  <1>4. rolled \in Int /\ rolled <= s + 4
    BY <1>3
  <1>5. NextSpeed(s, t, b) = Clamp(0, rolled, SPEED_MAX)
    BY DEF NextSpeed
  <1> QED
    BY <1>4, <1>5, SimAssumption DEF Clamp

LEMMA QuotientRange ==
    ASSUME NEW a \in Nat, NEW d \in Nat \ {0}, NEW m \in Nat, a <= m * d
    PROVE  a \div d \in 0..m
  <1> DEFINE q == a \div d
  <1>1. q \in Int /\ a = q * d + (a % d) /\ a % d \in 0..d - 1
    OBVIOUS
  <1>2. q >= 0
    <2>1. SUFFICES ASSUME q <= -1 PROVE FALSE
      BY <1>1
    <2>2. q * d <= (-1) * d
      BY <1>1, <2>1
    <2> QED
      BY <1>1, <2>2
  <1>3. q <= m
    <2>1. SUFFICES ASSUME q >= m + 1 PROVE FALSE
      BY <1>1
    <2>2. q * d >= (m + 1) * d
      BY <1>1, <2>1
    <2>3. (m + 1) * d = m * d + d
      OBVIOUS
    <2> QED
      BY <1>1, <2>2, <2>3
  <1> QED
    BY <1>1, <1>2, <1>3

LEMMA RpmRange ==
    ASSUME NEW s \in 0..SPEED_MAX
    PROVE  RpmOf(s) \in ENGINE_RPM_IDLE..ENGINE_RPM_MAX
  <1> DEFINE q == (s * 5200) \div SPEED_MAX
  <1>1. s * 5200 \in Nat /\ s * 5200 <= 5200 * SPEED_MAX
    BY SimAssumption
  <1>2. q \in 0..5200
    BY <1>1, QuotientRange, SimAssumption
  <1>3. ENGINE_RPM_IDLE = 800 /\ ENGINE_RPM_MAX = 6000 /\ ENGINE_RPM_MAX - ENGINE_RPM_IDLE = 5200
    BY DEF ENGINE_RPM_IDLE, ENGINE_RPM_MAX
  <1>4. RpmOf(s) = 800 + q
    BY <1>3 DEF RpmOf
  <1> HIDE DEF q
  <1> QED
    BY <1>2, <1>3, <1>4

LEMMA TargetSpeedRange ==
    ASSUME NEW t \in Percent, NEW b \in Percent
    PROVE  BrakeCurve(b) \in 0..100 /\ TargetSpeed(t, b) \in 0..SPEED_MAX
  <1> DEFINE square == b * b
  <1>1. square \in Nat /\ square <= 100 * 100
    <2>1. b \in 0..100
      BY DEF Percent
    <2>2. b * b <= 100 * b
      BY <2>1
    <2> QED
      BY <2>1, <2>2
  <1>2. BrakeCurve(b) \in 0..100
    <2>1. BrakeCurve(b) = square \div 100
      BY DEF BrakeCurve
    <2> HIDE DEF square
    <2>2. square \div 100 \in 0..100
      BY <1>1, QuotientRange
    <2> QED
      BY <2>1, <2>2
  <1> DEFINE r == 100 - BrakeCurve(b)
             product == t * r
             e == product \div 100
  <1>3. r \in 0..100 /\ t \in 0..100
    BY <1>2 DEF Percent
  <1> HIDE DEF r
  <1>4. product \in Nat /\ product <= 100 * 100
    <2>1. t * r <= 100 * r
      BY <1>3
    <2> QED
      BY <1>3, <2>1
  <1> HIDE DEF product
  <1>5. e \in 0..100
    BY <1>4, QuotientRange
  <1> HIDE DEF e
  <1>6. e * SPEED_MAX \in Nat /\ e * SPEED_MAX <= SPEED_MAX * 100
    BY <1>5, SimAssumption
  <1>7. (e * SPEED_MAX) \div 100 \in 0..SPEED_MAX
    BY <1>6, QuotientRange, SimAssumption
  <1>8. TargetSpeed(t, b) = (e * SPEED_MAX) \div 100
    BY DEF TargetSpeed, e, product, r
  <1> QED
    BY <1>2, <1>7, <1>8

Gap(s, t, b) ==
    IF s < TargetSpeed(t, b) THEN TargetSpeed(t, b) - s ELSE s - TargetSpeed(t, b)

\* A physics step ends within the swing about its target, or nearer to it than it began.
LEMMA NextSpeedNears ==
    ASSUME NEW s \in 0..SPEED_MAX, NEW t \in Percent, NEW b \in Percent
    PROVE  /\ AtTarget(s, t, b) => AtTarget(NextSpeed(s, t, b), t, b)
           /\ AtTarget(NextSpeed(s, t, b), t, b)
                 \/ Gap(NextSpeed(s, t, b), t, b) < Gap(s, t, b)
  <1> DEFINE target == TargetSpeed(t, b)
             up     == t \div 30
             down   == BrakeCurve(b) \div 18
             moved  == IF s < target THEN s + 1 + up
                       ELSE IF s > target THEN s - (1 + down)
                       ELSE s
             rolled == IF t = 0 /\ b = 0 /\ moved > 0 THEN moved - 1 ELSE moved
             next   == Clamp(0, rolled, SPEED_MAX)
  <1>1. target \in 0..SPEED_MAX /\ BrakeCurve(b) \in 0..100
    BY TargetSpeedRange
  <1>2. up \in 0..3 /\ down \in 0..5
    BY <1>1 DEF Percent
  <1>3. t = 0 /\ b = 0 => target = 0
    BY SimAssumption DEF TargetSpeed, BrakeCurve
  <1>4. NextSpeed(s, t, b) = next
    BY DEF NextSpeed
  <1>5. SPEED_MAX \in Nat
    BY SimAssumption
  <1>6. /\ AtTarget(s, t, b) <=> s - target \in -down..up
        /\ AtTarget(next, t, b) <=> next - target \in -down..up
        /\ Gap(s, t, b) = IF s < target THEN target - s ELSE s - target
        /\ Gap(next, t, b) = IF next < target THEN target - next ELSE next - target
    BY DEF AtTarget, Gap
  <1>7. next \in 0..SPEED_MAX
    BY <1>1, <1>2, <1>5 DEF Clamp
  <1>8. CASE s < target
    <2>1. rolled = s + 1 + up
      BY <1>3, <1>8, <1>1, <1>2
    <2>2. next > s /\ next <= target + up
      BY <1>1, <1>2, <1>5, <1>8, <2>1 DEF Clamp
    <2> HIDE DEF next, target, up, down
    <2> QED
      BY <1>1, <1>2, <1>4, <1>6, <1>7, <1>8, <2>2
  <1>9. CASE s > target
    <2>1. next < s /\ next >= target - down
      BY <1>1, <1>2, <1>3, <1>5, <1>9 DEF Clamp
    <2> HIDE DEF next, target, up, down
    <2> QED
      BY <1>1, <1>2, <1>4, <1>6, <1>7, <1>9, <2>1
  <1>10. CASE s = target
    <2>1. next = target
      BY <1>1, <1>3, <1>5, <1>10 DEF Clamp
    <2> HIDE DEF next, target, up, down
    <2> QED
      BY <1>1, <1>2, <1>4, <1>6, <1>7, <1>10, <2>1
  <1> QED
    BY <1>1, <1>8, <1>9, <1>10

-----------------------------------------------------------------------------
(* What a step of the bench does to the board: a step of its task, a command, *)
(* another position of the pedals, or nothing.                                *)

BoardCommand ==
    [name : {"pedal"}, throttle : Percent, brake : Percent]
        \cup [name : {"throttle"}, throttle : Percent] \cup [name : {"brake"}, brake : Percent]
        \cup [name : {"mode"}, mode : {"adc", "uart"}] \cup [name : {"stop", "sim_reset", "status"}]

\* A monitor line, or one line of the answer to a command.
BoardLine ==
    [mode : {"adc", "uart"}, throttle : Percent, brake : Percent]
        \cup [mode : {"adc", "uart"}] \cup [throttle : Percent] \cup [brake : Percent]

AnyCommand ==
    \/ \E t, b \in Percent : SetPedals(t, b)
    \/ \E m \in {"adc", "uart"} : CliCmd_Mode(m)
    \/ EngineSim_Reset

BoardStep ==
    \/ EngSimTask \/ AnyCommand
    \/ \E t, b \in Readings : Press(t, b)
    \/ UNCHANGED sim

PedalsInRange == throttle \in Percent /\ brake \in Percent

\* What the bench keeps for the board is in range.
LinesOK ==
    /\ peer \in Peers
    /\ to_board \in Seq(BoardCommand) /\ to_gui \in Seq(BoardLine)
    /\ m_throttle \in Percent /\ m_brake \in Percent

LEMMA CommandEffect ==
    ASSUME PedalsInRange, NEW c \in BoardCommand, Command(c)
    PROVE  AnyCommand \/ UNCHANGED sim
  <1> USE DEF PedalsInRange
  <1>1. CASE c \in [name : {"pedal"}, throttle : Percent, brake : Percent]
    <2>1. c.name = "pedal" /\ c.throttle \in Percent /\ c.brake \in Percent
      BY <1>1
    <2> QED
      BY <2>1 DEF Command, AnyCommand
  <1>2. CASE c \in [name : {"throttle"}, throttle : Percent]
    <2>1. c.name = "throttle" /\ c.throttle \in Percent
      BY <1>2
    <2> QED
      BY <2>1 DEF Command, AnyCommand
  <1>3. CASE c \in [name : {"brake"}, brake : Percent]
    <2>1. c.name = "brake" /\ c.brake \in Percent
      BY <1>3
    <2> QED
      BY <2>1 DEF Command, AnyCommand
  <1>4. CASE c \in [name : {"mode"}, mode : {"adc", "uart"}]
    <2>1. c.name = "mode" /\ c.mode \in {"adc", "uart"}
      BY <1>4
    <2> QED
      BY <2>1 DEF Command, AnyCommand
  <1>5. CASE c \in [name : {"stop", "sim_reset", "status"}]
    <2>1. c.name = "stop" \/ c.name = "sim_reset" \/ c.name = "status"
      BY <1>5
    <2>2. 0 \in Percent
      BY DEF Percent
    <2> QED
      BY <2>1, <2>2 DEF Command, AnyCommand
  <1> QED
    BY <1>1, <1>2, <1>3, <1>4, <1>5 DEF BoardCommand

LEMMA CommandsInRange ==
    ASSUME peer \in Peers
    PROVE  Percents[peer] \subseteq Percent /\ CommandSet \subseteq BoardCommand
  <1> DEFINE P == Percents[peer]
  <1>1. P \subseteq Percent
    BY BenchAssumption
  <1> HIDE DEF P
  <1>2. [name : {"pedal"}, throttle : P, brake : P]
          \subseteq [name : {"pedal"}, throttle : Percent, brake : Percent]
    BY <1>1
  <1>3. /\ [name : {"throttle"}, throttle : P] \subseteq [name : {"throttle"}, throttle : Percent]
        /\ [name : {"brake"}, brake : P] \subseteq [name : {"brake"}, brake : Percent]
    BY <1>1
  <1>4. CommandSet \subseteq BoardCommand
    BY <1>2, <1>3 DEF CommandSet, BoardCommand, P
  <1> QED
    BY <1>1, <1>4 DEF P

LEMMA ShortSequences ==
    ASSUME NEW S, NEW x \in S, NEW y \in S, NEW z \in S
    PROVE  <<x>> \in Seq(S) /\ <<x, y>> \in Seq(S) /\ <<x, y, z>> \in Seq(S)
  OBVIOUS

\* The answer to a command in range is in range.
LEMMA RepliesInRange ==
    ASSUME PedalsInRange, mode \in {"adc", "uart"}, NEW c \in BoardCommand
    PROVE  Replies(c) \in Seq(BoardLine)
  <1> USE DEF PedalsInRange
  <1>1. /\ \A x \in {"adc", "uart"} : [mode |-> x] \in BoardLine
        /\ \A x \in Percent : [throttle |-> x] \in BoardLine /\ [brake |-> x] \in BoardLine
    BY DEF BoardLine
  <1>2. CASE c.name = "pedal"
    <2>1. c.throttle \in Percent /\ c.brake \in Percent
      BY <1>2 DEF BoardCommand
    <2>2. Replies(c) = << [mode |-> "uart"], [throttle |-> c.throttle], [brake |-> c.brake] >>
      BY <1>2 DEF Replies
    <2> QED
      BY <1>1, <2>1, <2>2, ShortSequences
  <1>3. CASE c.name = "throttle"
    <2>1. c.throttle \in Percent
      BY <1>3 DEF BoardCommand
    <2>2. Replies(c) = << [mode |-> "uart"], [throttle |-> c.throttle] >>
      BY <1>3 DEF Replies
    <2> QED
      BY <1>1, <2>1, <2>2, ShortSequences
  <1>4. CASE c.name = "brake"
    <2>1. c.brake \in Percent
      BY <1>4 DEF BoardCommand
    <2>2. Replies(c) = << [mode |-> "uart"], [brake |-> c.brake] >>
      BY <1>4 DEF Replies
    <2> QED
      BY <1>1, <2>1, <2>2, ShortSequences
  <1>5. CASE c.name = "mode"
    <2>1. c.mode \in {"adc", "uart"}
      BY <1>5 DEF BoardCommand
    <2> QED
      BY <1>1, <1>5, <2>1 DEF Replies
  <1>6. CASE c.name = "status"
    <2>1. Replies(c) = << [mode |-> mode], [throttle |-> throttle], [brake |-> brake] >>
      BY <1>6 DEF Replies
    <2> QED
      BY <1>1, <2>1, ShortSequences
  <1>7. CASE c.name \in {"stop", "sim_reset"}
    BY <1>7 DEF Replies
  <1>8. c.name \in {"pedal", "throttle", "brake", "mode", "stop", "sim_reset", "status"}
    BY DEF BoardCommand
  <1> QED
    BY <1>2, <1>3, <1>4, <1>5, <1>6, <1>7, <1>8

\* The value that a line gives a pedal is in range, and so is the old one.
LEMMA ValuesInRange ==
    ASSUME NEW line \in BoardLine, NEW old \in Percent
    PROVE  ValueOf(line, "throttle", old) \in Percent /\ ValueOf(line, "brake", old) \in Percent
  <1>1. CASE line \in [mode : {"adc", "uart"}, throttle : Percent, brake : Percent]
    BY <1>1 DEF ValueOf
  <1>2. CASE line \in [mode : {"adc", "uart"}]
    BY <1>2 DEF ValueOf
  <1>3. CASE line \in [throttle : Percent]
    BY <1>3 DEF ValueOf
  <1>4. CASE line \in [brake : Percent]
    BY <1>4 DEF ValueOf
  <1> QED
    BY <1>1, <1>2, <1>3, <1>4 DEF BoardLine

LEMMA BenchStep ==
    ASSUME LinesOK, PedalsInRange, mode \in {"adc", "uart"}, [Next]_vars
    PROVE  BoardStep /\ LinesOK'
  <1> USE DEF LinesOK, lines, gui, view
  <1>1. CASE BoardTask
    BY <1>1 DEF BoardTask, BoardStep
  <1>2. CASE Terminal
    <2>1. PICK c \in CommandSet : Command(c)
      BY <1>2 DEF Terminal
    <2> QED
      BY <1>2, <2>1, CommandsInRange, CommandEffect DEF Terminal, BoardStep
  <1>3. CASE Driver
    BY <1>3 DEF Driver, BoardStep
  <1>4. CASE Execute
    <2>1. Head(to_board) \in BoardCommand /\ to_board' \in Seq(BoardCommand)
      BY <1>4 DEF Execute
    <2>2. to_gui' \in Seq(BoardLine)
      BY <1>4, <2>1, RepliesInRange DEF Execute
    <2> QED
      BY <1>4, <2>1, <2>2, CommandEffect DEF Execute, BoardStep
  <1>5. CASE Monitor
    <2>1. [mode |-> mode, throttle |-> throttle, brake |-> brake] \in BoardLine
      BY DEF PedalsInRange, BoardLine
    <2> QED
      BY <1>5, <2>1 DEF Monitor, BoardStep
  <1>6. ASSUME NEW p \in Percents[peer], setThrottle(p) \/ setBrake(p)
        PROVE  BoardStep /\ LinesOK'
    BY <1>6, CommandsInRange DEF setThrottle, setBrake, SetSliders, Untouched, BoardStep
  <1>7. CASE stop
    <2>1. 0 \in Percent /\ [name |-> "stop"] \in BoardCommand
      BY DEF Percent, BoardCommand
    <2> QED
      BY <1>7, <2>1 DEF stop, sendCommand, Untouched, BoardStep
  <1>8. ASSUME NEW m \in {"adc", "uart"}, setMode(m)
        PROVE  BoardStep /\ LinesOK'
    <2>1. [name |-> "mode", mode |-> m] \in BoardCommand
      BY DEF BoardCommand
    <2> QED
      BY <1>8, <2>1 DEF setMode, sendCommand, Untouched, BoardStep
  <1>9. CASE resetSimulation \/ SingleShot
    <2>1. [name |-> "sim_reset"] \in BoardCommand /\ [name |-> "status"] \in BoardCommand
      BY DEF BoardCommand
    <2>2. to_board' \in Seq(BoardCommand) /\ UNCHANGED <<sim, peer, to_gui, m_throttle, m_brake>>
      <3>1. CASE resetSimulation
        BY <3>1, <2>1 DEF resetSimulation, sendCommand, Untouched
      <3>2. CASE SingleShot
        BY <3>2, <2>1 DEF SingleShot, sendCommand, Untouched
      <3> QED
        BY <1>9, <3>1, <3>2
    <2> QED
      BY <2>2 DEF BoardStep
  <1>10. CASE Timeout \/ ApplyPedalButton
    <2>1. [name |-> "pedal", throttle |-> m_throttle, brake |-> m_brake] \in BoardCommand
      BY DEF BoardCommand
    <2> QED
      BY <1>10, <2>1 DEF Timeout, ApplyPedalButton, applyPedal, sendCommand, Untouched, BoardStep
  <1>11. CASE processLine
    <2>1. Head(to_gui) \in BoardLine /\ to_gui' \in Seq(BoardLine)
      BY <1>11 DEF processLine
    <2>2. m_throttle' \in Percent /\ m_brake' \in Percent
      BY <1>11, <2>1, ValuesInRange DEF processLine, applyValues
    <2> QED
      BY <1>11, <2>1, <2>2 DEF processLine, BoardStep
  <1>12. ASSUME NEW c \in CommandSet, commandField(c)
         PROVE  BoardStep /\ LinesOK'
    <2>1. c \in BoardCommand
      BY CommandsInRange
    <2> QED
      BY <1>12, <2>1 DEF commandField, sendCommand, Untouched, BoardStep
  <1>13. CASE UNCHANGED vars
    BY <1>13 DEF vars, BoardStep
  <1> QED
    BY <1>1, <1>2, <1>3, <1>4, <1>5, <1>6, <1>7, <1>8, <1>9, <1>10, <1>11, <1>12, <1>13
       DEF Next, EngineController, User

-----------------------------------------------------------------------------
(* Types. *)

\* What EngSimTask holds between two accesses is in the range of what it writes.
TaskOK ==
    /\ pc \in {"input", "sample", "throttle", "brake", "model", "speed", "rpm",
               "coolant", "warm", "send", "frame", "delay"}
    /\ next_throttle \in Percent /\ next_brake \in Percent
    /\ pc \in {"speed", "rpm"} => local \in 0..SPEED_MAX
    /\ pc = "warm" => local \in 0..COOLANT_MAX
    /\ since_model \in Nat
    /\ throttle_adc \in 0..ADC_MAX_VALUE /\ brake_adc \in 0..ADC_MAX_VALUE
    /\ ask_hit \in BOOLEAN /\ bad_frames \in Nat /\ room \in Nat

SimInv == SimTypeOK /\ TaskOK

LEMMA TargetCoolantRange ==
    ASSUME rpm \in ENGINE_RPM_IDLE..ENGINE_RPM_MAX
    PROVE  TargetCoolant \in 0..COOLANT_MAX
  <1> DEFINE load == IF rpm < 1500 THEN 1 ELSE IF rpm < 3500 THEN 2 ELSE IF rpm < 5000 THEN 3 ELSE 4
             hot  == IF throttle > 80 THEN COOLANT_HOT ELSE 0
             x    == COOLANT_TARGETS[load] + hot
  <1>1. load \in 1..4 /\ hot \in Nat
    BY SimAssumption
  <1>2. x \in Nat
    BY <1>1, SimAssumption
  <1>3. TargetCoolant = Clamp(0, x, COOLANT_MAX)
    BY DEF TargetCoolant
  <1>4. COOLANT_MAX \in Nat
    BY SimAssumption
  <1> HIDE DEF x
  <1> QED
    BY <1>2, <1>3, <1>4 DEF Clamp

LEMMA SimInit == EngineSim_Init => SimInv
  <1> SUFFICES ASSUME EngineSim_Init PROVE SimInv
    OBVIOUS
  <1>1. throttle_adc \in 0..ADC_MAX_VALUE /\ brake_adc \in 0..ADC_MAX_VALUE
    BY Scales DEF EngineSim_Init
  <1>2. 0 \in Percent /\ ENGINE_RPM_IDLE \in ENGINE_RPM_IDLE..ENGINE_RPM_MAX
    BY DEF Percent, ENGINE_RPM_IDLE, ENGINE_RPM_MAX
  <1>3. adc_filter_init \in BOOLEAN /\ ask_hit \in BOOLEAN
    BY DEF EngineSim_Init
  <1>4. SimTypeOK
    BY <1>2, <1>3, Scales DEF EngineSim_Init, SimTypeOK
  <1>5. TaskOK
    BY <1>1, <1>2, <1>3, Scales DEF EngineSim_Init, TaskOK
  <1> QED
    BY <1>4, <1>5 DEF SimInv

LEMMA SimStep ==
    ASSUME SimInv, BoardStep
    PROVE  SimInv'
  <1> USE DEF SimInv, SimTypeOK, TaskOK, pedals, motion, filter, voltage, ghosts
  <1>1. CASE CheckMode
    BY <1>1 DEF CheckMode
  <1>2. CASE Sample
    <2>1. throttle_filtered' \in 0..ADC_MAX_VALUE /\ brake_filtered' \in 0..ADC_MAX_VALUE
      BY <1>2, LowPassType DEF Sample
    <2>2. next_throttle' \in Percent /\ next_brake' \in Percent
      BY <1>2, <2>1, AdcToPercentType, MapPedalType DEF Sample
    <2> QED
      BY <1>2, <2>1, <2>2 DEF Sample
  <1>3. CASE StoreThrottle \/ StoreBrake
    <2>1. 0 \in Percent
      BY DEF Percent
    <2> QED
      BY <1>3, <2>1 DEF StoreThrottle, StoreBrake
  <1>4. CASE ReadSpeed
    BY <1>4 DEF ReadSpeed
  <1>5. CASE StoreSpeed
    <2>1. NextSpeed(local, throttle, brake) \in 0..SPEED_MAX
      BY <1>5, NextSpeedFacts DEF StoreSpeed
    <2>2. RoomAfterStep \in Nat
      BY Scales DEF RoomAfterStep
    <2> QED
      BY <1>5, <2>1, <2>2 DEF StoreSpeed
  <1>6. CASE StoreRpm
    <2>1. rpm' \in ENGINE_RPM_IDLE..ENGINE_RPM_MAX
      BY <1>6, RpmRange DEF StoreRpm
    <2> QED
      BY <1>6, <2>1 DEF StoreRpm
  <1>7. CASE ReadCoolant
    <2>1. TargetCoolant \in 0..COOLANT_MAX
      BY TargetCoolantRange
    <2>2. COOLANT_MAX \in Nat
      BY Scales
    <2> DEFINE target == TargetCoolant
               warmed == IF coolant < target THEN coolant + 1
                         ELSE IF coolant > target THEN coolant - 1 ELSE coolant
    <2>3. pc' = "send" \/ (pc' = "warm" /\ local' = warmed)
      BY <1>7 DEF ReadCoolant
    <2>5. target \in 0..COOLANT_MAX
      BY <2>1
    <2> HIDE DEF target
    <2>4. warmed \in 0..COOLANT_MAX
      BY <2>2, <2>5
    <2> HIDE DEF warmed
    <2> QED
      BY <1>7, <2>3, <2>4 DEF ReadCoolant
  <1>8. CASE StoreCoolant
    BY <1>8 DEF StoreCoolant
  <1>9. CASE PackRpm
    BY <1>9 DEF PackRpm
  <1>10. CASE SendEngineData
    BY <1>10 DEF SendEngineData
  <1>11. CASE Delay
    BY <1>11 DEF Delay
  <1>12. ASSUME NEW t \in Percent, NEW b \in Percent, SetPedals(t, b)
         PROVE  SimInv'
    BY <1>12 DEF SetPedals, task, Polling
  <1>13. ASSUME NEW m \in {"adc", "uart"}, CliCmd_Mode(m)
         PROVE  SimInv'
    BY <1>13 DEF CliCmd_Mode, task, Polling
  <1>14. CASE EngineSim_Reset
    <2>1. 0 \in Percent /\ ENGINE_RPM_IDLE \in ENGINE_RPM_IDLE..ENGINE_RPM_MAX
      BY DEF Percent, ENGINE_RPM_IDLE, ENGINE_RPM_MAX
    <2>2. adc_filter_init' \in BOOLEAN /\ ask_hit' \in BOOLEAN
      BY <1>14 DEF EngineSim_Reset
    <2>3. SimTypeOK'
      BY <1>14, <2>1, <2>2, Scales DEF EngineSim_Reset
    <2>4. TaskOK'
      BY <1>14, <2>2, Scales DEF EngineSim_Reset, task
    <2> QED
      BY <2>3, <2>4
  <1>15. ASSUME NEW t \in Readings, NEW b \in Readings, Press(t, b)
         PROVE  SimInv'
    BY <1>15, Scales DEF Press, task
  <1>16. CASE UNCHANGED sim
    BY <1>16 DEF sim, task
  <1> QED
    BY <1>1, <1>2, <1>3, <1>4, <1>5, <1>6, <1>7, <1>8, <1>9, <1>10, <1>11, <1>12, <1>13,
       <1>14, <1>15, <1>16 DEF BoardStep, EngSimTask, AnyCommand

-----------------------------------------------------------------------------
(* The pedals. *)

\* A command that came before the poll looked at the mode sends the poll away.
PedalInv == PedalHolds /\ (mode = "uart" /\ Polling => ask_hit)

LEMMA PedalStep ==
    ASSUME SimInv, PedalInv, BoardStep
    PROVE  PedalInv'
  <1> USE DEF PedalInv, PedalHolds, Polling, pedals, ghosts
  <1>1. CASE CheckMode
    BY <1>1 DEF CheckMode
  <1>2. CASE Sample \/ StoreThrottle \/ StoreBrake
    BY <1>2 DEF Sample, StoreThrottle, StoreBrake
  <1>3. CASE ReadSpeed \/ StoreSpeed \/ StoreRpm
    BY <1>3 DEF ReadSpeed, StoreSpeed, StoreRpm
  <1>4. CASE ReadCoolant \/ StoreCoolant \/ PackRpm \/ SendEngineData \/ Delay
    BY <1>4 DEF ReadCoolant, StoreCoolant, PackRpm, SendEngineData, Delay
  <1>5. ASSUME NEW t \in Percent, NEW b \in Percent, SetPedals(t, b)
        PROVE  PedalInv'
    BY <1>5 DEF SetPedals, task
  <1>6. ASSUME NEW m \in {"adc", "uart"}, CliCmd_Mode(m)
        PROVE  PedalInv'
    BY <1>6 DEF CliCmd_Mode, task
  <1>7. CASE EngineSim_Reset
    BY <1>7 DEF EngineSim_Reset, task
  <1>8. ASSUME NEW t \in Readings, NEW b \in Readings, Press(t, b)
        PROVE  PedalInv'
    BY <1>8 DEF Press, task
  <1>9. CASE UNCHANGED sim
    BY <1>9 DEF sim, task
  <1> QED
    BY <1>1, <1>2, <1>3, <1>4, <1>5, <1>6, <1>7, <1>8, <1>9
       DEF BoardStep, EngSimTask, AnyCommand

-----------------------------------------------------------------------------
(* The reset. *)

\* The speed that a physics step has read is written back within 4 of it.
ResetInv == ResetHolds /\ (pc = "speed" => local <= room)

LEMMA ResetStep ==
    ASSUME SimInv, ResetInv, BoardStep
    PROVE  ResetInv'
  <1> USE DEF ResetInv, ResetHolds, motion, ghosts
  <1>1. CASE CheckMode \/ Sample \/ StoreThrottle \/ StoreBrake
    BY <1>1 DEF CheckMode, Sample, StoreThrottle, StoreBrake
  <1>2. CASE ReadSpeed
    BY <1>2 DEF ReadSpeed
  <1>3. CASE StoreSpeed
    <2>1. local \in 0..SPEED_MAX /\ throttle \in Percent /\ brake \in Percent /\ room \in Nat
      BY <1>3 DEF StoreSpeed, SimInv, SimTypeOK, TaskOK
    <2>2. speed' \in 0..SPEED_MAX /\ speed' <= local + 4
      BY <1>3, <2>1, NextSpeedFacts DEF StoreSpeed
    <2> QED
      BY <1>3, <2>1, <2>2, Scales DEF StoreSpeed, RoomAfterStep
  <1>4. CASE StoreRpm \/ StoreCoolant \/ PackRpm \/ SendEngineData \/ Delay
    BY <1>4 DEF StoreRpm, StoreCoolant, PackRpm, SendEngineData, Delay
  <1>5. CASE ReadCoolant
    BY <1>5 DEF ReadCoolant
  <1>6. ASSUME NEW t \in Percent, NEW b \in Percent, SetPedals(t, b)
        PROVE  ResetInv'
    BY <1>6 DEF SetPedals, task
  <1>7. ASSUME NEW m \in {"adc", "uart"}, CliCmd_Mode(m)
        PROVE  ResetInv'
    BY <1>7 DEF CliCmd_Mode, task
  <1>8. CASE EngineSim_Reset
    <2>1. pc = "speed" => local \in 0..SPEED_MAX
      BY DEF SimInv, TaskOK
    <2> QED
      BY <1>8, <2>1, Scales DEF EngineSim_Reset, task
  <1>9. ASSUME NEW t \in Readings, NEW b \in Readings, Press(t, b)
        PROVE  ResetInv'
    BY <1>9 DEF Press, task
  <1>10. CASE UNCHANGED sim
    BY <1>10 DEF sim, task
  <1> QED
    BY <1>1, <1>2, <1>3, <1>4, <1>5, <1>6, <1>7, <1>8, <1>9, <1>10
       DEF BoardStep, EngSimTask, AnyCommand

-----------------------------------------------------------------------------
(* The rpm of a frame. *)

\* After a bad frame the speed and the rpm are in step again at every point from which
\* the next frame is packed: a reset that parts them clears the count as well.
InStep ==
    /\ pc = "rpm" => local = speed
    /\ pc \in {"coolant", "warm", "send"} /\ ModelDue => rpm = RpmOf(speed)
    /\ pc = "frame" => local = RpmOf(speed)

RpmInv == RpmErrorHeals /\ (bad_frames = 1 => InStep)

LEMMA RpmStep ==
    ASSUME SimInv, RpmInv, BoardStep
    PROVE  RpmInv'
  <1>0. bad_frames \in Nat
    BY DEF SimInv, TaskOK
  <1> USE DEF RpmInv, RpmErrorHeals, InStep, ModelDue, motion, ghosts
  <1>1. CASE CheckMode \/ Sample \/ StoreThrottle \/ StoreBrake
    BY <1>1 DEF CheckMode, Sample, StoreThrottle, StoreBrake
  <1>2. CASE ReadSpeed
    BY <1>2 DEF ReadSpeed
  <1>3. CASE StoreSpeed
    BY <1>3 DEF StoreSpeed
  <1>4. CASE StoreRpm
    BY <1>4 DEF StoreRpm
  <1>5. CASE ReadCoolant
    BY <1>5 DEF ReadCoolant
  <1>6. CASE StoreCoolant
    BY <1>6 DEF StoreCoolant
  <1>7. CASE PackRpm
    BY <1>7 DEF PackRpm
  <1>8. CASE SendEngineData
    BY <1>0, <1>8 DEF SendEngineData
  <1>9. CASE Delay
    BY <1>9 DEF Delay
  <1>10. ASSUME NEW t \in Percent, NEW b \in Percent, SetPedals(t, b)
         PROVE  RpmInv'
    BY <1>10 DEF SetPedals, task
  <1>11. ASSUME NEW m \in {"adc", "uart"}, CliCmd_Mode(m)
         PROVE  RpmInv'
    BY <1>11 DEF CliCmd_Mode, task
  <1>12. CASE EngineSim_Reset
    BY <1>12 DEF EngineSim_Reset
  <1>13. ASSUME NEW t \in Readings, NEW b \in Readings, Press(t, b)
         PROVE  RpmInv'
    BY <1>13 DEF Press, task
  <1>14. CASE UNCHANGED sim
    BY <1>14 DEF sim, task
  <1> QED
    BY <1>1, <1>2, <1>3, <1>4, <1>5, <1>6, <1>7, <1>8, <1>9, <1>10, <1>11, <1>12, <1>13, <1>14
       DEF BoardStep, EngSimTask, AnyCommand

-----------------------------------------------------------------------------
(* The theorems. *)

BenchInv == LinesOK /\ SimInv

LEMMA BenchInit == Init => BenchInv /\ PedalInv /\ ResetInv /\ RpmInv
  <1> SUFFICES ASSUME Init PROVE BenchInv /\ PedalInv /\ ResetInv /\ RpmInv
    OBVIOUS
  <1>1. EngineSim_Init
    BY DEF Init
  <1>2. SimInv
    BY <1>1, SimInit
  <1>3. LinesOK
    <2>1. 0 \in Percent
      BY DEF Percent
    <2> QED
      BY <2>1 DEF Init, LinesOK
  <1>4. PedalInv /\ ResetInv /\ RpmInv
    BY <1>1 DEF EngineSim_Init, PedalInv, PedalHolds, Polling, ResetInv, ResetHolds, RpmInv,
                RpmErrorHeals
  <1> QED
    BY <1>2, <1>3, <1>4 DEF BenchInv

LEMMA BenchNext ==
    ASSUME BenchInv, [Next]_vars
    PROVE  BenchInv' /\ BoardStep
  <1>1. LinesOK /\ PedalsInRange /\ mode \in {"adc", "uart"}
    BY DEF BenchInv, SimInv, SimTypeOK, PedalsInRange
  <1>2. BoardStep /\ LinesOK'
    BY <1>1, BenchStep
  <1>3. SimInv'
    BY <1>2, SimStep DEF BenchInv
  <1> QED
    BY <1>2, <1>3 DEF BenchInv

LEMMA BenchInvariant == Spec => []BenchInv
  <1>1. Init => BenchInv
    BY BenchInit
  <1>2. BenchInv /\ [Next]_vars => BenchInv'
    BY BenchNext
  <1> QED
    BY <1>1, <1>2, PTL DEF Spec

\* engine_sim.c: whatever the ADC reads and whatever commands come in between, pedals,
\* speed, rpm and coolant stay on their scales; no formula leaves them.
THEOREM EngineTypeCorrect == Spec => []SimTypeOK
  <1>1. BenchInv => SimTypeOK
    BY DEF BenchInv, SimInv
  <1> QED
    BY <1>1, BenchInvariant, PTL

\* engine_sim.c:213, :240-241: the pedals that a command has set stay, unless it came in
\* the middle of a poll.
THEOREM CommandedPedalsHold == Spec => []PedalHolds
  <1>1. Init => PedalInv
    BY BenchInit
  <1>2. BenchInv /\ PedalInv /\ [Next]_vars => PedalInv'
    BY BenchNext, PedalStep DEF BenchInv
  <1>3. PedalInv => PedalHolds
    BY DEF PedalInv
  <1> QED
    BY <1>1, <1>2, <1>3, BenchInvariant, PTL DEF Spec

\* engine_sim.c:246, :309: a reset outside a physics step is not undone by a later one.
THEOREM ResetNotUndone == Spec => []ResetHolds
  <1>1. Init => ResetInv
    BY BenchInit
  <1>2. BenchInv /\ ResetInv /\ [Next]_vars => ResetInv'
    BY BenchNext, ResetStep DEF BenchInv
  <1>3. ResetInv => ResetHolds
    BY DEF ResetInv
  <1> QED
    BY <1>1, <1>2, <1>3, BenchInvariant, PTL DEF Spec

\* engine_sim.c:281-307: a physics step that no reset interrupts ends within the swing of
\* its pedals about their target, or nearer to it than it began; and it does not leave the
\* swing.  With the pedals left alone the speed so comes to swing about the target and
\* goes on doing so, on every scale.
SpeedNears ==
    [][pc = "speed" /\ pc' = "rpm" /\ local = speed =>
         /\ AtTarget(speed, throttle, brake) => AtTarget(speed', throttle, brake)
         /\ \/ AtTarget(speed', throttle, brake)
            \/ Gap(speed', throttle, brake) < Gap(speed, throttle, brake)]_vars

THEOREM SpeedNearsTarget == Spec => SpeedNears
  <1> DEFINE Nears ==
        pc = "speed" /\ pc' = "rpm" /\ local = speed =>
          /\ AtTarget(speed, throttle, brake) => AtTarget(speed', throttle, brake)
          /\ \/ AtTarget(speed', throttle, brake)
             \/ Gap(speed', throttle, brake) < Gap(speed, throttle, brake)
  <1>1. BenchInv /\ [Next]_vars => Nears
    <2> SUFFICES ASSUME BenchInv, [Next]_vars, pc = "speed", pc' = "rpm", local = speed
                 PROVE  /\ AtTarget(speed, throttle, brake) => AtTarget(speed', throttle, brake)
                        /\ \/ AtTarget(speed', throttle, brake)
                           \/ Gap(speed', throttle, brake) < Gap(speed, throttle, brake)
      OBVIOUS
    <2>1. BoardStep
      BY BenchNext
    <2>2. StoreSpeed
      BY <2>1 DEF BoardStep, EngSimTask, AnyCommand, CheckMode, Sample, StoreThrottle,
                  StoreBrake, ReadSpeed, StoreRpm, ReadCoolant, StoreCoolant, PackRpm,
                  SendEngineData, Delay, SetPedals, CliCmd_Mode, EngineSim_Reset, Press, task, sim
    <2>3. speed' = NextSpeed(speed, throttle, brake)
      BY <2>2 DEF StoreSpeed
    <2>4. speed \in 0..SPEED_MAX /\ throttle \in Percent /\ brake \in Percent
      BY DEF BenchInv, SimInv, SimTypeOK
    <2> QED
      BY <2>3, <2>4, NextSpeedNears
  <1>2. BenchInv /\ [Next]_vars => [Nears]_vars
    BY <1>1
  <1> HIDE DEF Nears
  <1>3. Spec => [][Nears]_vars
    BY <1>2, BenchInvariant, PTL DEF Spec
  <1> QED
    BY <1>3 DEF SpeedNears, Nears

\* engine_sim.c:309-320, :388-389: no two frames in a row have an rpm of another speed.
THEOREM OneFrameOutOfStep == Spec => []RpmErrorHeals
  <1>1. Init => RpmInv
    BY BenchInit
  <1>2. BenchInv /\ RpmInv /\ [Next]_vars => RpmInv'
    BY BenchNext, RpmStep DEF BenchInv
  <1>3. RpmInv => RpmErrorHeals
    BY DEF RpmInv
  <1> QED
    BY <1>1, <1>2, <1>3, BenchInvariant, PTL DEF Spec

-----------------------------------------------------------------------------
(* The ADAS ECU: what its invariants say.                                       *)

\* A frame in the queue, received at u at the latest.
FramesUntil(u) == [speed : KmH, ign_on : BOOLEAN, at : 0 .. u]

\* k rounds, and k attempts at the status, at their latest.
Wait(k) == k * Step
Retry(k) == k * (STATUS_PERIOD + Step)

\* The latest moment at which the next round begins.
RoundAt == wake + MaxLag

\* A frame is taken in the round that its place in the queue gives, and the times
\* of reception ascend from the engine's to the last frame's.
QueueInv ==
    /\ uptime <= RoundAt /\ wake <= uptime + DELAY
    /\ \A i \in 1 .. Len(queue) :
          /\ RoundAt + Wait(i - 1) <= queue[i].at + Wait(QUEUE)
          /\ speed_at <= queue[i].at
          /\ \A j \in 1 .. Len(queue) : i <= j => queue[i].at <= queue[j].at

\* The age that the ECU counts is the true one but for the wait in the queue.
AgeInv ==
    engine_active =>
        /\ tick_elapsed(tick, s_last_engine_rx_tick) <= uptime - speed_at
        /\ uptime - speed_at < TICK_MOD
             => uptime - speed_at <= tick_elapsed(tick, s_last_engine_rx_tick) + Wait(QUEUE)

\* The last frame of Board A is in the queue with none of Board A behind it, or else
\* it is the one the ECU uses; none at all leaves the speed 0.
LastHeard ==
    \/ heard.speed = 0
    \/ /\ engine_active /\ speed_kmh = heard.speed /\ speed_at = heard.at
       /\ \A i \in 1 .. Len(queue) : ~queue[i].ign_on
    \/ \E i \in 1 .. Len(queue) :
          /\ queue[i].ign_on /\ queue[i].speed = heard.speed /\ queue[i].at = heard.at
          /\ \A j \in 1 .. Len(queue) : i < j => ~queue[j].ign_on

HistoryFollows == \A r \in Rules : since[r] # -1 <=> Holds(r, world, heard, uptime)

\* A frame with a speed at which the rule applies, received before its condition held.
Fast(r, f) == f.ign_on /\ f.speed >= r.speed /\ f.at <= since[r]

\* While a rule's condition holds, every slower speed, in the queue or in use, is about
\* to be replaced by one received before the condition began to hold; and a frame that
\* came later has one of Board A before it by GAP at most.
SpeedInv(r) ==
    r.speed > 0 /\ since[r] # -1 =>
        /\ (engine_active /\ speed_kmh >= r.speed) \/ \E j \in 1 .. Len(queue) : Fast(r, queue[j])
        /\ \A i \in 1 .. Len(queue) :
              queue[i].ign_on /\ queue[i].speed < r.speed
                => \E j \in 1 .. Len(queue) : i < j /\ Fast(r, queue[j])
        /\ \A k \in 1 .. Len(queue) :
              queue[k].at > since[r] =>
                  \/ engine_active /\ queue[k].at - speed_at <= GAP
                  \/ \E i \in 1 .. Len(queue) :
                        i < k /\ queue[i].ign_on /\ queue[k].at - queue[i].at <= GAP

\* How far the moment d lies ahead of the moment t, negative when it is past.
Ahead(t, d) == IF Due(t, d) THEN 0 - tick_elapsed(t, d) ELSE tick_elapsed(d, t)

\* The two deadlines in true time.
InputAt == uptime + Ahead(tick, next_input_tick)
StatusAt == uptime + Ahead(tick, next_status_tick)

OnSchedule ==
    /\ InputAt <= uptime + INPUT_PERIOD /\ RoundAt <= InputAt + Step
    /\ StatusAt <= uptime + STATUS_PERIOD /\ RoundAt <= StatusAt + Step

\* What a rule asks of the inputs.
SeenIn(r, i) == i.front <= r.front /\ i.rear <= r.rear /\ r.pressed \subseteq i.pressed

\* The inputs that the ECU has read, and the frame on the bus, satisfy the rule.
Seen(r) == SeenIn(r, s_state)
Shown(r) == r.flag \in bus.flags /\ bus.risk >= r.risk

Settled == Max({QUEUE * Step, INPUT_PERIOD})

ShownInv(r) ==
    since[r] # -1 =>
        /\ Seen(r) \/ InputAt <= since[r] + INPUT_PERIOD
        /\ Shown(r) \/ StatusAt <= since[r] + Settled + STATUS_PERIOD + Retry(faults)

RulesInv ==
    /\ QueueInv /\ AgeInv /\ LastHeard /\ HistoryFollows /\ OnSchedule
    /\ \A r \in Rules : SpeedInv(r) /\ ShownInv(r)
-----------------------------------------------------------------------------
(* The ADAS ECU: numbers.                                                       *)

LEMMA AdasNumbers ==
    /\ QUEUE \in Nat \ {0} /\ INPUT_PERIOD \in Nat /\ STATUS_PERIOD \in Nat
    /\ ENGINE_TIMEOUT \in Nat /\ DELAY \in Nat \ {0} /\ GAP \in Nat
    /\ MaxLag \in Nat /\ MaxFaults \in Nat /\ MaxUptime \in Nat
    /\ INPUT_PERIOD < TICK_MOD /\ STATUS_PERIOD < TICK_MOD
    /\ TICK_MOD \in Nat \ {0} /\ Step \in Nat \ {0} /\ Step = DELAY + MaxLag
    /\ GAP + Wait(QUEUE) <= ENGINE_TIMEOUT
  <1>1. Step = DELAY + MaxLag
    BY DEF Step
  <1>2. GAP + Wait(QUEUE) <= ENGINE_TIMEOUT
    BY AdasAssumption, <1>1 DEF Wait
  <1>3. DELAY \in Nat \ {0} /\ MaxLag \in Nat
    BY AdasAssumption
  <1>4. Step \in Nat \ {0}
    BY <1>1, <1>3
  <1> QED
    BY <1>1, <1>2, <1>4, AdasAssumption, TickModAssumption

LEMMA WaitFacts ==
    ASSUME NEW k \in Nat
    PROVE  /\ Wait(k) \in Nat /\ Wait(0) = 0 /\ Wait(k + 1) = Wait(k) + Step
           /\ Retry(k) \in Nat /\ Retry(0) = 0
           /\ Retry(k + 1) = Retry(k) + STATUS_PERIOD + Step
  <1>1. \A s \in Nat : k * s \in Nat /\ 0 * s = 0 /\ (k + 1) * s = k * s + s
    OBVIOUS
  <1>2. Step \in Nat /\ STATUS_PERIOD + Step \in Nat /\ STATUS_PERIOD \in Nat
    BY AdasNumbers
  <1> QED
    BY <1>1, <1>2 DEF Wait, Retry

LEMMA WaitGrows ==
    ASSUME NEW k \in Nat, NEW n \in Nat, k <= n
    PROVE  Wait(k) <= Wait(n) /\ Retry(k) <= Retry(n)
  <1>1. \A s \in Nat : k * s <= n * s
    OBVIOUS
  <1>2. Step \in Nat /\ STATUS_PERIOD + Step \in Nat
    BY AdasNumbers
  <1> QED
    BY <1>1, <1>2 DEF Wait, Retry

LEMMA WaitBefore ==
    ASSUME NEW k \in Nat \ {0}
    PROVE  Wait(k) = Wait(k - 1) + Step
  <1>1. k - 1 \in Nat /\ (k - 1) + 1 = k
    OBVIOUS
  <1> QED
    BY <1>1, WaitFacts

LEMMA AgeFacts ==
    ASSUME NEW t \in Tick, NEW u \in Tick
    PROVE  /\ tick_elapsed(t, u) \in 0 .. TICK_MOD - 1 /\ tick_elapsed(t, t) = 0
           /\ TickPlus(t, 1) \in Tick
           /\ tick_elapsed(TickPlus(t, 1), u) =
                IF tick_elapsed(t, u) = TICK_MOD - 1 THEN 0 ELSE tick_elapsed(t, u) + 1
  BY TickModAssumption DEF tick_elapsed, TickPlus, Tick

LEMMA DeadlineType ==
    ASSUME NEW t \in Tick, NEW d \in Nat, d < TICK_MOD
    PROVE  TickPlus(t, d) \in Tick
  BY TickModAssumption DEF TickPlus, Tick

\* The highest of some levels that include 0, and of two times.
LEMMA HighestLevel ==
    ASSUME NEW S \in SUBSET (0 .. 3), 0 \in S
    PROVE  Max(S) \in S /\ \A x \in S : x <= Max(S)
  <1>1. \E m \in S : \A x \in S : m >= x
    <2>1. CASE 3 \in S
      BY <2>1
    <2>2. CASE 3 \notin S /\ 2 \in S
      BY <2>2
    <2>3. CASE 3 \notin S /\ 2 \notin S /\ 1 \in S
      BY <2>3
    <2>4. CASE 3 \notin S /\ 2 \notin S /\ 1 \notin S
      BY <2>4
    <2> QED
      BY <2>1, <2>2, <2>3, <2>4
  <1>2. Max(S) \in S /\ \A x \in S : Max(S) >= x
    BY <1>1 DEF Max
  <1> QED
    BY <1>2

LEMMA SettledFacts ==
    Settled \in Nat /\ Wait(QUEUE) <= Settled /\ INPUT_PERIOD <= Settled
  <1>1. /\ Wait(QUEUE) \in Nat /\ INPUT_PERIOD \in Nat
        /\ Settled = Max({Wait(QUEUE), INPUT_PERIOD})
    BY AdasNumbers, WaitFacts DEF Settled, Wait
  <1> DEFINE S == {Wait(QUEUE), INPUT_PERIOD}
  <1>2. \E m \in S : \A x \in S : m >= x
    BY <1>1
  <1>3. Max(S) \in S /\ \A x \in S : Max(S) >= x
    BY <1>2 DEF Max
  <1> QED
    BY <1>1, <1>3

-----------------------------------------------------------------------------
(* The judgement. *)

LEMMA DistanceRange ==
    ASSUME NEW adc \in Adc
    PROVE  adc_to_distance_cm(adc) \in Distance
  BY DEF adc_to_distance_cm, Distance, Adc

LEMMA KmHIsNat == \A v \in KmH : v \in Nat
  <1>1. KmH \subseteq Nat
    BY DEF KmH
  <1> QED
    BY <1>1

LEMMA WorldsAndSpeeds ==
    /\ Worlds \subseteq [front_adc : Adc, rear_adc : Adc, pressed : SUBSET Buttons]
    /\ Speeds \subseteq KmH /\ 0 \in KmH /\ 0 \in Adc
  <1>1. /\ Worlds \subseteq [front_adc : Adc, rear_adc : Adc, pressed : SUBSET Buttons]
        /\ Speeds \subseteq KmH
    BY AdasAssumption
  <1>2. 0 \in KmH /\ 0 \in Adc
    BY DEF KmH, Adc
  <1> QED
    BY <1>1, <1>2

Inputs == [front : Distance, rear : Distance, pressed : SUBSET Buttons]

\* What evaluate_status finds, as the levels it takes the highest of.
ButtonLevels(pressed) == {2 : b \in {"lane", "fault"} \cap pressed}
BrakeLevels(pressed, kmh) == {IF kmh >= 30 THEN 2 ELSE 1 : b \in {"brake"} \cap pressed}
FrontLevel(i, kmh) == IF FrontDanger(i, kmh) THEN 3 ELSE IF FrontWarn(i, kmh) THEN 2 ELSE 0
RearLevel(i) == IF RearObstacle(i) THEN 1 ELSE 0

Levels(i, kmh) ==
    {0} \cup ButtonLevels(i.pressed) \cup BrakeLevels(i.pressed, kmh)
        \cup {FrontLevel(i, kmh)} \cup {RearLevel(i)}

LEMMA LevelsAre ==
    ASSUME NEW i, NEW kmh \in Nat
    PROVE  /\ "lane" \in i.pressed \/ "fault" \in i.pressed => 2 \in ButtonLevels(i.pressed)
           /\ "brake" \in i.pressed /\ kmh >= 30 => 2 \in BrakeLevels(i.pressed, kmh)
           /\ Levels(i, kmh) \in SUBSET (0 .. 3)
  <1>1. ASSUME NEW pressed
        PROVE  /\ ButtonLevels(pressed) \in SUBSET (0 .. 3)
               /\ "lane" \in pressed \/ "fault" \in pressed => 2 \in ButtonLevels(pressed)
    BY DEF ButtonLevels
  <1>2. ASSUME NEW pressed
        PROVE  /\ BrakeLevels(pressed, kmh) \in SUBSET (0 .. 3)
               /\ "brake" \in pressed /\ kmh >= 30 => 2 \in BrakeLevels(pressed, kmh)
    BY DEF BrakeLevels
  <1>3. FrontLevel(i, kmh) \in 0 .. 3 /\ RearLevel(i) \in 0 .. 3
    BY DEF FrontLevel, RearLevel
  <1> DEFINE B == ButtonLevels(i.pressed)
             C == BrakeLevels(i.pressed, kmh)
  <1>4. B \in SUBSET (0 .. 3) /\ C \in SUBSET (0 .. 3)
    BY <1>1, <1>2
  <1>5. Levels(i, kmh) = {0} \cup B \cup C \cup {FrontLevel(i, kmh)} \cup {RearLevel(i)}
    BY DEF Levels
  <1> HIDE DEF B, C
  <1>6. Levels(i, kmh) \in SUBSET (0 .. 3)
    <2> SUFFICES ASSUME NEW x \in Levels(i, kmh) PROVE x \in 0 .. 3
      OBVIOUS
    <2>1. x = 0 \/ x \in B \/ x \in C \/ x = FrontLevel(i, kmh) \/ x = RearLevel(i)
      BY <1>5
    <2>2. CASE x \in B \cup C
      BY <1>4, <2>2
    <2>3. CASE x \in {0, FrontLevel(i, kmh), RearLevel(i)}
      BY <1>3, <2>3
    <2> QED
      BY <2>1, <2>2, <2>3
  <1> QED
    BY <1>1, <1>2, <1>6

LEMMA RiskIsHighest ==
    ASSUME NEW i, NEW kmh \in Nat
    PROVE  /\ evaluate_risk(i, kmh) \in 0 .. 3
           /\ \A x \in Levels(i, kmh) : x <= evaluate_risk(i, kmh)
  <1>1. Levels(i, kmh) \in SUBSET (0 .. 3)
    BY LevelsAre
  <1>2. 0 \in Levels(i, kmh)
    BY DEF Levels
  <1>3. evaluate_risk(i, kmh) = Max(Levels(i, kmh))
    BY DEF evaluate_risk, Levels, ButtonLevels, BrakeLevels, FrontLevel, RearLevel
  <1> QED
    BY <1>1, <1>2, <1>3, HighestLevel

LEMMA HighEnough ==
    ASSUME NEW i, NEW kmh \in Nat
    PROVE  /\ FrontDanger(i, kmh) => 3 <= evaluate_risk(i, kmh)
           /\ FrontWarn(i, kmh) => 2 <= evaluate_risk(i, kmh)
           /\ RearObstacle(i) => 1 <= evaluate_risk(i, kmh)
           /\ "lane" \in i.pressed \/ "fault" \in i.pressed => 2 <= evaluate_risk(i, kmh)
           /\ "brake" \in i.pressed /\ kmh >= 30 => 2 <= evaluate_risk(i, kmh)
  <1> DEFINE risk == evaluate_risk(i, kmh)
             B == ButtonLevels(i.pressed)
             C == BrakeLevels(i.pressed, kmh)
  <1>1. risk \in 0 .. 3 /\ \A x \in Levels(i, kmh) : x <= risk
    BY RiskIsHighest
  <1>2. Levels(i, kmh) = {0} \cup B \cup C \cup {FrontLevel(i, kmh)} \cup {RearLevel(i)}
    BY DEF Levels
  <1>3. /\ "lane" \in i.pressed \/ "fault" \in i.pressed => 2 \in B
        /\ "brake" \in i.pressed /\ kmh >= 30 => 2 \in C
    BY LevelsAre
  <1> HIDE DEF risk, B, C
  <1>4. /\ FrontLevel(i, kmh) <= risk /\ RearLevel(i) <= risk
        /\ 2 \in B => 2 <= risk
        /\ 2 \in C => 2 <= risk
    BY <1>1, <1>2
  <1>5. /\ FrontDanger(i, kmh) => 3 <= risk
        /\ FrontWarn(i, kmh) => 2 <= risk
        /\ RearObstacle(i) => 1 <= risk
    BY <1>1, <1>4 DEF FrontLevel, RearLevel
  <1> QED
    BY <1>3, <1>4, <1>5 DEF risk

LEMMA FlagsAre ==
    Flags = {"FRONT_COLLISION", "LANE_DEPARTURE", "HARSH_BRAKE", "REAR_OBSTACLE", "SENSOR_FAULT"}
  BY DEF Flags, Rules, Rule

LEMMA StatusType ==
    ASSUME NEW i, NEW kmh \in Nat
    PROVE  evaluate_status(i, kmh) \in [flags : SUBSET Flags, risk : 0 .. 3, speed : 0 .. 255]
  <1>1. evaluate_flags(i, kmh) \in SUBSET Flags
    BY FlagsAre DEF evaluate_flags
  <1>2. clamp_speed(kmh) \in 0 .. 255
    BY DEF clamp_speed
  <1>3. evaluate_risk(i, kmh) \in 0 .. 3
    BY RiskIsHighest
  <1> QED
    BY <1>1, <1>2, <1>3 DEF evaluate_status

LEMMA FlagOf ==
    ASSUME NEW i, NEW kmh
    PROVE  /\ FrontDanger(i, kmh) \/ FrontWarn(i, kmh)
                => "FRONT_COLLISION" \in evaluate_flags(i, kmh)
           /\ "lane" \in i.pressed => "LANE_DEPARTURE" \in evaluate_flags(i, kmh)
           /\ "brake" \in i.pressed => "HARSH_BRAKE" \in evaluate_flags(i, kmh)
           /\ RearObstacle(i) => "REAR_OBSTACLE" \in evaluate_flags(i, kmh)
           /\ "fault" \in i.pressed => "SENSOR_FAULT" \in evaluate_flags(i, kmh)
  <1>1. FrontDanger(i, kmh) \/ FrontWarn(i, kmh)
             => "FRONT_COLLISION" \in evaluate_flags(i, kmh)
    BY Zenon DEF evaluate_flags
  <1>2. "lane" \in i.pressed => "LANE_DEPARTURE" \in evaluate_flags(i, kmh)
    BY Zenon DEF evaluate_flags
  <1>3. "brake" \in i.pressed => "HARSH_BRAKE" \in evaluate_flags(i, kmh)
    BY Zenon DEF evaluate_flags
  <1>4. RearObstacle(i) => "REAR_OBSTACLE" \in evaluate_flags(i, kmh)
    BY Zenon DEF evaluate_flags
  <1>5. "fault" \in i.pressed => "SENSOR_FAULT" \in evaluate_flags(i, kmh)
    BY Zenon DEF evaluate_flags
  <1> QED
    BY <1>1, <1>2, <1>3, <1>4, <1>5

\* Each rule's flag, and at least its level, is in the frame that is made of inputs and a
\* speed which satisfy the rule.
LEMMA RuleIsShown ==
    ASSUME NEW r \in Rules, NEW i \in Inputs, NEW kmh \in Nat,
           SeenIn(r, i), kmh >= r.speed
    PROVE  /\ r.flag \in evaluate_status(i, kmh).flags
           /\ evaluate_status(i, kmh).risk >= r.risk
  <1>1. \/ FrontDanger(i, kmh) /\ r.flag = "FRONT_COLLISION" /\ r.risk \in {2, 3}
        \/ FrontWarn(i, kmh) /\ r.flag = "FRONT_COLLISION" /\ r.risk = 2
        \/ "lane" \in i.pressed /\ r.flag = "LANE_DEPARTURE" /\ r.risk = 2
        \/ "brake" \in i.pressed /\ kmh >= 30 /\ r.flag = "HARSH_BRAKE" /\ r.risk = 2
        \/ RearObstacle(i) /\ r.flag = "REAR_OBSTACLE" /\ r.risk = 1
        \/ "fault" \in i.pressed /\ r.flag = "SENSOR_FAULT" /\ r.risk = 2
    BY DEF Rules, Rule, SeenIn, FrontDanger, FrontWarn, RearObstacle, Inputs, Distance
  <1>2. /\ FrontDanger(i, kmh) \/ FrontWarn(i, kmh)
             => "FRONT_COLLISION" \in evaluate_flags(i, kmh)
        /\ "lane" \in i.pressed => "LANE_DEPARTURE" \in evaluate_flags(i, kmh)
        /\ "brake" \in i.pressed => "HARSH_BRAKE" \in evaluate_flags(i, kmh)
        /\ RearObstacle(i) => "REAR_OBSTACLE" \in evaluate_flags(i, kmh)
        /\ "fault" \in i.pressed => "SENSOR_FAULT" \in evaluate_flags(i, kmh)
    BY FlagOf
  <1>3. r.flag \in evaluate_flags(i, kmh)
    BY <1>1, <1>2
  <1> DEFINE risk == evaluate_risk(i, kmh)
  <1>4. risk \in 0 .. 3
    BY RiskIsHighest
  <1>5. \/ r.risk \in {2, 3} /\ 3 <= risk
        \/ r.risk = 2 /\ 2 <= risk
        \/ r.risk = 1 /\ 1 <= risk
    BY <1>1, HighEnough, Zenon
  <1> HIDE DEF risk
  <1>6. risk >= r.risk
    BY <1>4, <1>5
  <1> QED
    BY <1>3, <1>6 DEF evaluate_status, risk
-----------------------------------------------------------------------------
(* The queue of received frames. *)

LEMMA FramesInQueue ==
    ASSUME NEW u \in Nat, NEW q \in Seq(FramesUntil(u))
    PROVE  /\ Len(q) \in Nat
           /\ \A i \in 1 .. Len(q) : /\ q[i] \in FramesUntil(u)
                                     /\ q[i].speed \in KmH /\ q[i].ign_on \in BOOLEAN
                                     /\ q[i].at \in Nat /\ q[i].at <= u
           /\ \A v \in Nat : u <= v => q \in Seq(FramesUntil(v))
  <1>1. Len(q) \in Nat /\ q \in [1 .. Len(q) -> FramesUntil(u)]
    BY LenProperties
  <1>2. \A i \in 1 .. Len(q) : q[i] \in FramesUntil(u)
    BY <1>1
  <1>3. ASSUME NEW v \in Nat, u <= v
        PROVE  q \in Seq(FramesUntil(v))
    <2>1. \A f \in FramesUntil(u) : f \in FramesUntil(v)
      BY <1>3 DEF FramesUntil
    <2>2. q \in [1 .. Len(q) -> FramesUntil(v)]
      BY <1>1, <1>2, <2>1
    <2> QED
      BY <1>1, <2>2
  <1> QED
    BY <1>1, <1>2, <1>3 DEF FramesUntil

LEMMA FrameTaken ==
    ASSUME NEW u \in Nat, NEW q \in Seq(FramesUntil(u)), q # <<>>
    PROVE  /\ Len(q) \in Nat \ {0} /\ Head(q) = q[1]
           /\ Tail(q) \in Seq(FramesUntil(u)) /\ Len(Tail(q)) = Len(q) - 1
           /\ \A i \in 1 .. Len(Tail(q)) : Tail(q)[i] = q[i + 1]
  BY HeadTailProperties, LenProperties, EmptySeq

LEMMA FrameAdded ==
    ASSUME NEW u \in Nat, NEW q \in Seq(FramesUntil(u)), NEW f \in FramesUntil(u)
    PROVE  /\ Append(q, f) \in Seq(FramesUntil(u)) /\ Len(Append(q, f)) = Len(q) + 1
           /\ \A i \in 1 .. Len(q) : Append(q, f)[i] = q[i]
           /\ Append(q, f)[Len(q) + 1] = f
  BY AppendProperties

\* What PollRx does to the queue and to the speed that is used.
LEMMA PollEffect ==
    ASSUME AdasTypeOK, PollRx
    PROVE  \/ /\ Len(queue) = 0 /\ queue' = queue
              /\ UNCHANGED <<speed_kmh, engine_active, s_last_engine_rx_tick, speed_at>>
           \/ /\ Len(queue) > 0 /\ Len(queue') = Len(queue) - 1
              /\ queue' \in Seq(FramesUntil(uptime))
              /\ \A i \in 1 .. Len(queue') : queue'[i] = queue[i + 1]
              /\ \/ /\ queue[1].ign_on
                    /\ speed_kmh' = queue[1].speed /\ engine_active' = TRUE
                    /\ s_last_engine_rx_tick' = tick /\ speed_at' = queue[1].at
                 \/ /\ ~queue[1].ign_on
                    /\ UNCHANGED <<speed_kmh, engine_active, s_last_engine_rx_tick, speed_at>>
  <1>1. uptime \in Nat /\ queue \in Seq(FramesUntil(uptime))
    BY AdasNumbers DEF AdasTypeOK, FramesUntil
  <1>2. CASE queue = <<>>
    <2>1. Len(queue) = 0 /\ queue' = queue
      BY <1>2 DEF PollRx
    <2> QED
      BY <1>2, <2>1 DEF PollRx, engine
  <1>3. CASE queue # <<>>
    <2>1. Len(queue) \in Nat \ {0} /\ Len(queue) > 0 /\ Head(queue) = queue[1]
      BY <1>1, <1>3, FrameTaken
    <2>2. queue' = Tail(queue)
      BY <1>3 DEF PollRx
    <2>3. /\ queue' \in Seq(FramesUntil(uptime)) /\ Len(queue') = Len(queue) - 1
          /\ \A i \in 1 .. Len(queue') : queue'[i] = queue[i + 1]
      BY <1>1, <1>3, <2>2, FrameTaken
    <2>4. CASE queue[1].ign_on
      <3>1. /\ speed_kmh' = queue[1].speed /\ engine_active' = TRUE
            /\ s_last_engine_rx_tick' = tick /\ speed_at' = queue[1].at
        BY <1>3, <2>1, <2>4 DEF PollRx
      <3> QED
        BY <2>1, <2>3, <2>4, <3>1, Zenon
    <2>5. CASE ~queue[1].ign_on
      <3>1. UNCHANGED <<speed_kmh, engine_active, s_last_engine_rx_tick, speed_at>>
        BY <1>3, <2>1, <2>5 DEF PollRx, engine
      <3> QED
        BY <2>1, <2>3, <2>5, <3>1
    <2> QED
      BY <2>4, <2>5
  <1> QED
    BY <1>2, <1>3

\* What a round does beside that.
RoundWith(fails) ==
    /\ uptime >= wake /\ wake' = uptime + DELAY /\ PollRx
    /\ faults' = faults + Cardinality(fails) /\ faults' <= MaxFaults
    /\ Due(tick, next_input_tick) =>
          InputPoll(fails) /\ next_input_tick' = TickPlus(tick, INPUT_PERIOD)
    /\ ~Due(tick, next_input_tick) =>
          UNCHANGED <<s_state, next_input_tick>> /\ fails \cap {"front", "rear"} = {}
    /\ Due(tick, next_status_tick) =>
          SendStatus(fails) /\ next_status_tick' = TickPlus(tick, STATUS_PERIOD)
    /\ ~Due(tick, next_status_tick) => UNCHANGED <<bus, bus_age, next_status_tick>>
    /\ UNCHANGED <<tick, world, uptime, heard>>
    /\ Track(fails \cap {"front", "rear"} # {})

LEMMA FailuresAreCounted ==
    ASSUME NEW fails \in SUBSET {"front", "rear", "send"}
    PROVE  Cardinality(fails) \in Nat /\ (fails # {} => Cardinality(fails) >= 1)
  <1>1. IsFiniteSet({"front", "rear", "send"})
    <2>1. IsFiniteSet({"front"})
      BY FS_Singleton
    <2>2. IsFiniteSet({"front"} \cup {"rear"})
      BY <2>1, FS_AddElement
    <2>3. IsFiniteSet({"front"} \cup {"rear"} \cup {"send"})
      BY <2>2, FS_AddElement
    <2>4. {"front"} \cup {"rear"} \cup {"send"} = {"front", "rear", "send"}
      OBVIOUS
    <2> QED
      BY <2>3, <2>4
  <1>2. IsFiniteSet(fails)
    BY <1>1, FS_Subset
  <1> QED
    BY <1>2, FS_CardinalityType, FS_EmptySet

LEMMA RoundEffect ==
    ASSUME Round
    PROVE  \E fails \in SUBSET {"front", "rear", "send"} : RoundWith(fails)
  <1> DEFINE input_due  == Due(tick, next_input_tick)
             status_due == Due(tick, next_status_tick)
             May == (IF input_due THEN {"front", "rear"} ELSE {})
                        \cup (IF status_due THEN {"send"} ELSE {})
  <1>1. PICK fails \in SUBSET May :
             /\ faults' = faults + Cardinality(fails) /\ faults' <= MaxFaults
             /\ IF input_due
                THEN InputPoll(fails) /\ next_input_tick' = TickPlus(tick, INPUT_PERIOD)
                ELSE UNCHANGED <<s_state, next_input_tick>>
             /\ IF status_due
                THEN SendStatus(fails) /\ next_status_tick' = TickPlus(tick, STATUS_PERIOD)
                ELSE UNCHANGED <<bus, bus_age, next_status_tick>>
             /\ UNCHANGED <<tick, world, uptime, heard>>
             /\ Track(fails \cap {"front", "rear"} # {})
    BY Zenon DEF Round
  <1>2. fails \in SUBSET {"front", "rear", "send"}
    OBVIOUS
  <1>3. ~input_due => fails \cap {"front", "rear"} = {}
    OBVIOUS
  <1>4. uptime >= wake /\ wake' = uptime + DELAY /\ PollRx
    BY DEF Round
  <1> HIDE DEF input_due, status_due, May
  <1>5. RoundWith(fails)
    BY <1>1, <1>3, <1>4, Zenon DEF RoundWith, input_due, status_due
  <1> QED
    BY <1>2, <1>5
-----------------------------------------------------------------------------
(* Types. *)

LEMMA TrackedTimes ==
    ASSUME NEW restart, Track(restart), uptime \in Nat, uptime' \in Nat, uptime <= uptime',
           since \in [Rules -> -1 .. uptime]
    PROVE  since' \in [Rules -> -1 .. uptime']
  <1>1. \A r \in Rules : since[r] \in -1 .. uptime
    OBVIOUS
  <1> QED
    BY <1>1 DEF Track

LEMMA InputsRead ==
    ASSUME AdasTypeOK, NEW fails, InputPoll(fails)
    PROVE  s_state' \in Inputs
  <1>1. world \in [front_adc : Adc, rear_adc : Adc, pressed : SUBSET Buttons] /\ 0 \in Adc
    BY WorldsAndSpeeds DEF AdasTypeOK
  <1> DEFINE front == IF "front" \in fails THEN 0 ELSE world.front_adc
             rear == IF "rear" \in fails THEN 0 ELSE world.rear_adc
  <1>2. front \in Adc /\ rear \in Adc /\ world.pressed \in SUBSET Buttons
    BY <1>1
  <1>3. s_state' = [front |-> adc_to_distance_cm(front), rear |-> adc_to_distance_cm(rear),
                    pressed |-> world.pressed]
    BY DEF InputPoll
  <1> HIDE DEF front, rear
  <1>4. adc_to_distance_cm(front) \in Distance /\ adc_to_distance_cm(rear) \in Distance
    BY <1>2, DistanceRange
  <1> QED
    BY <1>2, <1>3, <1>4 DEF Inputs

LEMMA PollTypes ==
    ASSUME AdasTypeOK, PollRx
    PROVE  /\ queue' \in Seq(FramesUntil(uptime)) /\ Len(queue') <= QUEUE
           /\ speed_kmh' \in KmH /\ engine_active' \in BOOLEAN
           /\ s_last_engine_rx_tick' \in Tick /\ speed_at' \in 0 .. uptime
  <1>1. /\ uptime \in Nat /\ queue \in Seq(FramesUntil(uptime)) /\ Len(queue) <= QUEUE
        /\ QUEUE \in Nat /\ Len(queue) \in Nat
    BY AdasNumbers, FramesInQueue DEF AdasTypeOK, FramesUntil
  <1>2. speed_kmh \in KmH /\ speed_at \in 0 .. uptime
    BY DEF AdasTypeOK
  <1>3. engine_active \in BOOLEAN /\ s_last_engine_rx_tick \in Tick /\ tick \in Tick
    BY DEF AdasTypeOK
  <1>4. CASE UNCHANGED <<queue, speed_kmh, engine_active, s_last_engine_rx_tick, speed_at>>
    BY <1>1, <1>2, <1>3, <1>4
  <1>5. CASE /\ Len(queue) > 0 /\ Len(queue') = Len(queue) - 1
             /\ queue' \in Seq(FramesUntil(uptime))
             /\ \/ /\ speed_kmh' = queue[1].speed /\ engine_active' = TRUE
                   /\ s_last_engine_rx_tick' = tick /\ speed_at' = queue[1].at
                \/ UNCHANGED <<speed_kmh, engine_active, s_last_engine_rx_tick, speed_at>>
    <2>1. queue[1].speed \in KmH /\ queue[1].at \in 0 .. uptime
      <3>1. 1 \in 1 .. Len(queue)
        BY <1>1, <1>5
      <3> QED
        BY <1>1, <3>1, FramesInQueue
    <2>2. /\ speed_kmh' \in KmH /\ speed_at' \in 0 .. uptime
          /\ s_last_engine_rx_tick' \in Tick
      BY <1>2, <1>3, <1>5, <2>1
    <2>3. engine_active' \in BOOLEAN
      BY <1>3, <1>5, Zenon
    <2>4. Len(queue') <= QUEUE
      BY <1>1, <1>5
    <2> QED
      BY <1>5, <2>2, <2>3, <2>4
  <1> QED
    BY <1>4, <1>5, PollEffect, Zenon

LEMMA SpeedType ==
    ASSUME speed_kmh' \in KmH
    PROVE  VehicleSpeed \in KmH /\ VehicleSpeed \in Nat
  <1>1. 0 \in KmH /\ \A n \in KmH : n \in Nat
    BY KmHIsNat, WorldsAndSpeeds
  <1> QED
    BY <1>1 DEF VehicleSpeed

LEMMA StatusTypes ==
    ASSUME AdasTypeOK, NEW fails, SendStatus(fails), speed_kmh' \in KmH, speed_at' \in 0 .. uptime
    PROVE  /\ bus' \in [flags : SUBSET Flags, risk : 0 .. 3, speed : 0 .. 255]
           /\ bus_age' \in 0 .. uptime
  <1>1. uptime \in Nat /\ bus_age \in 0 .. uptime
    BY AdasNumbers DEF AdasTypeOK
  <1>2. CASE "send" \in fails
    BY <1>2 DEF SendStatus, AdasTypeOK
  <1>3. CASE "send" \notin fails
    <2>1. bus' = evaluate_status(s_state', VehicleSpeed)
      BY <1>3 DEF SendStatus
    <2>2. bus_age' = 0 \/ bus_age' = uptime - speed_at'
      BY <1>3 DEF SendStatus
    <2> QED
      BY <1>1, <2>1, <2>2, SpeedType, StatusType
  <1> QED
    BY <1>2, <1>3

LEMMA FrameTypes ==
    ASSUME NEW f \in Frames
    PROVE  f.speed \in KmH /\ f.ign_on \in BOOLEAN
  <1>1. CASE f \in [speed : Speeds, ign_on : {TRUE}]
    BY <1>1, WorldsAndSpeeds
  <1>2. CASE f = [speed |-> 0, ign_on |-> FALSE]
    <2>1. f.speed = 0 /\ f.ign_on = FALSE
      BY <1>2
    <2> QED
      BY <2>1, WorldsAndSpeeds
  <1> QED
    BY <1>1, <1>2 DEF Frames

LEMMA AdasTypeInit == Adas_Init => AdasTypeOK
  <1> SUFFICES ASSUME Adas_Init PROVE AdasTypeOK
    OBVIOUS
  <1>1. 0 \in Tick /\ 0 \in KmH /\ Far \in Inputs
    BY TickModAssumption DEF Tick, KmH, Far, Inputs, Distance
  <1>2. /\ 0 \in 0 .. MaxUptime /\ 0 \in 0 .. MaxUptime + DELAY /\ 0 \in 0 .. MaxFaults
        /\ 0 <= QUEUE /\ 0 \in 0 .. 0
    BY AdasNumbers
  <1>3. queue \in Seq([speed : KmH, ign_on : BOOLEAN, at : 0 .. uptime]) /\ Len(queue) <= QUEUE
    BY <1>2, EmptySeq DEF Adas_Init
  <1>4. since \in [Rules -> -1 .. uptime]
    BY DEF Adas_Init
  <1>5. bus \in [flags : SUBSET Flags, risk : 0 .. 3, speed : 0 .. 255]
    BY DEF Adas_Init
  <1>6. heard \in [speed : KmH, at : 0 .. uptime]
    BY <1>1, <1>2 DEF Adas_Init
  <1> QED
    BY <1>1, <1>2, <1>3, <1>4, <1>5, <1>6 DEF Adas_Init, AdasTypeOK, Inputs

LEMMA AdasTypeStep ==
    ASSUME AdasTypeOK, [Adas_Next]_adas
    PROVE  AdasTypeOK'
  <1>a. /\ uptime \in Nat /\ uptime \in 0 .. MaxUptime /\ tick \in Tick
        /\ queue \in Seq(FramesUntil(uptime)) /\ since \in [Rules -> -1 .. uptime]
    BY AdasNumbers DEF AdasTypeOK, FramesUntil
  <1>1. ASSUME Round
        PROVE  AdasTypeOK'
    <2>1. PICK fails \in SUBSET {"front", "rear", "send"} : RoundWith(fails)
      BY <1>1, RoundEffect
    <2>2. PollRx /\ UNCHANGED <<tick, world, uptime, heard>>
      BY <2>1 DEF RoundWith
    <2>3. /\ queue' \in Seq(FramesUntil(uptime)) /\ Len(queue') <= QUEUE
          /\ speed_kmh' \in KmH /\ engine_active' \in BOOLEAN
          /\ s_last_engine_rx_tick' \in Tick /\ speed_at' \in 0 .. uptime
      BY <2>2, PollTypes
    <2>4. s_state' \in Inputs /\ next_input_tick' \in Tick
      <3>1. CASE Due(tick, next_input_tick)
        <4>1. InputPoll(fails) /\ next_input_tick' = TickPlus(tick, INPUT_PERIOD)
          BY <2>1, <3>1 DEF RoundWith
        <4> QED
          BY <1>a, <4>1, InputsRead, DeadlineType, AdasNumbers
      <3>2. CASE ~Due(tick, next_input_tick)
        BY <2>1, <3>2 DEF RoundWith, AdasTypeOK, Inputs
      <3> QED
        BY <3>1, <3>2
    <2>5. /\ bus' \in [flags : SUBSET Flags, risk : 0 .. 3, speed : 0 .. 255]
          /\ bus_age' \in 0 .. uptime /\ next_status_tick' \in Tick
      <3>1. CASE Due(tick, next_status_tick)
        <4>1. SendStatus(fails) /\ next_status_tick' = TickPlus(tick, STATUS_PERIOD)
          BY <2>1, <3>1 DEF RoundWith
        <4> QED
          BY <1>a, <2>3, <4>1, StatusTypes, DeadlineType, AdasNumbers
      <3>2. CASE ~Due(tick, next_status_tick)
        BY <2>1, <3>2 DEF RoundWith, AdasTypeOK
      <3> QED
        BY <3>1, <3>2
    <2>6. since' \in [Rules -> -1 .. uptime']
      <3>1. Track(fails \cap {"front", "rear"} # {})
        BY <2>1 DEF RoundWith
      <3> QED
        BY <1>a, <2>2, <3>1, TrackedTimes
    <2>7. wake' \in 0 .. MaxUptime + DELAY /\ faults' \in 0 .. MaxFaults
      <3>1. /\ wake' = uptime + DELAY /\ faults' = faults + Cardinality(fails)
            /\ faults' <= MaxFaults /\ faults \in 0 .. MaxFaults
        BY <2>1 DEF RoundWith, AdasTypeOK
      <3>2. Cardinality(fails) \in Nat
        BY FailuresAreCounted
      <3> QED
        BY <1>a, <3>1, <3>2, AdasNumbers
    <2> QED
      BY <2>2, <2>3, <2>4, <2>5, <2>6, <2>7 DEF AdasTypeOK, FramesUntil, Inputs
  <1>2. ASSUME NEW f \in Frames, Receive(f)
        PROVE  AdasTypeOK'
    <2>1. f.speed \in KmH /\ f.ign_on \in BOOLEAN
      BY FrameTypes
    <2> DEFINE g == [speed |-> f.speed, ign_on |-> f.ign_on, at |-> uptime]
    <2>2. g \in FramesUntil(uptime)
      BY <1>a, <2>1 DEF FramesUntil
    <2>3. queue' \in Seq(FramesUntil(uptime)) /\ Len(queue') <= QUEUE
      <3>1. CASE Len(queue) < QUEUE
        <4>1. queue' = Append(queue, g)
          BY <1>2, <3>1 DEF Receive
        <4>2. Len(queue) \in Nat
          BY <1>a, FramesInQueue
        <4> QED
          BY <1>a, <2>2, <3>1, <4>1, <4>2, FrameAdded, AdasNumbers
      <3>2. CASE ~(Len(queue) < QUEUE)
        BY <1>2, <1>a, <3>2 DEF Receive, AdasTypeOK
      <3> QED
        BY <3>1, <3>2
    <2>4. heard' \in [speed : KmH, at : 0 .. uptime]
      BY <1>2, <1>a, <2>1 DEF Receive, AdasTypeOK
    <2>5. since' \in [Rules -> -1 .. uptime']
      <3>1. uptime' \in Nat /\ uptime <= uptime'
        BY <1>2, <1>a DEF Receive
      <3> QED
        BY <1>2, <1>a, <3>1, TrackedTimes DEF Receive
    <2> QED
      BY <1>2, <2>3, <2>4, <2>5 DEF Receive, AdasTypeOK, FramesUntil, engine
  <1>3. ASSUME NEW w \in Worlds, Move(w)
        PROVE  AdasTypeOK'
    <2>1. since' \in [Rules -> -1 .. uptime']
      <3>1. uptime' \in Nat /\ uptime <= uptime'
        BY <1>3, <1>a DEF Move
      <3> QED
        BY <1>3, <1>a, <3>1, TrackedTimes DEF Move
    <2> QED
      BY <1>3, <2>1 DEF Move, AdasTypeOK, engine
  <1>4. ASSUME AdvanceTick
        PROVE  AdasTypeOK'
    <2>1. /\ uptime' \in 0 .. MaxUptime /\ uptime' \in Nat /\ uptime <= uptime'
          /\ \A n \in 0 .. uptime : n \in 0 .. uptime'
      BY <1>4, <1>a, AdasNumbers DEF AdvanceTick
    <2>2. tick' \in Tick
      BY <1>4, <1>a, AgeFacts DEF AdvanceTick
    <2>3. queue' \in Seq(FramesUntil(uptime'))
      BY <1>4, <1>a, <2>1, FramesInQueue DEF AdvanceTick
    <2>4. since' \in [Rules -> -1 .. uptime']
      BY <1>4, <1>a, <2>1, TrackedTimes DEF AdvanceTick
    <2>5. /\ speed_at' \in 0 .. uptime' /\ bus_age' \in 0 .. uptime'
          /\ heard' \in [speed : KmH, at : 0 .. uptime']
      BY <1>4, <2>1 DEF AdvanceTick, AdasTypeOK, engine
    <2> QED
      BY <1>4, <2>1, <2>2, <2>3, <2>4, <2>5 DEF AdvanceTick, AdasTypeOK, FramesUntil, engine
  <1>5. ASSUME UNCHANGED adas
        PROVE  AdasTypeOK'
    BY <1>5 DEF adas, engine, AdasTypeOK
  <1> QED
    BY <1>1, <1>2, <1>3, <1>4, <1>5 DEF Adas_Next

\* Every variable of the ADAS ECU keeps its type: the inputs are distances that a
\* conversion gives, and what is on the bus is a level, a set of flags and a clamped speed.
THEOREM AdasTypeCorrect == Adas_Spec => []AdasTypeOK
  BY AdasTypeInit, AdasTypeStep, PTL DEF Adas_Spec
-----------------------------------------------------------------------------
(* No status is judged with a stale speed.                                      *)

LEMMA QueueInit == Adas_Init => QueueInv /\ AgeInv /\ SpeedNotStale
  <1> SUFFICES ASSUME Adas_Init PROVE QueueInv /\ AgeInv /\ SpeedNotStale
    OBVIOUS
  <1>1. uptime = 0 /\ wake = 0 /\ Len(queue) = 0 /\ bus_age = 0
    BY EmptySeq DEF Adas_Init
  <1>2. ~engine_active
    BY DEF Adas_Init
  <1>3. Wait(QUEUE) \in Nat
    BY WaitFacts, AdasNumbers
  <1>4. QueueInv
    BY <1>1, AdasNumbers DEF QueueInv, RoundAt
  <1>5. AgeInv
    BY <1>2 DEF AgeInv
  <1>6. SpeedNotStale
    BY <1>1, <1>3, AdasNumbers DEF SpeedNotStale, Wait
  <1> QED
    BY <1>4, <1>5, <1>6

LEMMA QueueTyped ==
    ASSUME AdasTypeOK
    PROVE  /\ uptime \in Nat /\ queue \in Seq(FramesUntil(uptime)) /\ wake \in Nat
           /\ speed_at \in Nat /\ speed_at <= uptime /\ Len(queue) \in Nat
           /\ \A i \in 1 .. Len(queue) : queue[i].at \in Nat /\ queue[i].at <= uptime
           /\ Len(queue) <= QUEUE
  <1>1. uptime \in Nat /\ queue \in Seq(FramesUntil(uptime))
    BY AdasNumbers DEF AdasTypeOK, FramesUntil
  <1>2. wake \in Nat /\ speed_at \in Nat /\ speed_at <= uptime /\ Len(queue) <= QUEUE
    BY <1>1, AdasNumbers DEF AdasTypeOK
  <1> QED
    BY <1>1, <1>2, FramesInQueue

\* A frame that is received waits for the rounds that its place in the queue gives.
LEMMA QueueReceives ==
    ASSUME AdasTypeOK, QueueInv, NEW f, Receive(f), AdasTypeOK'
    PROVE  QueueInv'
  <1>a. /\ uptime \in Nat /\ queue \in Seq(FramesUntil(uptime)) /\ wake \in Nat
        /\ speed_at \in Nat /\ speed_at <= uptime /\ Len(queue) \in Nat
        /\ \A i \in 1 .. Len(queue) : queue[i].at \in Nat /\ queue[i].at <= uptime
    BY QueueTyped
  <1>b. UNCHANGED <<uptime, wake, speed_at>>
    BY DEF Receive, engine
  <1>1. CASE queue' = queue
    BY <1>b, <1>1 DEF QueueInv, RoundAt
  <1>2. CASE Len(queue) < QUEUE
    <2> DEFINE g == [speed |-> f.speed, ign_on |-> f.ign_on, at |-> uptime]
               n == Len(queue) + 1
    <2>1. queue' = Append(queue, g)
      BY <1>2 DEF Receive
    <2>2. g \in FramesUntil(uptime) /\ g.at = uptime
      <3>1. queue' \in Seq(FramesUntil(uptime))
        BY <1>b DEF AdasTypeOK, FramesUntil
      <3>2. g = queue'[Len(queue')]
        BY <1>a, <2>1, AppendProperties
      <3>3. Len(queue') \in 1 .. Len(queue')
        BY <1>a, <2>1, AppendProperties
      <3> QED
        BY <1>a, <3>1, <3>2, <3>3, FramesInQueue
    <2>3. /\ Len(queue') = n /\ queue'[n].at = uptime
          /\ \A i \in 1 .. Len(queue) : queue'[i] = queue[i]
      BY <1>a, <2>1, <2>2, FrameAdded
    <2>4. Wait(n - 1) \in Nat /\ Wait(n - 1) + Step <= Wait(QUEUE) /\ Wait(QUEUE) \in Nat
      <3>1. QUEUE \in Nat /\ n - 1 \in Nat /\ n \in Nat /\ n <= QUEUE /\ n - 1 = Len(queue)
        BY <1>2, <1>a, AdasNumbers
      <3>2. Wait(n - 1) \in Nat /\ Wait(QUEUE) \in Nat
        BY <3>1, WaitFacts
      <3>3. Wait(n) = Wait(n - 1) + Step
        BY <3>1, WaitBefore
      <3>4. Wait(n) <= Wait(QUEUE)
        BY <3>1, WaitGrows
      <3> QED
        BY <3>2, <3>3, <3>4
    <2>5. RoundAt + Wait(n - 1) <= uptime + Wait(QUEUE)
      BY <1>a, <2>4, AdasNumbers DEF QueueInv, RoundAt
    <2>6. \A i \in 1 .. n : \/ i \in 1 .. Len(queue) /\ queue'[i] = queue[i]
                            \/ i = n
      BY <1>a, <2>3
    <2> HIDE DEF g, n
    <2>7. ASSUME NEW i \in 1 .. n
          PROVE  /\ RoundAt + Wait(i - 1) <= queue'[i].at + Wait(QUEUE)
                 /\ speed_at <= queue'[i].at
                 /\ \A j \in 1 .. n : i <= j => queue'[i].at <= queue'[j].at
      <3>1. CASE i = n
        <4>1. n \in Nat
          BY <1>a DEF n
        <4> QED
          BY <1>a, <2>3, <2>5, <3>1, <4>1
      <3>2. CASE i \in 1 .. Len(queue) /\ queue'[i] = queue[i]
        BY <1>a, <2>3, <2>6, <3>2 DEF QueueInv
      <3> QED
        BY <2>6, <3>1, <3>2
    <2> QED
      BY <1>b, <2>3, <2>7 DEF QueueInv, RoundAt
  <1> QED
    BY <1>1, <1>2 DEF Receive

LEMMA QueueRound ==
    ASSUME AdasTypeOK, QueueInv, Round
    PROVE  QueueInv' /\ RoundAt' = uptime + Step
  <1>a. /\ uptime \in Nat /\ queue \in Seq(FramesUntil(uptime)) /\ wake \in Nat
        /\ speed_at \in Nat /\ speed_at <= uptime /\ Len(queue) \in Nat
        /\ \A i \in 1 .. Len(queue) : queue[i].at \in Nat /\ queue[i].at <= uptime
    BY QueueTyped
  <1>b. uptime' = uptime /\ wake' = uptime + DELAY /\ PollRx
    BY RoundEffect DEF RoundWith
  <1>c. RoundAt' = uptime + Step /\ uptime <= RoundAt /\ RoundAt \in Nat
    BY <1>a, <1>b, AdasNumbers DEF QueueInv, RoundAt
  <1>1. uptime' <= RoundAt' /\ wake' <= uptime' + DELAY
    BY <1>a, <1>b, <1>c, AdasNumbers
  <1>2. CASE Len(queue) = 0 /\ queue' = queue
    BY <1>1, <1>2, <1>c DEF QueueInv
  <1>3. CASE /\ Len(queue) > 0 /\ Len(queue') = Len(queue) - 1
             /\ \A i \in 1 .. Len(queue') : queue'[i] = queue[i + 1]
             /\ speed_at' \in {speed_at, queue[1].at}
    <2>1. ASSUME NEW i \in 1 .. Len(queue')
          PROVE  /\ RoundAt' + Wait(i - 1) <= queue'[i].at + Wait(QUEUE)
                 /\ speed_at' <= queue'[i].at
                 /\ \A j \in 1 .. Len(queue') : i <= j => queue'[i].at <= queue'[j].at
      <3>1. i \in Nat \ {0} /\ i + 1 \in 1 .. Len(queue) /\ 1 \in 1 .. Len(queue)
        BY <1>3, <1>a
      <3>2. /\ RoundAt + Wait(i) <= queue[i + 1].at + Wait(QUEUE)
            /\ speed_at <= queue[i + 1].at /\ queue[1].at <= queue[i + 1].at
        BY <3>1 DEF QueueInv
      <3>3. Wait(i) = Wait(i - 1) + Step /\ Wait(i - 1) \in Nat /\ Wait(QUEUE) \in Nat
        <4>1. i - 1 \in Nat /\ QUEUE \in Nat
          BY <3>1, AdasNumbers
        <4> QED
          BY <3>1, <4>1, WaitFacts, WaitBefore
      <3>4. RoundAt' + Wait(i - 1) <= queue'[i].at + Wait(QUEUE)
        <4>1. queue'[i].at = queue[i + 1].at /\ queue[i + 1].at \in Nat /\ Step \in Nat
          BY <1>3, <1>a, <3>1, AdasNumbers
        <4>2. Wait(i) \in Nat
          BY <3>3, <4>1
        <4>3. uptime + Wait(i) <= RoundAt + Wait(i)
          BY <1>a, <1>c, <4>2
        <4>4. RoundAt' + Wait(i - 1) = uptime + Wait(i)
          BY <1>a, <1>c, <3>3, <4>1
        <4>5. uptime + Wait(i) <= queue[i + 1].at + Wait(QUEUE)
          <5> DEFINE a == queue[i + 1].at
          <5>1. a \in Nat /\ RoundAt + Wait(i) <= a + Wait(QUEUE)
            BY <3>2, <4>1
          <5> HIDE DEF a
          <5>2. uptime + Wait(i) <= a + Wait(QUEUE)
            BY <1>a, <1>c, <3>3, <4>2, <5>1
          <5> QED
            BY <5>2 DEF a
        <4> QED
          BY <4>1, <4>4, <4>5
      <3>5. speed_at' <= queue'[i].at
        BY <1>3, <3>2
      <3>6. ASSUME NEW j \in 1 .. Len(queue'), i <= j
            PROVE  queue'[i].at <= queue'[j].at
        <4>1. j + 1 \in 1 .. Len(queue) /\ i + 1 <= j + 1
          BY <1>3, <1>a, <3>1, <3>6
        <4> QED
          BY <1>3, <3>1, <4>1 DEF QueueInv
      <3> QED
        BY <3>4, <3>5, <3>6
    <2> QED
      BY <1>1, <1>c, <2>1 DEF QueueInv
  <1>4. \/ Len(queue) = 0 /\ queue' = queue
        \/ /\ Len(queue) > 0 /\ Len(queue') = Len(queue) - 1
           /\ \A i \in 1 .. Len(queue') : queue'[i] = queue[i + 1]
           /\ speed_at' \in {speed_at, queue[1].at}
    BY <1>b, PollEffect
  <1> QED
    BY <1>2, <1>3, <1>4

LEMMA QueueStep ==
    ASSUME AdasTypeOK, AdasTypeOK', QueueInv, [Adas_Next]_adas
    PROVE  QueueInv'
  <1>1. CASE Round
    BY <1>1, QueueRound
  <1>2. ASSUME NEW f \in Frames, Receive(f)
        PROVE  QueueInv'
    BY <1>2, QueueReceives
  <1>3. ASSUME NEW w \in Worlds, Move(w)
        PROVE  QueueInv'
    BY <1>3 DEF Move, QueueInv, RoundAt, engine
  <1>4. CASE AdvanceTick
    <2>1. uptime \in Nat /\ wake \in Nat /\ MaxLag \in Nat /\ DELAY \in Nat
      BY QueueTyped, AdasNumbers
    <2>2. /\ uptime < wake + MaxLag /\ uptime' = uptime + 1
          /\ UNCHANGED <<queue, speed_at, wake>>
      BY <1>4 DEF AdvanceTick, engine
    <2>3. uptime' <= RoundAt' /\ wake' <= uptime' + DELAY
      BY <2>1, <2>2 DEF QueueInv, RoundAt
    <2> QED
      BY <2>2, <2>3 DEF QueueInv, RoundAt
  <1>5. CASE UNCHANGED adas
    BY <1>5 DEF adas, engine, QueueInv, RoundAt
  <1> QED
    BY <1>1, <1>2, <1>3, <1>4, <1>5 DEF Adas_Next

\* The age that the ECU counts, of any speed it uses.
LEMMA AgeStep ==
    ASSUME AdasTypeOK, QueueInv, AgeInv, [Adas_Next]_adas
    PROVE  AgeInv'
  <1>a. /\ uptime \in Nat /\ speed_at \in Nat /\ tick \in Tick /\ s_last_engine_rx_tick \in Tick
        /\ Wait(QUEUE) \in Nat /\ TICK_MOD \in Nat \ {0}
    BY QueueTyped, WaitFacts, AdasNumbers DEF AdasTypeOK
  <1>b. tick_elapsed(tick, s_last_engine_rx_tick) \in 0 .. TICK_MOD - 1
    BY <1>a, AgeFacts
  <1>1. CASE Round
    <2>1. PollRx /\ uptime' = uptime /\ tick' = tick
      BY <1>1, RoundEffect DEF RoundWith
    <2>2. CASE UNCHANGED <<engine_active, s_last_engine_rx_tick, speed_at>>
      BY <2>1, <2>2 DEF AgeInv
    <2>3. CASE Len(queue) > 0 /\ s_last_engine_rx_tick' = tick /\ speed_at' = queue[1].at
      <3>1. tick_elapsed(tick', s_last_engine_rx_tick') = 0
        BY <2>1, <2>3, <1>a, AgeFacts
      <3>2. 1 \in 1 .. Len(queue) /\ queue[1].at \in Nat /\ queue[1].at <= uptime
        BY <2>3, QueueTyped
      <3>3. uptime <= RoundAt /\ RoundAt + Wait(0) <= queue[1].at + Wait(QUEUE)
        <4>1. 1 - 1 = 0
          OBVIOUS
        <4> QED
          BY <3>2, <4>1 DEF QueueInv
      <3>4. Wait(0) = 0 /\ RoundAt \in Nat
        <4>1. Wait(0) = 0
          BY WaitFacts
        <4>2. wake \in Nat /\ MaxLag \in Nat
          BY QueueTyped, AdasNumbers
        <4> QED
          BY <4>1, <4>2 DEF RoundAt
      <3> DEFINE a == queue[1].at
      <3>5. a \in Nat /\ a <= uptime /\ uptime <= a + Wait(QUEUE)
        BY <1>a, <3>2, <3>3, <3>4
      <3>6. speed_at' = a
        BY <2>3
      <3> HIDE DEF a
      <3> QED
        BY <1>a, <2>1, <3>1, <3>5, <3>6 DEF AgeInv
    <2>4. \/ UNCHANGED <<engine_active, s_last_engine_rx_tick, speed_at>>
          \/ Len(queue) > 0 /\ s_last_engine_rx_tick' = tick /\ speed_at' = queue[1].at
      BY <2>1, PollEffect, Zenon
    <2> QED
      BY <2>2, <2>3, <2>4
  <1>2. ASSUME NEW f \in Frames, Receive(f)
        PROVE  AgeInv'
    BY <1>2 DEF Receive, AgeInv, engine
  <1>3. ASSUME NEW w \in Worlds, Move(w)
        PROVE  AgeInv'
    BY <1>3 DEF Move, AgeInv, engine
  <1>4. CASE AdvanceTick
    <2>1. /\ uptime' = uptime + 1 /\ tick' = TickPlus(tick, 1)
          /\ UNCHANGED <<engine_active, s_last_engine_rx_tick, speed_at>>
      BY <1>4 DEF AdvanceTick, engine
    <2> DEFINE e == tick_elapsed(tick, s_last_engine_rx_tick)
    <2>2. tick_elapsed(tick', s_last_engine_rx_tick') = IF e = TICK_MOD - 1 THEN 0 ELSE e + 1
      BY <1>a, <2>1, AgeFacts
    <2>3. e \in 0 .. TICK_MOD - 1
      BY <1>b
    <2>4. engine_active => /\ e <= uptime - speed_at
                           /\ uptime - speed_at < TICK_MOD => uptime - speed_at <= e + Wait(QUEUE)
      BY DEF AgeInv
    <2> HIDE DEF e
    <2> QED
      BY <1>a, <2>1, <2>2, <2>3, <2>4 DEF AgeInv
  <1>5. CASE UNCHANGED adas
    BY <1>5 DEF adas, engine, AgeInv
  <1> QED
    BY <1>1, <1>2, <1>3, <1>4, <1>5 DEF Adas_Next

LEMMA StaleStep ==
    ASSUME AdasTypeOK, AdasTypeOK', AgeInv', SpeedNotStale, [Adas_Next]_adas
    PROVE  SpeedNotStale'
  <1>1. CASE UNCHANGED bus_age
    BY <1>1 DEF SpeedNotStale
  <1>2. ASSUME Round, Due(tick, next_status_tick)
        PROVE  SpeedNotStale'
    <2>1. PICK fails \in SUBSET {"front", "rear", "send"} : RoundWith(fails)
      BY <1>2, RoundEffect
    <2>2. SendStatus(fails) /\ uptime' = uptime /\ tick' = tick
      BY <1>2, <2>1 DEF RoundWith
    <2>3. /\ uptime' \in Nat /\ speed_at' \in Nat /\ tick' \in Tick
          /\ s_last_engine_rx_tick' \in Tick
      BY AdasNumbers DEF AdasTypeOK
    <2>4. Wait(QUEUE) \in Nat /\ ENGINE_TIMEOUT \in Nat /\ TICK_MOD \in Nat
      BY WaitFacts, AdasNumbers
    <2> DEFINE e == tick_elapsed(tick', s_last_engine_rx_tick')
    <2>5. e \in Int
      BY <2>3, AgeFacts
    <2>6. CASE bus_age' = bus_age \/ bus_age' = 0
      BY <2>4, <2>6 DEF SpeedNotStale, Wait
    <2>7. CASE VehicleSpeed # 0 /\ bus_age' = uptime - speed_at'
      <3>1. engine_active' /\ ~(e > ENGINE_TIMEOUT)
        BY <2>2, <2>7 DEF VehicleSpeed
      <3>2. uptime' - speed_at' < TICK_MOD => uptime' - speed_at' <= e + Wait(QUEUE)
        BY <3>1 DEF AgeInv
      <3> HIDE DEF e
      <3>3. bus_age' < TICK_MOD => bus_age' <= ENGINE_TIMEOUT + Wait(QUEUE)
        BY <2>2, <2>3, <2>4, <2>5, <2>7, <3>1, <3>2
      <3> QED
        BY <3>3 DEF SpeedNotStale, Wait
    <2> QED
      BY <2>2, <2>6, <2>7 DEF SendStatus
  <1>3. ASSUME Round, ~Due(tick, next_status_tick)
        PROVE  UNCHANGED bus_age
    BY <1>3, RoundEffect DEF RoundWith
  <1>4. CASE \/ \E f \in Frames : Receive(f)
             \/ \E w \in Worlds : Move(w)
             \/ AdvanceTick
             \/ UNCHANGED adas
    BY <1>1, <1>4 DEF Receive, Move, AdvanceTick, adas
  <1> QED
    BY <1>1, <1>2, <1>3, <1>4 DEF Adas_Next

LEMMA AgeInvariant == Adas_Spec => [](QueueInv /\ AgeInv /\ SpeedNotStale)
  <1>1. AdasTypeOK /\ AdasTypeOK' /\ QueueInv /\ AgeInv /\ SpeedNotStale /\ [Adas_Next]_adas
            => QueueInv' /\ AgeInv' /\ SpeedNotStale'
    BY QueueStep, AgeStep, StaleStep
  <1> QED
    BY QueueInit, <1>1, AdasTypeCorrect, PTL DEF Adas_Spec

\* ADAS_Can_GetVehicleSpeedKmh: no status frame is judged with a speed that was received
\* longer ago than the timeout and the wait in the receive queue, which the ECU's age
\* does not count.
THEOREM NoStaleSpeed == Adas_Spec => []SpeedNotStale
  BY AgeInvariant, PTL
-----------------------------------------------------------------------------
(* Each rule is shown in time: the history variables and the two deadlines.     *)

\* The periods and a round are short against half a wrap of the tick: 50 and 100 ms and
\* some milliseconds against 24.8 days in the code.
TimesAreShort ==
    2 * INPUT_PERIOD <= TICK_MOD /\ 2 * STATUS_PERIOD <= TICK_MOD /\ 2 * Step < TICK_MOD

LEMMA RuleTypes ==
    ASSUME NEW r \in Rules
    PROVE  r.speed \in Nat /\ r.risk \in 0 .. 3
  BY DEF Rules, Rule

LEMMA DeadlineFacts ==
    ASSUME NEW t \in Tick, NEW d \in Tick
    PROVE  /\ Ahead(t, d) \in Int
           /\ ~Due(t, d) => Ahead(t, d) > 0
           /\ 2 * (1 - Ahead(t, d)) < TICK_MOD => Ahead(TickPlus(t, 1), d) = Ahead(t, d) - 1
  <1>1. Ahead(t, d) \in Int /\ (~Due(t, d) => Ahead(t, d) > 0)
    BY TickModAssumption DEF Ahead, Due, tick_elapsed, Tick
  <1>2. ASSUME 2 * (1 - Ahead(t, d)) < TICK_MOD
        PROVE  Ahead(TickPlus(t, 1), d) = Ahead(t, d) - 1
    BY <1>2, TickModAssumption DEF Ahead, Due, tick_elapsed, TickPlus, Tick
  <1> QED
    BY <1>1, <1>2

LEMMA NewDeadline ==
    ASSUME NEW t \in Tick, NEW p \in Nat, p < TICK_MOD, 2 * p <= TICK_MOD
    PROVE  Ahead(t, TickPlus(t, p)) = p
  BY TickModAssumption DEF Ahead, Due, tick_elapsed, TickPlus, Tick

LEMMA ScheduleInit ==
    ASSUME Adas_Init
    PROVE  OnSchedule
  <1>1. Ahead(0, 0) = 0
    BY TickModAssumption DEF Ahead, Due, tick_elapsed
  <1>2. InputAt = 0 /\ StatusAt = 0 /\ RoundAt = MaxLag /\ uptime = 0
    BY <1>1, AdasNumbers DEF Adas_Init, InputAt, StatusAt, RoundAt
  <1> QED
    BY <1>2, AdasNumbers DEF OnSchedule

\* Time passes, and the deadlines in true time stay.
LEMMA DeadlinesStay ==
    ASSUME TimesAreShort, AdasTypeOK, OnSchedule, AdvanceTick
    PROVE  InputAt' = InputAt /\ StatusAt' = StatusAt
  <1> DEFINE x == Ahead(tick, next_input_tick)
             y == Ahead(tick, next_status_tick)
  <1>1. /\ uptime \in Nat /\ wake \in Nat /\ tick \in Tick /\ next_input_tick \in Tick
        /\ next_status_tick \in Tick
    BY QueueTyped DEF AdasTypeOK
  <1>2. /\ uptime' = uptime + 1 /\ tick' = TickPlus(tick, 1) /\ uptime < RoundAt
        /\ UNCHANGED <<next_input_tick, next_status_tick>>
    BY DEF AdvanceTick, RoundAt
  <1>3. RoundAt <= uptime + x + Step /\ RoundAt <= uptime + y + Step
    BY DEF OnSchedule, InputAt, StatusAt
  <1>4. x \in Int /\ y \in Int /\ RoundAt \in Int
    BY <1>1, DeadlineFacts, AdasNumbers DEF RoundAt
  <1>5. Step \in Nat /\ 2 * Step < TICK_MOD /\ TICK_MOD \in Nat
    BY AdasNumbers DEF TimesAreShort
  <1>6. 2 * (1 - x) < TICK_MOD /\ 2 * (1 - y) < TICK_MOD
    <2> HIDE DEF x, y
    <2> QED
      BY <1>1, <1>2, <1>3, <1>4, <1>5
  <1>7. Ahead(tick', next_input_tick') = x - 1 /\ Ahead(tick', next_status_tick') = y - 1
    BY <1>1, <1>2, <1>6, DeadlineFacts
  <1> QED
    BY <1>1, <1>2, <1>4, <1>7 DEF InputAt, StatusAt

\* The deadlines are due at a period's end, and the round that meets them begins before
\* they are a step overdue.
LEMMA ScheduleStep ==
    ASSUME TimesAreShort, AdasTypeOK, QueueInv, OnSchedule, [Adas_Next]_adas
    PROVE  OnSchedule'
  <1>a. /\ uptime \in Nat /\ wake \in Nat /\ tick \in Tick /\ next_input_tick \in Tick
        /\ next_status_tick \in Tick
    BY QueueTyped DEF AdasTypeOK
  <1>b. /\ Ahead(tick, next_input_tick) \in Int /\ Ahead(tick, next_status_tick) \in Int
        /\ RoundAt \in Nat
    BY <1>a, DeadlineFacts, AdasNumbers DEF RoundAt
  <1>1. CASE Round
    <2>1. PICK fails \in SUBSET {"front", "rear", "send"} : RoundWith(fails)
      BY <1>1, RoundEffect
    <2>2. uptime' = uptime /\ tick' = tick /\ RoundAt' = uptime + Step
      BY <1>1, <2>1, QueueRound DEF RoundWith
    <2>3. InputAt' <= uptime + INPUT_PERIOD /\ uptime <= InputAt'
      <3>1. CASE Due(tick, next_input_tick)
        <4>1. next_input_tick' = TickPlus(tick, INPUT_PERIOD)
          BY <2>1, <3>1 DEF RoundWith
        <4>2. Ahead(tick', next_input_tick') = INPUT_PERIOD
          BY <1>a, <2>2, <4>1, NewDeadline, AdasNumbers DEF TimesAreShort
        <4> QED
          BY <1>a, <2>2, <4>2, AdasNumbers DEF InputAt
      <3>2. CASE ~Due(tick, next_input_tick)
        <4>1. next_input_tick' = next_input_tick /\ Ahead(tick, next_input_tick) > 0
          BY <1>a, <2>1, <3>2, DeadlineFacts DEF RoundWith
        <4> QED
          BY <1>a, <1>b, <2>2, <4>1, AdasNumbers DEF InputAt, OnSchedule
      <3> QED
        BY <3>1, <3>2
    <2>4. StatusAt' <= uptime + STATUS_PERIOD /\ uptime <= StatusAt'
      <3>1. CASE Due(tick, next_status_tick)
        <4>1. next_status_tick' = TickPlus(tick, STATUS_PERIOD)
          BY <2>1, <3>1 DEF RoundWith
        <4>2. Ahead(tick', next_status_tick') = STATUS_PERIOD
          BY <1>a, <2>2, <4>1, NewDeadline, AdasNumbers DEF TimesAreShort
        <4> QED
          BY <1>a, <2>2, <4>2, AdasNumbers DEF StatusAt
      <3>2. CASE ~Due(tick, next_status_tick)
        <4>1. next_status_tick' = next_status_tick /\ Ahead(tick, next_status_tick) > 0
          BY <1>a, <2>1, <3>2, DeadlineFacts DEF RoundWith
        <4> QED
          BY <1>a, <1>b, <2>2, <4>1, AdasNumbers DEF StatusAt, OnSchedule
      <3> QED
        BY <3>1, <3>2
    <2>5. InputAt' \in Int /\ StatusAt' \in Int
      <3>1. next_input_tick' \in Tick /\ next_status_tick' \in Tick
        BY <1>a, <2>1, DeadlineType, AdasNumbers DEF RoundWith
      <3> QED
        BY <1>a, <2>2, <3>1, DeadlineFacts DEF InputAt, StatusAt
    <2>a. \A a \in Int, s \in Nat : uptime <= a => uptime + s <= a + s
      BY <1>a
    <2>b. Step \in Nat
      BY AdasNumbers
    <2>6. RoundAt' <= InputAt' + Step
      BY <2>a, <2>b, <2>2, <2>3, <2>5
    <2>7. RoundAt' <= StatusAt' + Step
      BY <2>a, <2>b, <2>2, <2>4, <2>5
    <2> QED
      BY <2>2, <2>3, <2>4, <2>6, <2>7 DEF OnSchedule
  <1>2. CASE UNCHANGED <<uptime, tick, wake, next_input_tick, next_status_tick>>
    BY <1>2 DEF OnSchedule, InputAt, StatusAt, RoundAt
  <1>3. CASE AdvanceTick
    <2>1. /\ uptime' = uptime + 1 /\ tick' = TickPlus(tick, 1) /\ uptime < RoundAt
          /\ UNCHANGED <<wake, next_input_tick, next_status_tick>>
      BY <1>3 DEF AdvanceTick, RoundAt
    <2>7. InputAt' = InputAt /\ StatusAt' = StatusAt
      BY <1>3, DeadlinesStay
    <2>8. InputAt \in Int /\ StatusAt \in Int /\ RoundAt' = RoundAt
      BY <1>a, <1>b, <2>1 DEF InputAt, StatusAt, RoundAt
    <2> QED
      BY <1>a, <2>1, <2>7, <2>8, AdasNumbers DEF OnSchedule
  <1>4. CASE \/ \E f \in Frames : Receive(f)
             \/ \E w \in Worlds : Move(w)
             \/ UNCHANGED adas
    BY <1>2, <1>4 DEF Receive, Move, adas
  <1> QED
    BY <1>1, <1>3, <1>4 DEF Adas_Next

\* The time of a condition follows it, and begins anew or stays.
LEMMA TrackFollows ==
    ASSUME NEW restart, Track(restart), AdasTypeOK, AdasTypeOK', NEW r \in Rules
    PROVE  /\ since'[r] # -1 <=> Holds(r, world', heard', uptime')
           /\ since'[r] # -1 => \/ since'[r] = uptime'
                                \/ since[r] # -1 /\ since'[r] = since[r] /\ ~restart
  <1>1. since'[r] = IF ~Holds(r, world', heard', uptime') THEN -1
                    ELSE IF since[r] = -1 \/ restart THEN uptime' ELSE since[r]
    BY Zenon DEF Track
  <1>2. uptime' \in Nat /\ uptime' # -1
    BY AdasNumbers DEF AdasTypeOK
  <1> QED
    BY <1>1, <1>2, Zenon

LEMMA HistoryStep ==
    ASSUME AdasTypeOK, AdasTypeOK', HistoryFollows, [Adas_Next]_adas
    PROVE  /\ HistoryFollows'
           /\ \A r \in Rules : since'[r] # -1 =>
                  \/ since'[r] = uptime'
                  \/ since[r] # -1 /\ since'[r] = since[r]
  <1>1. CASE UNCHANGED adas
    BY <1>1 DEF adas, HistoryFollows
  <1>2. ASSUME NEW restart, Track(restart)
        PROVE  /\ HistoryFollows'
               /\ \A r \in Rules : since'[r] # -1 =>
                      \/ since'[r] = uptime'
                      \/ since[r] # -1 /\ since'[r] = since[r]
    BY <1>2, TrackFollows, Zenon DEF HistoryFollows
  <1>3. Adas_Next => \E restart \in BOOLEAN : Track(restart)
    <2>1. ASSUME Round
          PROVE  \E restart \in BOOLEAN : Track(restart)
      <3>1. PICK fails \in SUBSET {"front", "rear", "send"} : RoundWith(fails)
        BY <2>1, RoundEffect
      <3>2. Track(fails \cap {"front", "rear"} # {})
        BY <3>1 DEF RoundWith
      <3> QED
        BY <3>2, Zenon
    <2> QED
      BY <2>1, Zenon DEF Adas_Next, Receive, Move, AdvanceTick
  <1> QED
    BY <1>1, <1>2, <1>3, Zenon

\* The queue after a frame was received into it.
LEMMA FrameReceived ==
    ASSUME AdasTypeOK, NEW f \in Frames, Receive(f), Len(queue) < QUEUE, NEW n, n = Len(queue) + 1
    PROVE  /\ Len(queue') = n /\ n \in 1 .. n
           /\ \A i \in 1 .. Len(queue) : queue'[i] = queue[i] /\ i \in 1 .. n /\ i < n
           /\ queue'[n] = [speed |-> f.speed, ign_on |-> f.ign_on, at |-> uptime]
  <1> DEFINE g == [speed |-> f.speed, ign_on |-> f.ign_on, at |-> uptime]
  <1>1. uptime \in Nat /\ queue \in Seq(FramesUntil(uptime)) /\ Len(queue) \in Nat
    BY QueueTyped
  <1>2. queue' = Append(queue, g)
    BY DEF Receive
  <1>3. g \in FramesUntil(uptime)
    BY <1>1, FrameTypes DEF FramesUntil
  <1>4. /\ Len(queue') = n /\ queue'[n] = g
        /\ \A i \in 1 .. Len(queue) : queue'[i] = queue[i]
    BY <1>1, <1>2, <1>3, FrameAdded
  <1>5. n \in 1 .. n /\ \A i \in 1 .. Len(queue) : i \in 1 .. n /\ i < n
    BY <1>1
  <1> QED
    BY <1>4, <1>5
-----------------------------------------------------------------------------
(* The last frame of Board A, and the speed that a rule needs.                  *)

LEMMA HeardStep ==
    ASSUME AdasTypeOK, LastHeard, [Adas_Next]_adas
    PROVE  LastHeard'
  <1>a. Len(queue) \in Nat /\ uptime \in Nat /\ queue \in Seq(FramesUntil(uptime))
    BY QueueTyped
  <1>1. CASE UNCHANGED <<queue, engine, heard>>
    BY <1>1 DEF LastHeard, engine
  <1>2. CASE Round
    <2>1. PollRx /\ heard' = heard
      BY <1>2, RoundEffect DEF RoundWith
    <2>2. CASE heard.speed = 0
      BY <2>1, <2>2 DEF LastHeard
    <2>3. CASE /\ queue' = queue
               /\ UNCHANGED <<speed_kmh, engine_active, s_last_engine_rx_tick, speed_at>>
      BY <2>1, <2>3 DEF LastHeard
    <2>4. ASSUME Len(queue) > 0, Len(queue') = Len(queue) - 1,
                 \A i \in 1 .. Len(queue') : queue'[i] = queue[i + 1]
          PROVE  /\ 1 \in 1 .. Len(queue) /\ Len(queue') \in Nat
                 /\ \A i \in 1 .. Len(queue') : i + 1 \in 1 .. Len(queue)
                 /\ \A i \in 1 .. Len(queue) :
                        i # 1 => i - 1 \in 1 .. Len(queue') /\ queue'[i - 1] = queue[i]
      <3>1. 1 \in 1 .. Len(queue) /\ Len(queue') \in Nat
        BY <1>a, <2>4
      <3>2. ASSUME NEW i \in 1 .. Len(queue), i # 1
            PROVE  i - 1 \in 1 .. Len(queue') /\ (i - 1) + 1 = i
        BY <1>a, <2>4, <3>2
      <3> QED
        BY <1>a, <2>4, <3>1, <3>2
    <2>5. ASSUME Len(queue) > 0, Len(queue') = Len(queue) - 1,
                 \A i \in 1 .. Len(queue') : queue'[i] = queue[i + 1],
                 \/ /\ queue[1].ign_on
                    /\ speed_kmh' = queue[1].speed /\ engine_active' = TRUE
                    /\ s_last_engine_rx_tick' = tick /\ speed_at' = queue[1].at
                 \/ /\ ~queue[1].ign_on
                    /\ UNCHANGED <<speed_kmh, engine_active, s_last_engine_rx_tick, speed_at>>
          PROVE  LastHeard'
      <3>a. /\ 1 \in 1 .. Len(queue) /\ Len(queue') \in Nat
            /\ \A i \in 1 .. Len(queue') : i + 1 \in 1 .. Len(queue)
            /\ \A i \in 1 .. Len(queue) :
                   i # 1 => i - 1 \in 1 .. Len(queue') /\ queue'[i - 1] = queue[i]
        BY <2>4, <2>5
      <3>1. CASE /\ engine_active /\ speed_kmh = heard.speed /\ speed_at = heard.at
                 /\ \A i \in 1 .. Len(queue) : ~queue[i].ign_on
        <4>1. ~queue[1].ign_on /\ \A i \in 1 .. Len(queue') : ~queue'[i].ign_on
          BY <2>5, <3>a, <3>1
        <4>2. engine_active' /\ speed_kmh' = heard'.speed /\ speed_at' = heard'.at
          BY <2>1, <2>5, <3>1, <4>1, Zenon
        <4> QED
          BY <4>1, <4>2, Zenon DEF LastHeard
      <3>2. ASSUME NEW i \in 1 .. Len(queue), queue[i].ign_on,
                   queue[i].speed = heard.speed, queue[i].at = heard.at,
                   \A j \in 1 .. Len(queue) : i < j => ~queue[j].ign_on
            PROVE  LastHeard'
        <4>1. CASE i = 1
          <5>1. \A j \in 1 .. Len(queue') : ~queue'[j].ign_on
            <6>1. \A j \in 1 .. Len(queue') : 1 < j + 1
              BY <3>a
            <6> QED
              BY <2>5, <3>a, <3>2, <4>1, <6>1
          <5>2. engine_active' /\ speed_kmh' = heard'.speed /\ speed_at' = heard'.at
            BY <2>1, <2>5, <3>2, <4>1, Zenon
          <5> QED
            BY <5>1, <5>2, Zenon DEF LastHeard
        <4>2. CASE i # 1
          <5>1. i - 1 \in 1 .. Len(queue') /\ queue'[i - 1] = queue[i]
            BY <3>a, <4>2
          <5>2. ASSUME NEW j \in 1 .. Len(queue'), i - 1 < j
                PROVE  ~queue'[j].ign_on
            <6>1. j + 1 \in 1 .. Len(queue) /\ i < j + 1
              BY <3>a, <5>2
            <6> QED
              BY <2>5, <3>2, <6>1
          <5> QED
            BY <2>1, <3>2, <5>1, <5>2 DEF LastHeard
        <4> QED
          BY <4>1, <4>2
      <3> QED
        BY <2>2, <3>1, <3>2, Zenon DEF LastHeard
    <2>6. \/ /\ queue' = queue
             /\ UNCHANGED <<speed_kmh, engine_active, s_last_engine_rx_tick, speed_at>>
          \/ /\ Len(queue) > 0 /\ Len(queue') = Len(queue) - 1
             /\ \A i \in 1 .. Len(queue') : queue'[i] = queue[i + 1]
             /\ \/ /\ queue[1].ign_on
                   /\ speed_kmh' = queue[1].speed /\ engine_active' = TRUE
                   /\ s_last_engine_rx_tick' = tick /\ speed_at' = queue[1].at
                \/ /\ ~queue[1].ign_on
                   /\ UNCHANGED <<speed_kmh, engine_active, s_last_engine_rx_tick, speed_at>>
      BY <2>1, PollEffect, Zenon
    <2> QED
      BY <2>3, <2>5, <2>6, Zenon
  <1>3. ASSUME NEW f \in Frames, Receive(f), Len(queue) < QUEUE
        PROVE  LastHeard'
    <2> DEFINE n == Len(queue) + 1
    <2>1. /\ UNCHANGED <<speed_kmh, engine_active, speed_at>>
          /\ heard' = IF f.ign_on THEN [speed |-> f.speed, at |-> uptime] ELSE heard
      BY <1>3 DEF Receive, engine
    <2>2. /\ Len(queue') = n /\ n \in 1 .. n
          /\ \A i \in 1 .. Len(queue) : queue'[i] = queue[i] /\ i \in 1 .. n /\ i < n
          /\ queue'[n] = [speed |-> f.speed, ign_on |-> f.ign_on, at |-> uptime]
      BY <1>3, <1>a, FrameReceived
    <2>3. \A j \in 1 .. n : j = n \/ j \in 1 .. Len(queue)
      BY <1>a
    <2>4. n \in Nat /\ \A j \in 1 .. n : ~(n < j)
      BY <1>a
    <2> HIDE DEF n
    <2>5. CASE f.ign_on
      BY <2>1, <2>2, <2>4, <2>5 DEF LastHeard
    <2>6. CASE ~f.ign_on
      <3>1. heard' = heard /\ ~queue'[n].ign_on
        BY <2>1, <2>2, <2>6
      <3>2. CASE heard.speed = 0
        BY <3>1, <3>2 DEF LastHeard
      <3>3. CASE /\ engine_active /\ speed_kmh = heard.speed /\ speed_at = heard.at
                 /\ \A i \in 1 .. Len(queue) : ~queue[i].ign_on
        BY <2>1, <2>2, <2>3, <3>1, <3>3 DEF LastHeard
      <3>4. ASSUME NEW i \in 1 .. Len(queue), queue[i].ign_on,
                   queue[i].speed = heard.speed, queue[i].at = heard.at,
                   \A j \in 1 .. Len(queue) : i < j => ~queue[j].ign_on
            PROVE  LastHeard'
        BY <2>2, <2>3, <3>1, <3>4 DEF LastHeard
      <3> QED
        BY <3>2, <3>3, <3>4, Zenon DEF LastHeard
    <2> QED
      BY <2>5, <2>6
  <1>4. ASSUME NEW f \in Frames, Receive(f), ~(Len(queue) < QUEUE)
        PROVE  UNCHANGED <<queue, engine, heard>>
    BY <1>4 DEF Receive, engine
  <1>5. CASE \/ \E w \in Worlds : Move(w)
             \/ AdvanceTick
             \/ UNCHANGED adas
    BY <1>1, <1>5 DEF Move, AdvanceTick, adas
  <1> QED
    BY <1>1, <1>2, <1>3, <1>4, <1>5 DEF Adas_Next

\* When a condition begins to hold, the speed it needs is the last one received.
LEMMA SpeedStarts ==
    ASSUME AdasTypeOK', LastHeard', HistoryFollows', NEW r \in Rules, since'[r] = uptime'
    PROVE  SpeedInv(r)'
  <1> SUFFICES ASSUME r.speed > 0, since'[r] # -1
               PROVE  SpeedInv(r)'
    BY DEF SpeedInv
  <1>a. /\ uptime' \in Nat /\ queue' \in Seq(FramesUntil(uptime'))
        /\ speed_kmh' \in KmH /\ heard'.speed \in KmH
    BY AdasNumbers DEF AdasTypeOK, FramesUntil
  <1>b. /\ Len(queue') \in Nat
        /\ \A i \in 1 .. Len(queue') : /\ queue'[i].at \in Nat /\ queue'[i].at <= uptime'
                                       /\ queue'[i].speed \in KmH
    BY <1>a, FramesInQueue
  <1>c. \A v \in KmH : v \in Nat
    BY KmHIsNat
  <1>d. r.speed \in Nat
    BY RuleTypes
  <1>1. heard'.speed >= r.speed /\ heard'.speed # 0
    <2>1. Holds(r, world', heard', uptime')
      BY DEF HistoryFollows
    <2>2. heard'.speed >= r.speed
      BY <2>1 DEF Holds
    <2> QED
      BY <1>a, <1>c, <1>d, <2>2
  <1>2. \A k \in 1 .. Len(queue') : ~(queue'[k].at > since'[r])
    BY <1>a, <1>b
  <1>3. CASE /\ engine_active' /\ speed_kmh' = heard'.speed
             /\ \A i \in 1 .. Len(queue') : ~queue'[i].ign_on
    <2>1. engine_active' /\ speed_kmh' >= r.speed
      BY <1>1, <1>3
    <2> QED
      BY <1>2, <1>3, <2>1, Zenon DEF SpeedInv
  <1>4. ASSUME NEW n \in 1 .. Len(queue'), queue'[n].ign_on, queue'[n].speed = heard'.speed,
               \A j \in 1 .. Len(queue') : n < j => ~queue'[j].ign_on
        PROVE  SpeedInv(r)'
    <2>1. Fast(r, queue[n])'
      BY <1>1, <1>4, <1>b DEF Fast
    <2>2. ASSUME NEW i \in 1 .. Len(queue'), queue'[i].ign_on, queue'[i].speed < r.speed
          PROVE  i < n
      <3>1. i # n
        BY <1>1, <1>4, <1>b, <1>c, <1>d, <2>2
      <3>2. ~(n < i)
        BY <1>4, <2>2
      <3> QED
        BY <1>b, <3>1, <3>2
    <2> QED
      BY <1>2, <2>1, <2>2, <1>4, Zenon DEF SpeedInv, Fast
  <1> QED
    BY <1>1, <1>3, <1>4, Zenon DEF LastHeard

\* A frame that is received while a condition holds.
LEMMA SpeedReceives ==
    ASSUME AdasTypeOK, LastHeard, NEW f \in Frames, Receive(f), Len(queue) < QUEUE,
           NEW r \in Rules, SpeedInv(r), r.speed > 0, since[r] # -1, since'[r] = since[r],
           Holds(r, world, heard, uptime), Holds(r, world', heard', uptime')
    PROVE  SpeedInv(r)'
  <1> DEFINE n == Len(queue) + 1
  <1>a. /\ Len(queue) \in Nat /\ uptime \in Nat
        /\ \A i \in 1 .. Len(queue) : queue[i].at \in Nat /\ queue[i].at <= uptime
    BY QueueTyped
  <1>b. /\ Len(queue') = n /\ n \in 1 .. n
        /\ \A i \in 1 .. Len(queue) : queue'[i] = queue[i] /\ i \in 1 .. n /\ i < n
        /\ queue'[n] = [speed |-> f.speed, ign_on |-> f.ign_on, at |-> uptime]
    BY FrameReceived
  <1>c. \A j \in 1 .. n : j = n \/ j \in 1 .. Len(queue)
    BY <1>a
  <1>d. /\ UNCHANGED <<speed_kmh, engine_active, speed_at>>
        /\ heard' = IF f.ign_on THEN [speed |-> f.speed, at |-> uptime] ELSE heard
    BY DEF Receive, engine
  <1>e. /\ r.speed \in Nat /\ heard.speed \in Nat
        /\ f.speed \in Nat
    <2>1. heard.speed \in KmH
      BY DEF AdasTypeOK
    <2> QED
      BY <2>1, KmHIsNat, RuleTypes, FrameTypes
  <1> HIDE DEF n
  <1>1. \A i \in 1 .. Len(queue) : Fast(r, queue[i]) => Fast(r, queue[i])'
    BY <1>b DEF Fast
  <1>2. \/ engine_active' /\ speed_kmh' >= r.speed
        \/ \E j \in 1 .. n : Fast(r, queue[j])'
    <2>1. CASE engine_active /\ speed_kmh >= r.speed
      BY <1>d, <2>1
    <2>2. ASSUME NEW j \in 1 .. Len(queue), Fast(r, queue[j])
          PROVE  \E i \in 1 .. n : Fast(r, queue[i])'
      BY <1>b, <1>1, <2>2, Zenon
    <2> QED
      BY <2>1, <2>2, Zenon DEF SpeedInv
  <1>3. ASSUME NEW i \in 1 .. n, queue'[i].ign_on, queue'[i].speed < r.speed
        PROVE  \E j \in 1 .. n : i < j /\ Fast(r, queue[j])'
    <2>1. i # n
      <3> SUFFICES ASSUME i = n PROVE FALSE
        OBVIOUS
      <3>1. f.ign_on /\ f.speed < r.speed
        BY <1>3, <1>b
      <3>2. heard'.speed = f.speed
        BY <1>d, <3>1
      <3>3. heard'.speed >= r.speed
        BY DEF Holds
      <3> QED
        BY <1>e, <3>1, <3>2, <3>3
    <2>2. i \in 1 .. Len(queue) /\ queue[i].ign_on /\ queue[i].speed < r.speed
      BY <1>b, <1>c, <1>3, <2>1
    <2>3. PICK j \in 1 .. Len(queue) : i < j /\ Fast(r, queue[j])
      BY <2>2 DEF SpeedInv
    <2> QED
      BY <1>b, <1>1, <2>3, Zenon
  <1>4. ASSUME NEW k \in 1 .. n, queue'[k].at > since'[r]
        PROVE  \/ engine_active' /\ queue'[k].at - speed_at' <= GAP
               \/ \E i \in 1 .. n : i < k /\ queue'[i].ign_on /\ queue'[k].at - queue'[i].at <= GAP
    <2>1. CASE k \in 1 .. Len(queue)
      <3>1. queue[k].at > since[r] /\ queue'[k] = queue[k]
        BY <1>b, <1>4, <2>1
      <3>2. CASE engine_active /\ queue[k].at - speed_at <= GAP
        BY <1>d, <3>1, <3>2
      <3>3. ASSUME NEW i \in 1 .. Len(queue), i < k, queue[i].ign_on,
                   queue[k].at - queue[i].at <= GAP
            PROVE  \E j \in 1 .. n : /\ j < k /\ queue'[j].ign_on
                                     /\ queue'[k].at - queue'[j].at <= GAP
        BY <1>b, <3>1, <3>3
      <3> QED
        BY <2>1, <3>1, <3>2, <3>3, Zenon DEF SpeedInv
    <2>2. CASE k = n
      <3>1. queue'[k].at = uptime /\ uptime - heard.at <= GAP /\ heard.speed # 0
        BY <1>b, <1>e, <2>2 DEF Holds
      <3>2. CASE engine_active /\ speed_at = heard.at
        BY <1>d, <3>1, <3>2
      <3>3. ASSUME NEW i \in 1 .. Len(queue), queue[i].ign_on, queue[i].at = heard.at
            PROVE  \E j \in 1 .. n : /\ j < k /\ queue'[j].ign_on
                                     /\ queue'[k].at - queue'[j].at <= GAP
        BY <1>b, <2>2, <3>1, <3>3
      <3> QED
        BY <3>1, <3>2, <3>3, Zenon DEF LastHeard
    <2> QED
      BY <1>c, <2>1, <2>2
  <1> QED
    BY <1>b, <1>2, <1>3, <1>4, Zenon DEF SpeedInv

\* A round that takes a frame while a condition holds.
LEMMA SpeedPolls ==
    ASSUME AdasTypeOK, QueueInv, NEW r \in Rules, SpeedInv(r), r.speed > 0,
           since[r] # -1, since'[r] = since[r],
           Len(queue) > 0, Len(queue') = Len(queue) - 1,
           \A i \in 1 .. Len(queue') : queue'[i] = queue[i + 1],
           \/ /\ queue[1].ign_on
              /\ speed_kmh' = queue[1].speed /\ engine_active' = TRUE
              /\ s_last_engine_rx_tick' = tick /\ speed_at' = queue[1].at
           \/ /\ ~queue[1].ign_on
              /\ UNCHANGED <<speed_kmh, engine_active, s_last_engine_rx_tick, speed_at>>
    PROVE  SpeedInv(r)'
  <1>a. /\ Len(queue) \in Nat /\ speed_at \in Nat /\ r.speed \in Nat /\ GAP \in Nat
        /\ \A i \in 1 .. Len(queue) : queue[i].at \in Nat /\ queue[i].speed \in Nat
    <2>1. uptime \in Nat /\ queue \in Seq(FramesUntil(uptime))
      BY QueueTyped
    <2>2. \A i \in 1 .. Len(queue) : queue[i].speed \in KmH
      BY <2>1, FramesInQueue
    <2> QED
      BY <2>2, KmHIsNat, QueueTyped, RuleTypes, AdasNumbers
  <1>b. 1 \in 1 .. Len(queue) /\ Len(queue') \in Nat
    BY <1>a
  <1>c. \A i \in 1 .. Len(queue') : i + 1 \in 1 .. Len(queue) /\ 1 < i + 1 /\ i \in Nat
    BY <1>a
  <1>d. ASSUME NEW i \in 1 .. Len(queue), i # 1
        PROVE  i - 1 \in 1 .. Len(queue') /\ queue'[i - 1] = queue[i] /\ i \in Nat
    <2>1. i - 1 \in 1 .. Len(queue') /\ (i - 1) + 1 = i
      BY <1>a, <1>d
    <2> QED
      BY <2>1
  <1>e. ASSUME NEW i \in 1 .. Len(queue), i # 1, Fast(r, queue[i])
        PROVE  Fast(r, queue[i - 1])'
    BY <1>d, <1>e DEF Fast
  <1>1. \/ engine_active' /\ speed_kmh' >= r.speed
        \/ \E j \in 1 .. Len(queue') : Fast(r, queue[j])'
    <2>1. CASE queue[1].ign_on /\ queue[1].speed < r.speed
      <3>1. PICK j \in 1 .. Len(queue) : 1 < j /\ Fast(r, queue[j])
        BY <1>b, <2>1 DEF SpeedInv
      <3>2. j # 1
        BY <3>1
      <3> QED
        BY <1>d, <1>e, <3>1, <3>2
    <2>2. CASE queue[1].ign_on /\ ~(queue[1].speed < r.speed)
      <3>1. engine_active' /\ speed_kmh' = queue[1].speed
        BY <2>2, Zenon
      <3>2. speed_kmh' >= r.speed
        BY <1>a, <1>b, <2>2, <3>1
      <3> QED
        BY <3>1, <3>2
    <2>3. CASE ~queue[1].ign_on
      <3>1. CASE engine_active /\ speed_kmh >= r.speed
        BY <2>3, <3>1
      <3>2. ASSUME NEW j \in 1 .. Len(queue), Fast(r, queue[j])
            PROVE  \E i \in 1 .. Len(queue') : Fast(r, queue[i])'
        <4>1. j # 1
          BY <2>3, <3>2 DEF Fast
        <4> QED
          BY <1>d, <1>e, <3>2, <4>1
      <3> QED
        BY <3>1, <3>2, Zenon DEF SpeedInv
    <2> QED
      BY <2>1, <2>2, <2>3
  <1>2. ASSUME NEW i \in 1 .. Len(queue'), queue'[i].ign_on, queue'[i].speed < r.speed
        PROVE  \E j \in 1 .. Len(queue') : i < j /\ Fast(r, queue[j])'
    <2>1. /\ i + 1 \in 1 .. Len(queue) /\ queue[i + 1].ign_on /\ queue[i + 1].speed < r.speed
          /\ i \in Nat
      BY <1>c, <1>2
    <2>2. PICK j \in 1 .. Len(queue) : i + 1 < j /\ Fast(r, queue[j])
      BY <2>1 DEF SpeedInv
    <2>3. j # 1 /\ i < j - 1
      BY <1>a, <2>1, <2>2
    <2> QED
      BY <1>d, <1>e, <2>2, <2>3
  <1>3. ASSUME NEW k \in 1 .. Len(queue'), queue'[k].at > since'[r]
        PROVE  \/ engine_active' /\ queue'[k].at - speed_at' <= GAP
               \/ \E i \in 1 .. Len(queue') :
                     i < k /\ queue'[i].ign_on /\ queue'[k].at - queue'[i].at <= GAP
    <2>1. /\ k + 1 \in 1 .. Len(queue) /\ queue'[k] = queue[k + 1] /\ k \in Nat
          /\ queue[k + 1].at > since[r] /\ queue[k + 1].at \in Nat /\ queue[1].at \in Nat
      BY <1>a, <1>b, <1>c, <1>3
    <2>2. CASE engine_active /\ queue[k + 1].at - speed_at <= GAP
      <3>1. engine_active'
        BY <2>2, Zenon
      <3>2. speed_at <= queue[1].at
        BY <1>b DEF QueueInv
      <3>3. speed_at' = speed_at \/ speed_at' = queue[1].at
        OBVIOUS
      <3> DEFINE a == queue[k + 1].at
                 h == queue[1].at
      <3>4. a \in Nat /\ h \in Nat /\ a - speed_at <= GAP /\ speed_at <= h
        BY <2>1, <2>2, <3>2
      <3>5. speed_at' = speed_at \/ speed_at' = h
        BY <3>3
      <3>6. queue'[k].at = a
        BY <2>1
      <3> HIDE DEF a, h
      <3>7. a - speed_at' <= GAP
        BY <1>a, <3>4, <3>5
      <3> QED
        BY <3>1, <3>6, <3>7
    <2>3. ASSUME NEW i \in 1 .. Len(queue), i < k + 1, queue[i].ign_on,
                 queue[k + 1].at - queue[i].at <= GAP
          PROVE  \/ engine_active' /\ queue'[k].at - speed_at' <= GAP
                 \/ \E j \in 1 .. Len(queue') :
                       j < k /\ queue'[j].ign_on /\ queue'[k].at - queue'[j].at <= GAP
      <3>1. CASE i = 1
        <4>1. engine_active' /\ speed_at' = queue[1].at
          BY <2>3, <3>1, Zenon
        <4> QED
          BY <2>1, <2>3, <3>1, <4>1
      <3>2. CASE i # 1
        <4>1. i - 1 \in 1 .. Len(queue') /\ queue'[i - 1] = queue[i] /\ i \in Nat
          BY <1>d, <3>2
        <4>2. i - 1 < k
          BY <2>1, <2>3, <4>1
        <4> QED
          BY <2>1, <2>3, <4>1, <4>2
      <3> QED
        BY <3>1, <3>2
    <2> QED
      BY <2>1, <2>2, <2>3, Zenon DEF SpeedInv
  <1> QED
    BY <1>1, <1>2, <1>3, Zenon DEF SpeedInv

LEMMA SpeedStep ==
    ASSUME AdasTypeOK, AdasTypeOK', QueueInv, LastHeard, LastHeard', HistoryFollows,
           HistoryFollows', [Adas_Next]_adas, NEW r \in Rules, SpeedInv(r)
    PROVE  SpeedInv(r)'
  <1>1. CASE since'[r] = uptime'
    BY <1>1, SpeedStarts
  <1>2. CASE since'[r] = -1 \/ ~(r.speed > 0)
    BY <1>2 DEF SpeedInv
  <1>3. CASE since[r] # -1 /\ since'[r] = since[r] /\ r.speed > 0
    <2>1. CASE UNCHANGED <<queue, engine>>
      BY <1>3, <2>1 DEF SpeedInv, Fast, engine
    <2>2. CASE Round
      <3>1. PollRx
        BY <2>2, RoundEffect DEF RoundWith
      <3>2. \/ /\ queue' = queue
               /\ UNCHANGED <<speed_kmh, engine_active, s_last_engine_rx_tick, speed_at>>
            \/ /\ Len(queue) > 0 /\ Len(queue') = Len(queue) - 1
               /\ \A i \in 1 .. Len(queue') : queue'[i] = queue[i + 1]
               /\ \/ /\ queue[1].ign_on
                     /\ speed_kmh' = queue[1].speed /\ engine_active' = TRUE
                     /\ s_last_engine_rx_tick' = tick /\ speed_at' = queue[1].at
                  \/ /\ ~queue[1].ign_on
                     /\ UNCHANGED <<speed_kmh, engine_active, s_last_engine_rx_tick, speed_at>>
        BY <3>1, PollEffect, Zenon
      <3> QED
        BY <1>3, <2>1, <3>2, SpeedPolls, Zenon DEF engine
    <2>3. ASSUME NEW f \in Frames, Receive(f)
          PROVE  SpeedInv(r)'
      <3>1. CASE Len(queue) < QUEUE
        <4>1. Holds(r, world, heard, uptime) /\ Holds(r, world', heard', uptime')
          BY <1>3, Zenon DEF HistoryFollows
        <4> QED
          BY <1>3, <2>3, <3>1, <4>1, SpeedReceives
      <3>2. CASE ~(Len(queue) < QUEUE)
        BY <2>1, <2>3, <3>2 DEF Receive
      <3> QED
        BY <3>1, <3>2
    <2>4. CASE \/ \E w \in Worlds : Move(w)
               \/ AdvanceTick
               \/ UNCHANGED adas
      BY <2>1, <2>4 DEF Move, AdvanceTick, adas
    <2> QED
      BY <2>2, <2>3, <2>4 DEF Adas_Next
  <1> QED
    BY <1>1, <1>2, <1>3, HistoryStep

LEMMA AgeBounds ==
    \A u, sp, w, g, a, e \in Int :
        /\ a - sp <= g /\ u < a + w => u - sp <= g + w
        /\ e <= u - sp /\ u - sp <= g + w /\ g + w <= ENGINE_TIMEOUT => ~(e > ENGINE_TIMEOUT)
  BY AdasNumbers

\* A round that begins when every frame that was in the queue when the condition began to
\* hold has been taken judges with a speed that the rule needs, and it is not too old.
LEMMA SpeedIsUsed ==
    ASSUME AdasTypeOK', QueueInv', AgeInv', LastHeard', HistoryFollows', tick' = tick,
           NEW r \in Rules, SpeedInv(r)', since'[r] # -1,
           RoundAt' = uptime' + Step, uptime' > since'[r] + Wait(QUEUE)
    PROVE  VehicleSpeed \in Nat /\ VehicleSpeed >= r.speed
  <1>a. /\ uptime' \in Nat /\ queue' \in Seq(FramesUntil(uptime')) /\ speed_at' \in Nat
        /\ speed_kmh' \in KmH /\ heard'.speed \in KmH /\ tick' \in Tick
        /\ s_last_engine_rx_tick' \in Tick
    BY AdasNumbers DEF AdasTypeOK, FramesUntil
  <1>n. uptime' \in Nat /\ speed_at' \in Nat
    BY <1>a
  <1>b. /\ Len(queue') \in Nat
        /\ \A i \in 1 .. Len(queue') : queue'[i].at \in Nat
    BY <1>a, FramesInQueue
  <1>c. VehicleSpeed \in Nat /\ r.speed \in Nat
    BY <1>a, SpeedType, RuleTypes
  <1>d. since'[r] \in Int
    <2>1. since' \in [Rules -> -1 .. uptime']
      BY DEF AdasTypeOK
    <2> QED
      BY <1>a, <2>1
  <1>e. /\ Wait(QUEUE) \in Nat /\ Step \in Nat \ {0} /\ GAP \in Nat /\ ENGINE_TIMEOUT \in Nat
        /\ GAP + Wait(QUEUE) <= ENGINE_TIMEOUT
    BY WaitFacts, AdasNumbers
  <1>i. uptime' \in Int /\ speed_at' \in Int /\ Wait(QUEUE) \in Int /\ GAP \in Int
    BY <1>n, <1>e
  <1>1. CASE r.speed = 0
    BY <1>c, <1>1
  <1>2. CASE r.speed > 0
    <2>1. Holds(r, world', heard', uptime')
      BY DEF HistoryFollows
    <2>2. heard'.speed # 0 /\ uptime' - heard'.at <= GAP
      BY <1>a, <1>c, <1>2, <2>1, KmHIsNat DEF Holds
    <2>3. ASSUME NEW i \in 1 .. Len(queue')
          PROVE  uptime' < queue'[i].at + Wait(QUEUE)
      <3>1. RoundAt' + Wait(i - 1) <= queue'[i].at + Wait(QUEUE)
        BY DEF QueueInv
      <3>2. Wait(i - 1) \in Nat
        <4>1. i - 1 \in Nat
          BY <1>b
        <4> QED
          BY <4>1, WaitFacts
      <3> DEFINE a == queue'[i].at
                 w == Wait(i - 1)
      <3>3. a \in Nat /\ w \in Nat /\ (uptime' + Step) + w <= a + Wait(QUEUE)
        BY <1>b, <3>1, <3>2
      <3> HIDE DEF a, w
      <3>4. uptime' < a + Wait(QUEUE)
        BY <1>a, <1>e, <3>3
      <3> QED
        BY <3>4 DEF a
    <2>4. ASSUME NEW i \in 1 .. Len(queue')
          PROVE  queue'[i].at > since'[r]
      <3> DEFINE a == queue'[i].at
                 s == since'[r]
      <3>1. a \in Nat /\ s \in Int /\ uptime' < a + Wait(QUEUE) /\ uptime' > s + Wait(QUEUE)
        BY <1>b, <1>d, <2>3
      <3> HIDE DEF a, s
      <3>2. a > s
        BY <1>n, <1>e, <3>1
      <3> QED
        BY <3>2 DEF a, s
    <2>5. engine_active' /\ speed_kmh' >= r.speed
      <3>1. \A j \in 1 .. Len(queue') : ~Fast(r, queue[j])'
        BY <1>b, <1>d, <2>4 DEF Fast
      <3> QED
        BY <1>2, <3>1, Zenon DEF SpeedInv
    <2>6. uptime' - speed_at' <= GAP + Wait(QUEUE)
      <3>1. CASE Len(queue') = 0
        <4>1. \A i \in 1 .. Len(queue') : FALSE
          BY <3>1
        <4>2. speed_at' = heard'.at
          BY <2>2, <4>1, Zenon DEF LastHeard
        <4> QED
          BY <1>a, <1>e, <2>2, <4>2
      <3>2. CASE Len(queue') > 0
        <4>1. 1 \in 1 .. Len(queue') /\ \A i \in 1 .. Len(queue') : ~(i < 1)
          BY <1>b, <3>2
        <4>2. queue'[1].at - speed_at' <= GAP
          BY <1>2, <2>4, <4>1, Zenon DEF SpeedInv
        <4>3. uptime' < queue'[1].at + Wait(QUEUE)
          BY <2>3, <4>1
        <4> DEFINE a == queue'[1].at
        <4>4. a \in Int /\ a - speed_at' <= GAP /\ uptime' < a + Wait(QUEUE)
          BY <1>b, <4>1, <4>2, <4>3
        <4> HIDE DEF a
        <4> QED
          BY <1>i, <4>4, AgeBounds, Zenon
      <3> QED
        BY <1>b, <3>1, <3>2
    <2>7. tick_elapsed(tick', s_last_engine_rx_tick') <= uptime' - speed_at'
      BY <2>5 DEF AgeInv
    <2>8. ~(tick_elapsed(tick, s_last_engine_rx_tick') > ENGINE_TIMEOUT)
      <3> DEFINE e == tick_elapsed(tick', s_last_engine_rx_tick')
      <3>1. e \in Int
        <4>1. tick' \in Tick /\ s_last_engine_rx_tick' \in Tick
          BY <1>a
        <4>2. e \in 0 .. TICK_MOD - 1
          BY <4>1, AgeFacts
        <4> QED
          BY <4>2, AdasNumbers
      <3>2. e <= uptime' - speed_at'
        BY <2>7
      <3>3. tick_elapsed(tick, s_last_engine_rx_tick') = e
        OBVIOUS
      <3> HIDE DEF e
      <3>4. ~(e > ENGINE_TIMEOUT)
        BY <1>i, <1>e, <2>6, <3>1, <3>2, AgeBounds, Zenon
      <3> QED
        BY <3>3, <3>4
    <2>9. VehicleSpeed = speed_kmh'
      BY <2>5, <2>8, Zenon DEF VehicleSpeed
    <2> QED
      BY <1>c, <2>5, <2>9
  <1> QED
    BY <1>c, <1>1, <1>2

-----------------------------------------------------------------------------
(* Each rule is shown in time: the inputs and the frame on the bus.             *)

LEMMA InputsSeen ==
    ASSUME NEW r, NEW h, NEW u, Holds(r, world, h, u),
           NEW fails, InputPoll(fails), "front" \notin fails, "rear" \notin fails
    PROVE  Seen(r)'
  BY DEF Holds, InputPoll, Seen, SeenIn

\* A status that was due and went out shows the rule, or the time has not come.
LEMMA StatusShows ==
    ASSUME AdasTypeOK, AdasTypeOK', QueueInv', AgeInv', LastHeard', HistoryFollows', tick' = tick,
           uptime' = uptime, NEW r \in Rules, SpeedInv(r)', since'[r] # -1,
           RoundAt' = uptime' + Step, uptime > since'[r] + Settled, Seen(r)',
           NEW fails, SendStatus(fails), "send" \notin fails
    PROVE  Shown(r)'
  <1>1. bus' = evaluate_status(s_state', VehicleSpeed)
    BY DEF SendStatus
  <1>2. uptime' > since'[r] + Wait(QUEUE)
    <2>1. uptime \in Nat
      BY QueueTyped
    <2>2. since'[r] \in Int
      <3>1. since' \in [Rules -> -1 .. uptime'] /\ uptime' \in Nat
        BY <2>1 DEF AdasTypeOK
      <3> QED
        BY <3>1
    <2>3. Wait(QUEUE) \in Nat /\ Settled \in Nat /\ Wait(QUEUE) <= Settled
      BY SettledFacts, WaitFacts, AdasNumbers
    <2>4. \A u, s, w, t \in Int : u > s + t /\ w <= t => u > s + w
      OBVIOUS
    <2> QED
      BY <2>1, <2>2, <2>3, <2>4
  <1>3. VehicleSpeed \in Nat /\ VehicleSpeed >= r.speed
    BY <1>2, SpeedIsUsed
  <1>4. s_state' \in Inputs /\ SeenIn(r, s_state')
    BY DEF AdasTypeOK, Inputs, Seen
  <1> QED
    BY <1>1, <1>3, <1>4, RuleIsShown DEF Shown

LEMMA ShownRound ==
    ASSUME AdasTypeOK, AdasTypeOK', QueueInv, QueueInv', AgeInv', LastHeard', HistoryFollows,
           HistoryFollows', OnSchedule, OnSchedule', NEW r \in Rules, SpeedInv(r)', ShownInv(r),
           Round, since[r] # -1, since'[r] = since[r], since'[r] # uptime'
    PROVE  ShownInv(r)'
  <1>1. PICK fails \in SUBSET {"front", "rear", "send"} : RoundWith(fails)
    BY RoundEffect
  <1>2. /\ uptime' = uptime /\ tick' = tick /\ RoundAt' = uptime + Step
        /\ world' = world /\ heard' = heard
    BY <1>1, QueueRound DEF RoundWith
  <1>3. fails \cap {"front", "rear"} = {}
    <2>1. Track(fails \cap {"front", "rear"} # {})
      BY <1>1 DEF RoundWith
    <2>2. since'[r] = IF ~Holds(r, world', heard', uptime') THEN -1
                      ELSE IF since[r] = -1 \/ fails \cap {"front", "rear"} # {} THEN uptime'
                      ELSE since[r]
      BY <2>1, Zenon DEF Track
    <2> QED
      BY <2>2, Zenon
  <1>4. Holds(r, world, heard, uptime)
    BY DEF HistoryFollows
  <1> DEFINE s == since[r]
  <1>5. uptime \in Int /\ s \in Int /\ InputAt' \in Int /\ StatusAt' \in Int /\ StatusAt \in Int
    <2>1. /\ uptime \in Nat /\ tick \in Tick /\ next_input_tick' \in Tick
          /\ next_status_tick' \in Tick /\ next_status_tick \in Tick
      BY QueueTyped DEF AdasTypeOK
    <2>2. since \in [Rules -> -1 .. uptime]
      BY DEF AdasTypeOK
    <2>3. InputAt' \in Int /\ StatusAt' \in Int /\ StatusAt \in Int
      BY <1>2, <2>1, DeadlineFacts DEF InputAt, StatusAt
    <2> QED
      BY <2>1, <2>2, <2>3
  <1>6. Seen(r)' \/ InputAt' <= s + INPUT_PERIOD
    <2>1. CASE Due(tick, next_input_tick)
      <3>1. InputPoll(fails)
        BY <1>1, <2>1 DEF RoundWith
      <3>2. "front" \notin fails /\ "rear" \notin fails
        BY <1>3
      <3> QED
        BY <1>4, <3>1, <3>2, InputsSeen
    <2>2. CASE ~Due(tick, next_input_tick)
      <3>1. UNCHANGED <<s_state, next_input_tick>>
        BY <1>1, <2>2 DEF RoundWith
      <3> QED
        BY <1>2, <3>1 DEF ShownInv, Seen, InputAt
    <2> QED
      BY <2>1, <2>2
  <1>7. uptime > s + INPUT_PERIOD => Seen(r)'
    <2>1. uptime + Step <= InputAt' + Step
      BY <1>2 DEF OnSchedule
    <2>2. \A u, n, t, p, d \in Int : u + d <= n + d /\ u > t + p => ~(n <= t + p)
      OBVIOUS
    <2>3. Step \in Int /\ INPUT_PERIOD \in Int
      BY AdasNumbers
    <2> QED
      BY <1>5, <1>6, <2>1, <2>2, <2>3
  <1>8. Shown(r)' \/ StatusAt' <= s + Settled + STATUS_PERIOD + Retry(faults')
    <2>1. /\ Settled \in Nat /\ STATUS_PERIOD \in Nat /\ Step \in Nat /\ INPUT_PERIOD \in Nat
          /\ INPUT_PERIOD <= Settled
      BY SettledFacts, AdasNumbers
    <2>2. /\ faults \in Nat /\ faults' \in Nat /\ faults' = faults + Cardinality(fails)
          /\ Cardinality(fails) \in Nat
      <3>1. faults' = faults + Cardinality(fails)
        BY <1>1 DEF RoundWith
      <3>2. faults \in Nat
        BY AdasNumbers DEF AdasTypeOK
      <3>3. Cardinality(fails) \in Nat
        BY FailuresAreCounted
      <3> QED
        BY <3>1, <3>2, <3>3
    <2>3. /\ Retry(faults) \in Nat /\ Retry(faults') \in Nat /\ Retry(faults) <= Retry(faults')
      <3>1. faults <= faults'
        BY <2>2
      <3> QED
        BY <2>2, <3>1, WaitFacts, WaitGrows
    <2>4. StatusAt' <= uptime + STATUS_PERIOD
      BY <1>2 DEF OnSchedule
    <2>5. CASE ~Due(tick, next_status_tick)
      <3>1. UNCHANGED <<bus, next_status_tick>>
        BY <1>1, <2>5 DEF RoundWith
      <3>2. (Shown(r)' <=> Shown(r)) /\ StatusAt' = StatusAt
        BY <1>2, <3>1 DEF Shown, StatusAt
      <3>3. Shown(r) \/ StatusAt <= s + Settled + STATUS_PERIOD + Retry(faults)
        BY DEF ShownInv
      <3> HIDE DEF s
      <3> QED
        BY <1>5, <2>1, <2>3, <3>2, <3>3
    <2>6. CASE Due(tick, next_status_tick) /\ "send" \notin fails
      <3>1. SendStatus(fails)
        BY <1>1, <2>6 DEF RoundWith
      <3>2. CASE uptime > s + Settled
        <4>1. uptime > s + INPUT_PERIOD
          BY <1>5, <2>1, <3>2
        <4> QED
          BY <1>2, <1>7, <2>6, <3>1, <3>2, <4>1, StatusShows
      <3>3. CASE uptime <= s + Settled
        <4> HIDE DEF s
        <4> QED
          BY <1>5, <2>1, <2>3, <2>4, <3>3
      <3> QED
        BY <1>5, <2>1, <3>2, <3>3
    <2>7. CASE Due(tick, next_status_tick) /\ "send" \in fails
      <3>1. bus' = bus
        BY <1>1, <2>7 DEF RoundWith, SendStatus
      <3>2. Shown(r)' <=> Shown(r)
        BY <3>1 DEF Shown
      <3>3. faults + 1 <= faults' /\ faults + 1 \in Nat
        BY <2>2, <2>7, FailuresAreCounted
      <3>4. Retry(faults) + STATUS_PERIOD + Step <= Retry(faults')
        BY <2>2, <3>3, WaitFacts, WaitGrows
      <3>5. uptime <= StatusAt + Step
        <4>1. uptime <= RoundAt /\ RoundAt <= StatusAt + Step
          BY DEF QueueInv, OnSchedule
        <4>2. RoundAt \in Int
          BY QueueTyped, AdasNumbers DEF RoundAt
        <4> QED
          BY <1>5, <2>1, <4>1, <4>2
      <3>6. Shown(r) \/ StatusAt <= s + Settled + STATUS_PERIOD + Retry(faults)
        BY DEF ShownInv
      <3> HIDE DEF s
      <3> QED
        BY <1>5, <2>1, <2>3, <2>4, <3>2, <3>4, <3>5, <3>6
    <2> QED
      BY <2>5, <2>6, <2>7
  <1> QED
    BY <1>6, <1>8 DEF ShownInv

\* What begins to be waited for now is in time, for the deadlines are a period away.
LEMMA ShownStarts ==
    ASSUME AdasTypeOK', OnSchedule', NEW r \in Rules, since'[r] = uptime'
    PROVE  ShownInv(r)'
  <1>1. uptime' \in Nat /\ faults' \in Nat /\ tick' \in Tick /\ next_status_tick' \in Tick
    BY AdasNumbers DEF AdasTypeOK
  <1>2. InputAt' <= uptime' + INPUT_PERIOD /\ StatusAt' <= uptime' + STATUS_PERIOD
    BY DEF OnSchedule
  <1>3. StatusAt' \in Int
    BY <1>1, DeadlineFacts DEF StatusAt
  <1>4. Settled \in Nat /\ STATUS_PERIOD \in Nat /\ Retry(faults') \in Nat
    BY <1>1, SettledFacts, WaitFacts, AdasNumbers
  <1>5. \A n, u, p, l, f \in Int : n <= u + p /\ l >= 0 /\ f >= 0 => n <= u + l + p + f
    OBVIOUS
  <1>6. StatusAt' <= uptime' + Settled + STATUS_PERIOD + Retry(faults')
    <2>1. /\ uptime' \in Int /\ Settled \in Int /\ STATUS_PERIOD \in Int /\ Retry(faults') \in Int
          /\ Settled >= 0 /\ Retry(faults') >= 0
      BY <1>1, <1>4
    <2> QED
      BY <1>2, <1>3, <1>5, <2>1, Zenon
  <1> QED
    BY <1>2, <1>6 DEF ShownInv

LEMMA ShownStep ==
    ASSUME TimesAreShort, AdasTypeOK, AdasTypeOK', QueueInv, QueueInv', AgeInv', LastHeard',
           HistoryFollows, HistoryFollows', OnSchedule, OnSchedule', [Adas_Next]_adas,
           NEW r \in Rules, SpeedInv(r)', ShownInv(r)
    PROVE  ShownInv(r)'
  <1>1. CASE since'[r] = uptime'
    BY <1>1, ShownStarts
  <1>2. CASE since'[r] = -1
    BY <1>2 DEF ShownInv
  <1>3. CASE since[r] # -1 /\ since'[r] = since[r] /\ since'[r] # uptime'
    <2>1. CASE UNCHANGED <<uptime, tick, next_input_tick, next_status_tick, s_state, bus, faults>>
      BY <1>3, <2>1 DEF ShownInv, Shown, Seen, InputAt, StatusAt
    <2>2. CASE Round
      BY <1>3, <2>2, ShownRound
    <2>3. CASE AdvanceTick
      <3>1. UNCHANGED <<next_input_tick, next_status_tick, s_state, bus, faults>>
        BY <2>3 DEF AdvanceTick
      <3>2. InputAt' = InputAt /\ StatusAt' = StatusAt
        BY <2>3, DeadlinesStay
      <3> QED
        BY <1>3, <3>1, <3>2 DEF ShownInv, Shown, Seen
    <2>4. CASE \/ \E f \in Frames : Receive(f)
               \/ \E w \in Worlds : Move(w)
               \/ UNCHANGED adas
      BY <2>1, <2>4 DEF Receive, Move, adas
    <2> QED
      BY <2>2, <2>3, <2>4 DEF Adas_Next
  <1> QED
    BY <1>1, <1>2, <1>3, HistoryStep

LEMMA RulesInit == Adas_Init => RulesInv
  <1> SUFFICES ASSUME Adas_Init PROVE RulesInv
    OBVIOUS
  <1>1. OnSchedule /\ QueueInv /\ AgeInv /\ AdasTypeOK
    BY ScheduleInit, QueueInit, AdasTypeInit
  <1>2. LastHeard
    BY DEF Adas_Init, LastHeard
  <1>3. HistoryFollows
    BY DEF Adas_Init, HistoryFollows
  <1>4. ASSUME NEW r \in Rules
        PROVE  SpeedInv(r) /\ ShownInv(r)
    <2>1. CASE since[r] = -1
      BY <2>1 DEF SpeedInv, ShownInv
    <2>2. CASE since[r] # -1
      <3>1. Holds(r, world, heard, 0) /\ since[r] = 0 /\ heard.speed = 0
        BY <2>2 DEF Adas_Init
      <3>2. ~(r.speed > 0)
        BY <3>1, RuleTypes DEF Holds
      <3>3. uptime = 0 /\ faults = 0
        BY DEF Adas_Init
      <3>4. InputAt <= 0 + INPUT_PERIOD /\ StatusAt <= 0 + STATUS_PERIOD
        BY <1>1, <3>3 DEF OnSchedule
      <3>5. StatusAt \in Int
        <4>1. tick \in Tick /\ next_status_tick \in Tick
          BY <1>1 DEF AdasTypeOK
        <4> QED
          BY <3>3, <4>1, DeadlineFacts DEF StatusAt
      <3>6. Settled \in Nat /\ STATUS_PERIOD \in Nat /\ Retry(faults) \in Nat
        BY <3>3, SettledFacts, WaitFacts, AdasNumbers
      <3>7. StatusAt <= 0 + Settled + STATUS_PERIOD + Retry(faults)
        BY <3>4, <3>5, <3>6
      <3> QED
        BY <3>1, <3>2, <3>4, <3>7 DEF SpeedInv, ShownInv
    <2> QED
      BY <2>1, <2>2
  <1> QED
    BY <1>1, <1>2, <1>3, <1>4 DEF RulesInv

LEMMA RulesStep ==
    ASSUME TimesAreShort, AdasTypeOK, AdasTypeOK', RulesInv, [Adas_Next]_adas
    PROVE  RulesInv'
  <1>1. QueueInv' /\ AgeInv' /\ LastHeard' /\ HistoryFollows' /\ OnSchedule'
    BY QueueStep, AgeStep, HeardStep, HistoryStep, ScheduleStep DEF RulesInv
  <1>2. ASSUME NEW r \in Rules
        PROVE  SpeedInv(r)' /\ ShownInv(r)'
    <2>1. SpeedInv(r)'
      BY <1>1, SpeedStep DEF RulesInv
    <2> QED
      BY <1>1, <2>1, ShownStep DEF RulesInv
  <1> QED
    BY <1>1, <1>2 DEF RulesInv

\* A round comes before a status is more than a step overdue, so whoever has waited for
\* longer than the patience has seen the status go out.
LEMMA RulesFollow ==
    ASSUME AdasTypeOK, RulesInv
    PROVE  RulesShown
  <1> SUFFICES ASSUME NEW r \in Rules, since[r] # -1, uptime - since[r] > Patience
               PROVE  Shown(r)
    BY DEF RulesShown, Shown
  <1> DEFINE s == since[r]
  <1>1. uptime \in Nat /\ s \in Int /\ faults \in Nat /\ StatusAt \in Int /\ RoundAt \in Int
    <2>1. /\ uptime \in Nat /\ tick \in Tick /\ next_status_tick \in Tick /\ faults \in Nat
          /\ since \in [Rules -> -1 .. uptime] /\ wake \in Nat
      BY QueueTyped, AdasNumbers DEF AdasTypeOK
    <2> QED
      BY <2>1, DeadlineFacts, AdasNumbers DEF StatusAt, RoundAt
  <1>2. /\ Settled \in Nat /\ STATUS_PERIOD \in Nat /\ Step \in Nat /\ Retry(faults) \in Nat
        /\ Retry(faults + 1) = Retry(faults) + STATUS_PERIOD + Step
    BY <1>1, SettledFacts, WaitFacts, AdasNumbers
  <1>3. Patience = Settled + Retry(faults + 1)
    BY DEF Patience, Settled, Retry
  <1>4. uptime <= RoundAt /\ RoundAt <= StatusAt + Step
    BY DEF RulesInv, QueueInv, OnSchedule
  <1>5. Shown(r) \/ StatusAt <= s + Settled + STATUS_PERIOD + Retry(faults)
    BY DEF RulesInv, ShownInv
  <1>6. uptime - s > Settled + Retry(faults + 1)
    BY <1>3
  <1> HIDE DEF s
  <1>7. ~(StatusAt <= s + Settled + STATUS_PERIOD + Retry(faults))
    BY <1>1, <1>2, <1>4, <1>6
  <1> QED
    BY <1>5, <1>7

\* firmware/board_e_safety/README.md:45-52: while what a rule asks of the distances, the
\* buttons and the vehicle holds, its flag and at least its level are on the bus at the
\* latest when the queue has been worked off, the inputs read and a status sent, whatever
\* else is seen, and with a period more for each conversion and each send that failed.
THEOREM RulesAreShown == TimesAreShort /\ Adas_Spec => []RulesShown
  <1> SUFFICES ASSUME TimesAreShort PROVE Adas_Spec => []RulesShown
    OBVIOUS
  <1>1. AdasTypeOK /\ AdasTypeOK' /\ RulesInv /\ [Adas_Next]_adas => RulesInv'
    BY RulesStep
  <1>2. AdasTypeOK /\ RulesInv => RulesShown
    BY RulesFollow
  <1> QED
    BY RulesInit, <1>1, <1>2, AdasTypeCorrect, PTL DEF Adas_Spec

=============================================================================
