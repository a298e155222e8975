----------------------------- MODULE EngineSim -----------------------------
(***************************************************************************)
(* Board A, engine_sim.c: the pedals, read from two ADC channels or set by *)
(* a command, the model of speed, rpm and coolant, and the EngineData      *)
(* frame (0x100).                                                          *)
(*                                                                         *)
(* EngSimTask (priority Low) loops every 5 ms.  The commands of cli_cmd.c  *)
(* run in defaultTask (Normal): they come in between any two accesses of   *)
(* EngSimTask to the shared state and are themselves indivisible for it.   *)
(***************************************************************************)
EXTENDS Integers

CONSTANTS
    SPEED_MAX,         \* ENGINE_SPEED_MAX, 130
    ADC_MAX_VALUE,     \* 4095
    FILTER,            \* 1 << ADC_FILTER_SHIFT, 8
    COOLANT_INIT,      \* ENGINE_COOLANT_INIT, 70
    COOLANT_TARGETS,   \* by load: <<85, 90, 98, 105>>
    COOLANT_HOT,       \* added at full throttle, 5
    COOLANT_MAX,       \* 115
    MODEL_LOOPS,       \* loops per physics step and frame, 10
    COOLANT_LOOPS,     \* loops per coolant step, 200
    RoomWatched,       \* bound: the speed up to which `room` is followed
    Readings           \* what the ADC may read, in 0..ADC_MAX_VALUE

ENGINE_RPM_IDLE == 800
ENGINE_RPM_MAX  == 6000
THROTTLE_DEADZONE_PERCENT == 3
BRAKE_DEADZONE_PERCENT    == 8
PEDAL_MAX_CLAMP_PERCENT   == 97

\* The low-pass stops FILTER - 1 counts short of its input; both ends of the pedal
\* are reached because the dead zone and the clamp are wider than that.
ASSUME SimAssumption ==
    /\ SPEED_MAX \in Nat \ {0} /\ ADC_MAX_VALUE \in Nat \ {0} /\ FILTER \in Nat \ {0}
    /\ (100 * (FILTER - 1)) \div ADC_MAX_VALUE <= THROTTLE_DEADZONE_PERCENT
    /\ (100 * (ADC_MAX_VALUE - FILTER + 1)) \div ADC_MAX_VALUE >= PEDAL_MAX_CLAMP_PERCENT
    /\ COOLANT_TARGETS \in [1..4 -> Nat] /\ COOLANT_HOT \in Nat
    /\ COOLANT_MAX \in Nat /\ COOLANT_INIT \in 0..COOLANT_MAX
    /\ MODEL_LOOPS \in Nat \ {0} /\ COOLANT_LOOPS \in Nat \ {0}
    /\ RoomWatched \in Nat
    /\ Readings \subseteq 0..ADC_MAX_VALUE

Percent == 0..100

VARIABLES
    mode, throttle, brake, rpm, speed, coolant,          \* engine
    adc_filter_init, throttle_filtered, brake_filtered,
    pc, local, next_throttle, next_brake,  \* EngSimTask: where it is, what it has read
    since_model, since_coolant,            \* loops since t_model, t_coolant
    throttle_adc, brake_adc,               \* the voltages at the pedals
    \* History variables, read by the properties only.
    bad_frames,     \* how many of the last frames, in a row, had an rpm of another speed
    asked,          \* the pedals as the last command left them
    ask_hit,        \* that command came while the task was polling the pedals
    room            \* the speed the first steps since the last reset may have reached;
                    \* any speed when that reset came in the middle of a physics step

pedals  == <<mode, throttle, brake>>
motion  == <<rpm, speed>>
filter  == <<adc_filter_init, throttle_filtered, brake_filtered>>
task    == <<pc, local, next_throttle, next_brake, since_model, since_coolant>>
voltage == <<throttle_adc, brake_adc>>
ghosts  == <<bad_frames, asked, ask_hit, room>>
sim     == <<pedals, motion, coolant, filter, task, voltage, ghosts>>

-----------------------------------------------------------------------------
(* The formulas.  C divides towards zero.                                      *)

Quotient(a, b) == IF a >= 0 THEN a \div b ELSE -((-a) \div b)
Clamp(low, x, high) == IF x < low THEN low ELSE IF x > high THEN high ELSE x

AdcToPercent(adc) == (adc * 100) \div ADC_MAX_VALUE

LowPassAdc(filtered, raw) ==
    Clamp(0, filtered + Quotient(raw - filtered, FILTER), ADC_MAX_VALUE)

MapPedalUnclamped(percent, deadzone) ==
    IF percent <= deadzone THEN 0
    ELSE ((percent - deadzone) * 100) \div (PEDAL_MAX_CLAMP_PERCENT - deadzone)

MapPedalPercent(percent, deadzone) ==
    IF percent <= deadzone THEN 0
    ELSE IF percent >= PEDAL_MAX_CLAMP_PERCENT THEN 100
    ELSE ((percent - deadzone) * 100) \div (PEDAL_MAX_CLAMP_PERCENT - deadzone)

BrakeCurve(b) == (b * b) \div 100

TargetSpeed(t, b) == (((t * (100 - BrakeCurve(b))) \div 100) * SPEED_MAX) \div 100

\* One physics step from the speed s.
NextSpeedOfRawBrake(s, t, b) ==
    LET target == TargetSpeed(t, b)
        moved  == IF s < target THEN s + 1 + t \div 30
                  ELSE IF s > target THEN s - (1 + b \div 18)
                  ELSE s
        rolled == IF t = 0 /\ b = 0 /\ moved > 0 THEN moved - 1 ELSE moved
    IN  Clamp(0, rolled, SPEED_MAX)

NextSpeed(s, t, b) ==
    LET target == TargetSpeed(t, b)
        moved  == IF s < target THEN s + 1 + t \div 30
                  ELSE IF s > target THEN s - (1 + BrakeCurve(b) \div 18)
                  ELSE s
        rolled == IF t = 0 /\ b = 0 /\ moved > 0 THEN moved - 1 ELSE moved
    IN  Clamp(0, rolled, SPEED_MAX)

RpmOf(s) == ENGINE_RPM_IDLE + (s * (ENGINE_RPM_MAX - ENGINE_RPM_IDLE)) \div SPEED_MAX

TargetCoolant ==
    LET load == IF rpm < 1500 THEN 1 ELSE IF rpm < 3500 THEN 2 ELSE IF rpm < 5000 THEN 3 ELSE 4
        hot  == IF throttle > 80 THEN COOLANT_HOT ELSE 0
    IN  Clamp(0, COOLANT_TARGETS[load] + hot, COOLANT_MAX)

-----------------------------------------------------------------------------
(* EngineSim_UpdateInput: the mode is looked at once.                          *)

CheckModeNever ==
    /\ pc = "input" /\ pc' = "sample"
    /\ UNCHANGED <<pedals, motion, coolant, filter, local, next_throttle, next_brake,
                   since_model, since_coolant, voltage, ghosts>>

CheckMode ==
    /\ pc = "input"
    /\ pc' = IF mode = "adc" THEN "sample" ELSE "model"
    /\ UNCHANGED <<pedals, motion, coolant, filter, local, next_throttle, next_brake,
                   since_model, since_coolant, voltage, ghosts>>

\* ADC_ReadThrottle, ADC_ReadBrake (a failed conversion reads 0, like a released
\* pedal) and the low-pass, which the first sample after a change of the mode fills.
Sample ==
    /\ pc = "sample"
    /\ IF adc_filter_init
       THEN /\ throttle_filtered' = LowPassAdc(throttle_filtered, throttle_adc)
            /\ brake_filtered' = LowPassAdc(brake_filtered, brake_adc)
       ELSE throttle_filtered' = throttle_adc /\ brake_filtered' = brake_adc
    /\ adc_filter_init' = TRUE
    /\ next_throttle' =
          MapPedalPercent(AdcToPercent(throttle_filtered'), THROTTLE_DEADZONE_PERCENT)
    /\ next_brake' = MapPedalPercent(AdcToPercent(brake_filtered'), BRAKE_DEADZONE_PERCENT)
    /\ pc' = "throttle"
    /\ UNCHANGED <<pedals, motion, coolant, local, since_model, since_coolant, voltage, ghosts>>

StoreThrottle ==
    /\ pc = "throttle"
    /\ throttle' = next_throttle /\ next_throttle' = 0 /\ pc' = "brake"
    /\ UNCHANGED <<mode, brake, motion, coolant, filter, local, next_brake, since_model,
                   since_coolant, voltage, ghosts>>

StoreBrake ==
    /\ pc = "brake"
    /\ brake' = next_brake /\ next_brake' = 0 /\ pc' = "model"
    /\ UNCHANGED <<mode, throttle, motion, coolant, filter, local, next_throttle, since_model,
                   since_coolant, voltage, ghosts>>

Polling == pc \in {"sample", "throttle", "brake"}

-----------------------------------------------------------------------------
(* EngineSim_UpdatePhysics, when due.                                          *)

ModelDue == since_model >= MODEL_LOOPS

ReadSpeed ==
    /\ pc = "model"
    /\ IF ModelDue THEN local' = speed /\ pc' = "speed" ELSE UNCHANGED local /\ pc' = "coolant"
    /\ UNCHANGED <<pedals, motion, coolant, filter, next_throttle, next_brake,
                   since_model, since_coolant, voltage, ghosts>>

RoomAfterStep == IF room < RoomWatched THEN room + 4 ELSE SPEED_MAX

StoreSpeedAfterRpm ==
    /\ pc = "speed"
    /\ speed' = NextSpeed(local, throttle, brake) /\ local' = local /\ pc' = "rpm"
    /\ room' = RoomAfterStep
    /\ UNCHANGED <<pedals, rpm, coolant, filter, next_throttle, next_brake, since_model,
                   since_coolant, voltage, bad_frames, asked, ask_hit>>

\* The pedals are read several times in a step; a command in between that makes it
\* see the old and the new ones is not told apart from one before or after it.
StoreSpeed ==
    /\ pc = "speed"
    /\ speed' = NextSpeed(local, throttle, brake) /\ local' = speed' /\ pc' = "rpm"
    /\ room' = RoomAfterStep
    /\ UNCHANGED <<pedals, rpm, coolant, filter, next_throttle, next_brake, since_model,
                   since_coolant, voltage, bad_frames, asked, ask_hit>>

\* engine is not volatile: the speed of the formula may be read again or not.
StoreRpm ==
    /\ pc = "rpm"
    /\ \E s \in {speed, local} : rpm' = RpmOf(s)
    /\ local' = 0 /\ pc' = "coolant"
    /\ UNCHANGED <<pedals, speed, coolant, filter, next_throttle, next_brake, since_model,
                   since_coolant, voltage, ghosts>>

-----------------------------------------------------------------------------
(* EngineSim_UpdateCoolant, when due: one degree towards the target.           *)

ReadCoolant ==
    /\ pc = "coolant"
    /\ IF since_coolant >= COOLANT_LOOPS
       THEN /\ local' = IF coolant < TargetCoolant THEN coolant + 1
                        ELSE IF coolant > TargetCoolant THEN coolant - 1 ELSE coolant
            /\ pc' = "warm" /\ since_coolant' = 0
       ELSE UNCHANGED <<local, since_coolant>> /\ pc' = "send"
    /\ UNCHANGED <<pedals, motion, coolant, filter, next_throttle, next_brake, since_model,
                   voltage, ghosts>>

StoreCoolant ==
    /\ pc = "warm"
    /\ coolant' = local /\ local' = 0 /\ pc' = "send"
    /\ UNCHANGED <<pedals, motion, filter, next_throttle, next_brake, since_model,
                   since_coolant, voltage, ghosts>>

-----------------------------------------------------------------------------
(* EngineSim_SendEngineData: due with the physics step, whose period it has.    *)
(* The rpm is read before the speed.                                           *)

PackRpm ==
    /\ pc = "send"
    /\ IF ModelDue THEN local' = rpm /\ pc' = "frame" ELSE UNCHANGED local /\ pc' = "delay"
    /\ UNCHANGED <<pedals, motion, coolant, filter, next_throttle, next_brake,
                   since_model, since_coolant, voltage, ghosts>>

SendEngineData ==
    /\ pc = "frame"
    /\ local' = 0
    /\ bad_frames' = IF local = RpmOf(speed) THEN 0 ELSE bad_frames + 1
    /\ since_model' = 0 /\ pc' = "delay"
    /\ UNCHANGED <<pedals, motion, coolant, filter, next_throttle, next_brake, since_coolant,
                   voltage, asked, ask_hit, room>>

\* osDelay(5) and the next round of the loop.
Delay ==
    /\ pc = "delay"
    /\ since_model' = since_model + 1 /\ since_coolant' = since_coolant + 1
    /\ pc' = "input"
    /\ UNCHANGED <<pedals, motion, coolant, filter, local, next_throttle, next_brake,
                   voltage, ghosts>>

EngSimTask ==
    \/ CheckMode \/ Sample \/ StoreThrottle \/ StoreBrake
    \/ ReadSpeed \/ StoreSpeed \/ StoreRpm
    \/ ReadCoolant \/ StoreCoolant
    \/ PackRpm \/ SendEngineData \/ Delay

-----------------------------------------------------------------------------
(* defaultTask: the commands of cli_cmd.c.  A record holds what a command sets. *)

\* EngineSim_SetMode, _SetThrottle, _SetBrake; a pedal that is not set keeps its value.
SetPedals(t, b) ==
    /\ mode' = "uart" /\ throttle' = t /\ brake' = b
    /\ asked' = <<t, b>> /\ ask_hit' = Polling
    /\ UNCHANGED <<motion, coolant, filter, task, voltage, bad_frames,
                   room>>

CliCmd_Mode(m) ==
    /\ mode' = m
    /\ adc_filter_init' = (adc_filter_init /\ m # "adc")
    /\ asked' = IF m = "uart" THEN <<throttle, brake>> ELSE <<0, 0>>
    /\ ask_hit' = (m = "uart" /\ Polling)
    /\ UNCHANGED <<throttle, brake, motion, coolant, throttle_filtered, brake_filtered, task,
                   voltage, bad_frames, room>>

\* EngineSim_Reset.
ResetKeepsSpeed ==
    /\ mode' = "adc" /\ throttle' = 0 /\ brake' = 0
    /\ rpm' = ENGINE_RPM_IDLE /\ coolant' = COOLANT_INIT
    /\ adc_filter_init' = FALSE /\ throttle_filtered' = 0 /\ brake_filtered' = 0
    /\ asked' = <<0, 0>> /\ ask_hit' = FALSE
    /\ room' = (IF pc = "speed" THEN SPEED_MAX ELSE 0) /\ bad_frames' = 0
    /\ UNCHANGED <<speed, task, voltage>>

EngineSim_Reset ==
    /\ mode' = "adc" /\ throttle' = 0 /\ brake' = 0
    /\ rpm' = ENGINE_RPM_IDLE /\ speed' = 0 /\ coolant' = COOLANT_INIT
    /\ adc_filter_init' = FALSE /\ throttle_filtered' = 0 /\ brake_filtered' = 0
    /\ asked' = <<0, 0>> /\ ask_hit' = FALSE
    /\ room' = (IF pc = "speed" THEN SPEED_MAX ELSE 0) /\ bad_frames' = 0
    /\ UNCHANGED <<task, voltage>>

Command(c) ==
    CASE c.name = "pedal"     -> SetPedals(c.throttle, c.brake)
      [] c.name = "throttle"  -> SetPedals(c.throttle, brake)
      [] c.name = "brake"     -> SetPedals(throttle, c.brake)
      [] c.name = "stop"      -> SetPedals(0, 0)
      [] c.name = "mode"      -> CliCmd_Mode(c.mode)
      [] c.name = "sim_reset" -> EngineSim_Reset
      [] c.name = "status"    -> UNCHANGED sim

-----------------------------------------------------------------------------

\* The driver of the pedals.
Press(t, b) ==
    /\ throttle_adc' = t /\ brake_adc' = b
    /\ UNCHANGED <<pedals, motion, coolant, filter, task, ghosts>>

EngineSim_Init ==
    /\ mode = "adc" /\ throttle = 0 /\ brake = 0
    /\ rpm = ENGINE_RPM_IDLE /\ speed = 0 /\ coolant = COOLANT_INIT
    /\ adc_filter_init = FALSE /\ throttle_filtered = 0 /\ brake_filtered = 0
    /\ pc = "input" /\ local = 0 /\ next_throttle = 0 /\ next_brake = 0
    /\ since_model = MODEL_LOOPS /\ since_coolant = COOLANT_LOOPS
    /\ throttle_adc \in Readings /\ brake_adc \in Readings
    /\ bad_frames = 0
    /\ asked = <<0, 0>> /\ ask_hit = FALSE /\ room = 0

-----------------------------------------------------------------------------
(* Properties. *)

SimTypeOK ==
    /\ mode \in {"adc", "uart"} /\ throttle \in Percent /\ brake \in Percent
    /\ rpm \in ENGINE_RPM_IDLE..ENGINE_RPM_MAX /\ speed \in 0..SPEED_MAX
    /\ coolant \in 0..COOLANT_MAX /\ adc_filter_init \in BOOLEAN
    /\ throttle_filtered \in 0..ADC_MAX_VALUE /\ brake_filtered \in 0..ADC_MAX_VALUE

\* engine_sim.c:213, :240-241: UpdateInput looks at the mode once and stores the
\* pedals later.  The pedals a command has set stay until the next one, unless it
\* came in the middle of a poll, whose ADC values then replace them for good.
PedalHolds == mode = "uart" /\ ~ask_hit => <<throttle, brake>> = asked

\* engine_sim.c:309-320, :388-389: speed and rpm are written and packed one after the
\* other.  A reset in between spoils one frame; the next one has them in step again.
RpmErrorHeals == bad_frames <= 1

\* engine_sim.c:246, :309: the speed of a physics step is written back at its end.  A
\* reset that does not fall into a step is not undone: the speed starts from 0.
ResetHolds == speed <= room

\* engine_sim.c:281-292: the steps of acceleration and braking are larger than 1, so the
\* speed swings about its target.  With the inputs left alone it is in the end never
\* further off than what a step of these pedals can overshoot.
AtTarget(s, t, b) == s - TargetSpeed(t, b) \in -(BrakeCurve(b) \div 18)..(t \div 30)

SpeedSettles == <>[]AtTarget(speed, throttle, brake)

\* engine_sim.c:174, :187-191: the low-pass never reaches its input, but a pedal that is
\* left at one of its ends is in the end seen there.
PedalEndsReached ==
    <>[](mode = "adc" => /\ (throttle_adc = 0 => throttle = 0)
                         /\ (throttle_adc = ADC_MAX_VALUE => throttle = 100)
                         /\ (brake_adc = 0 => brake = 0)
                         /\ (brake_adc = ADC_MAX_VALUE => brake = 100))

=============================================================================
