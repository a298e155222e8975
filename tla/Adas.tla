-------------------------------- MODULE Adas --------------------------------
(***************************************************************************)
(* Board E, the ADAS ECU: adas_main.c, adas_can.c, adas_input.c.  It turns *)
(* two distances, three buttons and the vehicle speed, which it hears from *)
(* Board A (0x100), into the status frame 0x3A0.                           *)
(*                                                                         *)
(* One task does everything.  Every round it takes one frame from the      *)
(* receive queue, polls the inputs and sends the status when these are due,*)
(* and sleeps for DELAY.  The receive interrupt fills the queue meanwhile. *)
(* A round takes no time in the model, but may begin late.                 *)
(***************************************************************************)
EXTENDS Ticks, Sequences, FiniteSets, FiniteSetsExt

CONSTANTS
    Worlds,          \* what the ECU may see: ADC values and pressed buttons
    Speeds,          \* the speeds in Board A's frames
    QUEUE,           \* CAN_RX_Q_SIZE
    INPUT_PERIOD, STATUS_PERIOD, ENGINE_TIMEOUT, DELAY,
    GAP,             \* how far apart the frames of a Board A that runs may be received
    MaxLag,          \* bound: how late a round may begin
    MaxFaults,       \* bound: how many ADC conversions or SendTo calls may fail
    MaxUptime        \* bound: how long the model follows the ECU

Buttons == {"lane", "brake", "fault"}
Adc == 0 .. 4095
KmH == 0 .. 65535

ASSUME AdasAssumption ==
    /\ Worlds \subseteq [front_adc : Adc, rear_adc : Adc, pressed : SUBSET Buttons]
    /\ Speeds \subseteq KmH
    /\ QUEUE \in Nat \ {0} /\ INPUT_PERIOD \in Nat /\ STATUS_PERIOD \in Nat
    /\ ENGINE_TIMEOUT \in Nat /\ DELAY \in Nat \ {0} /\ GAP \in Nat
    /\ MaxLag \in Nat /\ MaxFaults \in Nat /\ MaxUptime \in Nat
    /\ INPUT_PERIOD < TICK_MOD /\ STATUS_PERIOD < TICK_MOD
    /\ GAP + QUEUE * (DELAY + MaxLag) <= ENGINE_TIMEOUT

VARIABLES
    tick,                   \* osKernelGetTickCount() and HAL_GetTick()
    queue,                  \* can_rx_q
    speed_kmh, engine_active, s_last_engine_rx_tick,
    s_state,                \* AdasInputState_t
    next_input_tick, next_status_tick,
    bus,                    \* the last 0x3A0 frame
    world,                  \* the sensors and buttons themselves
    \* History variables, read by the properties only; real time, never wrapping.
    uptime, wake,           \* ticks since boot; when the task's osDelay ends
    faults,                 \* failed ADC conversions and SendTo calls
    speed_at,               \* when the speed that is used was received
    bus_age,                \* how old the speed in the last 0x3A0 frame was, 0 if none
    heard,                  \* the last frame of Board A with the ignition on, and when
    since                   \* per rule: since when its condition has held, or -1

engine == <<speed_kmh, engine_active, s_last_engine_rx_tick, speed_at>>
adas == <<tick, queue, engine, s_state, next_input_tick, next_status_tick, bus, bus_age, world,
          uptime, wake, faults, heard, since>>

-----------------------------------------------------------------------------
(* What firmware/board_e_safety/README.md:45-52 promises: a level and a flag   *)
(* when the distances are small enough, the button is pressed and the vehicle  *)
(* is fast enough.                                                             *)

Rule(front, rear, pressed, speed, flag, risk) ==
    [front |-> front, rear |-> rear, pressed |-> pressed, speed |-> speed, flag |-> flag,
     risk |-> risk]

Rules ==
    {Rule(30, 250, {}, 40, "FRONT_COLLISION", 3),
     Rule(50, 250, {}, 20, "FRONT_COLLISION", 2),
     Rule(250, 250, {"lane"}, 0, "LANE_DEPARTURE", 2),
     Rule(250, 250, {"brake"}, 30, "HARSH_BRAKE", 2),
     Rule(250, 25, {}, 0, "REAR_OBSTACLE", 1),
     Rule(250, 250, {"fault"}, 0, "SENSOR_FAULT", 2)}

Flags == {r.flag : r \in Rules}

-----------------------------------------------------------------------------
(* The judgement: adc_to_distance_cm and evaluate_status. *)

\* 250 cm at 0, 5 cm at full scale.
adc_to_distance_cm(adc) == 250 - (adc * 245) \div 4095

FrontDanger(i, speed) == i.front <= 30 /\ speed >= 40
FrontWarn(i, speed)   == i.front <= 50 /\ speed >= 20
RearObstacle(i)       == i.rear <= 25

evaluate_flags(i, speed) ==
    {f \in {"FRONT_COLLISION"} : FrontDanger(i, speed) \/ FrontWarn(i, speed)}
    \cup {f \in {"REAR_OBSTACLE"} : RearObstacle(i)}
    \cup {f \in {"LANE_DEPARTURE"} : "lane" \in i.pressed}
    \cup {f \in {"HARSH_BRAKE"} : "brake" \in i.pressed}
    \cup {f \in {"SENSOR_FAULT"} : "fault" \in i.pressed}

\* What is found last counts, whatever was found before.
LastRisk(i, speed) ==
    IF "fault" \in i.pressed THEN 2
    ELSE IF RearObstacle(i) THEN 1
    ELSE IF FrontDanger(i, speed) THEN 3
    ELSE IF FrontWarn(i, speed) THEN 2
    ELSE IF "brake" \in i.pressed THEN 1 ELSE 0

\* The highest level of all that is found.
evaluate_risk(i, speed) ==
    Max({0} \cup {2 : b \in {"lane", "fault"} \cap i.pressed}
            \cup {IF speed >= 30 THEN 2 ELSE 1 : b \in {"brake"} \cap i.pressed}
            \cup {IF FrontDanger(i, speed) THEN 3 ELSE IF FrontWarn(i, speed) THEN 2 ELSE 0}
            \cup {IF RearObstacle(i) THEN 1 ELSE 0})

clamp_speed(speed) == IF speed > 255 THEN 255 ELSE speed

evaluate_status(i, speed) ==
    [flags |-> evaluate_flags(i, speed), risk |-> evaluate_risk(i, speed),
     speed |-> clamp_speed(speed)]

-----------------------------------------------------------------------------
(* One round of the task, step by step as functions of the state. *)

\* ADAS_Can_PollRx takes one frame and keeps the speed of Board A's, if the
\* ignition is on.  The age is counted from here, not from the reception.
PollRx ==
    /\ queue' = IF queue = <<>> THEN <<>> ELSE Tail(queue)
    /\ IF queue # <<>> /\ Head(queue).ign_on
       THEN /\ speed_kmh' = Head(queue).speed
            /\ engine_active' = TRUE
            /\ s_last_engine_rx_tick' = tick
            /\ speed_at' = Head(queue).at
       ELSE UNCHANGED engine

\* ADAS_Can_GetVehicleSpeedKmh, after PollRx.
VehicleSpeedUnchecked == IF ~engine_active' THEN 0 ELSE speed_kmh'

VehicleSpeed ==
    IF ~engine_active' \/ tick_elapsed(tick, s_last_engine_rx_tick') > ENGINE_TIMEOUT
    THEN 0 ELSE speed_kmh'

\* ADAS_Input_Poll.  A conversion that fails reads 0, the largest distance.
InputPoll(fails) ==
    s_state' = [front |-> adc_to_distance_cm(IF "front" \in fails THEN 0 ELSE world.front_adc),
                rear  |-> adc_to_distance_cm(IF "rear" \in fails THEN 0 ELSE world.rear_adc),
                pressed |-> world.pressed]

\* ADAS_Can_SendStatus: into a free mailbox, or not at all.
SendStatus(fails) ==
    IF "send" \in fails THEN UNCHANGED <<bus, bus_age>>
    ELSE /\ bus' = evaluate_status(s_state', VehicleSpeed)
         /\ bus_age' = IF VehicleSpeed = 0 THEN 0 ELSE uptime - speed_at'

\* A rule's condition: what is to be seen, and the speed of a Board A that runs.
Holds(r, w, h, time) ==
    /\ adc_to_distance_cm(w.front_adc) <= r.front
    /\ adc_to_distance_cm(w.rear_adc) <= r.rear
    /\ r.pressed \subseteq w.pressed
    /\ r.speed > 0 => h.speed >= r.speed /\ time - h.at <= GAP

\* A failed conversion makes the waiting begin anew.
Track(restart) ==
    since' = [r \in Rules |->
                 IF ~Holds(r, world', heard', uptime') THEN -1
                 ELSE IF since[r] = -1 \/ restart THEN uptime' ELSE since[r]]

Round ==
    /\ uptime >= wake
    /\ PollRx
    /\ LET input_due  == Due(tick, next_input_tick)
           status_due == Due(tick, next_status_tick)
       IN  \E fails \in SUBSET ((IF input_due THEN {"front", "rear"} ELSE {})
                                \cup (IF status_due THEN {"send"} ELSE {})) :
             /\ faults' = faults + Cardinality(fails) /\ faults' <= MaxFaults
             /\ IF input_due
                THEN InputPoll(fails) /\ next_input_tick' = TickPlus(tick, INPUT_PERIOD)
                ELSE UNCHANGED <<s_state, next_input_tick>>
             /\ IF status_due
                THEN SendStatus(fails) /\ next_status_tick' = TickPlus(tick, STATUS_PERIOD)
                ELSE UNCHANGED <<bus, bus_age, next_status_tick>>
             /\ UNCHANGED <<tick, world, uptime, heard>>
             /\ Track(fails \cap {"front", "rear"} # {})
    /\ wake' = uptime + DELAY

-----------------------------------------------------------------------------
(* The world: the receive interrupt, the sensors, the time. *)

\* A frame of Board A with the ignition on, or any other, which PollRx ignores.
Frames == [speed : Speeds, ign_on : {TRUE}] \cup {[speed |-> 0, ign_on |-> FALSE]}

ReceiveAlways(f) ==
    /\ queue' = Append(queue, [speed |-> f.speed, ign_on |-> f.ign_on, at |-> uptime])
    /\ heard' = IF f.ign_on THEN [speed |-> f.speed, at |-> uptime] ELSE heard
    /\ UNCHANGED <<tick, engine, s_state, next_input_tick, next_status_tick, bus, bus_age, world,
                   uptime, wake, faults>>
    /\ Track(FALSE)

\* The interrupt drops the frame when the queue is full.
Receive(f) ==
    /\ IF Len(queue) < QUEUE
       THEN /\ queue' = Append(queue, [speed |-> f.speed, ign_on |-> f.ign_on, at |-> uptime])
            /\ heard' = IF f.ign_on THEN [speed |-> f.speed, at |-> uptime] ELSE heard
       ELSE UNCHANGED <<queue, heard>>
    /\ UNCHANGED <<tick, engine, s_state, next_input_tick, next_status_tick, bus, bus_age, world,
                   uptime, wake, faults>>
    /\ Track(FALSE)

Move(w) ==
    /\ world' = w
    /\ UNCHANGED <<tick, queue, engine, s_state, next_input_tick, next_status_tick, bus, bus_age,
                   uptime, wake, faults, heard>>
    /\ Track(FALSE)

AdvanceTick ==
    /\ uptime < MaxUptime /\ uptime < wake + MaxLag
    /\ uptime' = uptime + 1 /\ tick' = TickPlus(tick, 1)
    /\ UNCHANGED <<queue, engine, s_state, next_input_tick, next_status_tick, bus, bus_age, world,
                   wake, faults, heard>>
    /\ Track(FALSE)

Far == [front |-> 250, rear |-> 250, pressed |-> {}]

Adas_Init ==
    /\ tick = 0 /\ uptime = 0 /\ wake = 0
    /\ queue = <<>> /\ heard = [speed |-> 0, at |-> 0]
    /\ speed_kmh = 0 /\ engine_active = FALSE /\ s_last_engine_rx_tick = 0 /\ speed_at = 0
    /\ s_state = Far /\ next_input_tick = 0 /\ next_status_tick = 0
    /\ bus = [flags |-> {}, risk |-> 0, speed |-> 0] /\ bus_age = 0
    /\ world \in Worlds /\ faults = 0
    /\ since = [r \in Rules |-> IF Holds(r, world, heard, 0) THEN 0 ELSE -1]

Adas_Next == Round \/ (\E f \in Frames : Receive(f)) \/ (\E w \in Worlds : Move(w)) \/ AdvanceTick

Adas_Spec == Adas_Init /\ [][Adas_Next]_adas

-----------------------------------------------------------------------------
(* Properties. *)

Distance == 5 .. 250

AdasTypeOK ==
    /\ tick \in Tick /\ uptime \in 0 .. MaxUptime /\ wake \in 0 .. MaxUptime + DELAY
    /\ Len(queue) <= QUEUE
    /\ queue \in Seq([speed : KmH, ign_on : BOOLEAN, at : 0 .. uptime])
    /\ speed_kmh \in KmH /\ engine_active \in BOOLEAN
    /\ s_last_engine_rx_tick \in Tick /\ speed_at \in 0 .. uptime
    /\ s_state \in [front : Distance, rear : Distance, pressed : SUBSET Buttons]
    /\ next_input_tick \in Tick /\ next_status_tick \in Tick
    /\ bus \in [flags : SUBSET Flags, risk : 0 .. 3, speed : 0 .. 255]
    /\ bus_age \in 0 .. uptime /\ world \in Worlds /\ faults \in 0 .. MaxFaults
    /\ heard \in [speed : KmH, at : 0 .. uptime]
    /\ since \in [Rules -> -1 .. uptime]

Step == DELAY + MaxLag

\* A round takes one frame, so a frame waits for QUEUE rounds at most, and its age is
\* counted only from there (adas_can.c:52).  No status is judged with a speed
\* that was received earlier than the timeout and that wait, unless nothing was
\* received for a whole wrap of the tick.
SpeedNotStale == bus_age < TICK_MOD => bus_age <= ENGINE_TIMEOUT + QUEUE * Step

\* The frames that were in the queue when the condition began to hold are worked off,
\* and the inputs are read; then a status is due, and once more after each failure.
Patience == Max({QUEUE * Step, INPUT_PERIOD}) + (faults + 1) * (STATUS_PERIOD + Step)

\* firmware/board_e_safety/README.md:45-52: when the condition of a rule has held for
\* long enough, with Board A heard at every GAP, the frame on the bus has the
\* rule's flag and at least its level, whatever else is seen at the same time,
\* however full the queue has been, and after failed conversions and sends.
RulesShown ==
    \A r \in Rules :
        since[r] # -1 /\ uptime - since[r] > Patience => r.flag \in bus.flags /\ bus.risk >= r.risk

=============================================================================
