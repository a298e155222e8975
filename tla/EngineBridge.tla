---------------------------- MODULE EngineBridge ----------------------------
(***************************************************************************)
(* Board B, gateway_engine_bridge.c: the EngineData frames (0x100) of      *)
(* Board A become the cluster's rpm frame (0x280 Motor_1) and speed frame  *)
(* (0x1A0 Bremse_1) on CAN2, each with a period of its own, with the value *)
(* 0 once Board A is silent for longer than TIMEOUT.                       *)
(*                                                                         *)
(* GatewayTask (AboveNormal) stores each 0x100 frame; ClusterTask (Normal) *)
(* can be preempted by it between any two of its reads.  One round of      *)
(* ClusterTask goes through both frames in turn: `what' is the frame it is *)
(* at, pc the position in send_motor_1 or send_bremse_1.                   *)
(***************************************************************************)
EXTENDS Ticks

CONSTANTS
    Inputs,      \* what the EngineData frames of Board A carry
    PERIODS,     \* CLUSTER_MOTOR_1_PERIOD_MS, CLUSTER_BREMSE_1_PERIOD_MS, in model ticks
    TIMEOUT,     \* CLUSTER_INPUT_TIMEOUT_MS, in model ticks
    DELAY,       \* osDelay(10U) of ClusterTask, in model ticks
    MaxLag,      \* bound: how late ClusterTask's round may end after its wake-up
    ALIVE_MOD,   \* 16: the alive counter of Bremse_1 is a nibble
    MaxBusy,     \* bound: how many SendTo calls may find no free mailbox
    MaxUptime    \* bound: how long the model follows the gateway

Signals == {"motor", "bremse"}

\* update_input_from_board_a: rpm, speed_kmh and ign_on; the coolant temperature
\* and the alive counter are only printed.
Input == [motor : Nat, bremse : Nat, ign_on : BOOLEAN]

ASSUME EngineAssumption ==
    /\ Inputs \subseteq Input
    /\ PERIODS \in [Signals -> Nat \ {0}] /\ TIMEOUT \in Nat /\ DELAY \in Nat \ {0}
    /\ \A w \in Signals : PERIODS[w] < TICK_MOD
    /\ TIMEOUT < TICK_MOD
    /\ ALIVE_MOD \in Nat \ {0}
    /\ MaxLag \in Nat /\ MaxLag < TICK_MOD /\ MaxBusy \in Nat /\ MaxUptime \in Nat

VARIABLES
    tick,                 \* osKernelGetTickCount()
    s_cluster_input, last_rx_tick,      \* ClusterInputState_t
    s_bremse_alive_counter,
    next_tick,            \* next_motor_1_tick and next_bremse_1_tick
    pc, now, what, active, value,       \* ClusterTask inside Task10ms
    bus,                  \* the last 0x280 and the last 0x1A0 value on CAN2
    alive,                \* the alive nibble of the last 0x1A0 frame
    busy,                 \* how many SendTo calls were refused (bounded by MaxBusy)
    \* History variables, read by the properties only; real time, never wrapping.
    uptime,               \* ticks since boot
    wake,                 \* when ClusterTask's osDelay ends
    rx_at,                \* when the last EngineData was stored
    sent_at,              \* per frame: when the last one was sent
    wrong_since           \* per frame: since when bus differs from Expected with no
                          \* change of Expected, no Disturbs and not Wrapped, or -1

input  == <<s_cluster_input, last_rx_tick>>
sched  == <<s_bremse_alive_counter, next_tick>>
locals == <<pc, now, what, active, value>>
wire   == <<bus, alive, busy, sent_at>>
ghosts == <<wake, rx_at, wrong_since>>
vars   == <<tick, uptime, input, sched, locals, wire, ghosts>>

-----------------------------------------------------------------------------
(* What the cluster should be shown by now. *)

Fresh == s_cluster_input.ign_on /\ uptime - rx_at <= TIMEOUT

Expected(w) == IF Fresh THEN s_cluster_input[w] ELSE 0

\* An EngineData frame that is stored while ClusterTask works with an older `now'
\* makes is_input_active fail: its last_rx_tick lies after `now'.
Disturbs == pc # "sleep" /\ now # tick

\* Board A has been silent for a whole wrap of the tick (49.7 days), and its last
\* data count as fresh again.
Wrapped == uptime - rx_at >= TICK_MOD

Track(disturbed) ==
    wrong_since' = [w \in Signals |->
        IF bus[w]' = Expected(w)' THEN -1
        ELSE IF disturbed \/ Wrapped' \/ wrong_since[w] = -1 \/ Expected(w)' # Expected(w)
             THEN uptime'
        ELSE wrong_since[w]]

-----------------------------------------------------------------------------
(* GatewayTask: GatewayEngineBridge_OnRx for a 0x100 frame of bus 1 with a    *)
(* full DLC (any other frame changes nothing).                                *)

OnRx(m) ==
    /\ s_cluster_input' = m
    /\ last_rx_tick' = tick
    /\ rx_at' = uptime
    /\ UNCHANGED <<tick, uptime, sched, locals, wire, wake>>
    /\ Track(Disturbs)

-----------------------------------------------------------------------------
(* ClusterTask: GatewayEngineBridge_Task10ms. *)

\* The osDelay is over and the task reads the clock, once for both frames.  A
\* next_motor_1_tick of 0 means "never scheduled" and restarts both schedules.
ReadNow ==
    /\ pc = "sleep" /\ uptime >= wake
    /\ now' = tick
    /\ next_tick' = IF next_tick["motor"] = 0 THEN [w \in Signals |-> tick] ELSE next_tick
    /\ what' = "motor"
    /\ pc' = "due"
    /\ UNCHANGED <<tick, uptime, input, s_bremse_alive_counter, active, value, wire,
                   wake, rx_at, wrong_since>>

\* After the rpm frame comes the speed frame, after the speed frame osDelay(10U).
NextFrame ==
    IF what = "motor"
    THEN what' = "bremse" /\ pc' = "due" /\ UNCHANGED wake
    ELSE pc' = "sleep" /\ wake' = uptime + DELAY /\ UNCHANGED what

CheckDue ==
    /\ pc = "due"
    /\ IF Due(now, next_tick[what])
       THEN pc' = "ign" /\ UNCHANGED <<what, wake>>
       ELSE NextFrame
    /\ UNCHANGED <<tick, uptime, input, sched, now, active, value, wire, rx_at, wrong_since>>

\* is_input_active, its two reads one after the other.
CheckIgn ==
    /\ pc = "ign"
    /\ IF s_cluster_input.ign_on
       THEN pc' = "age" /\ UNCHANGED active
       ELSE pc' = "value" /\ active' = FALSE
    /\ UNCHANGED <<tick, uptime, input, sched, now, what, value, wire, ghosts>>

CheckAge ==
    /\ pc = "age"
    /\ active' = (tick_elapsed(now, last_rx_tick) <= TIMEOUT)
    /\ pc' = "value"
    /\ UNCHANGED <<tick, uptime, input, sched, now, what, value, wire, ghosts>>

\* get_active_rpm or get_active_speed, then encode_motor_1 or encode_bremse_1,
\* which takes the next alive number.
NextAliveWide(a) == a + 1
NextAlive(a) == (a + 1) % ALIVE_MOD

ReadValueUnchecked ==
    /\ pc = "value"
    /\ value' = s_cluster_input[what]
    /\ s_bremse_alive_counter' = IF what = "bremse" THEN NextAlive(s_bremse_alive_counter)
                                 ELSE s_bremse_alive_counter
    /\ pc' = "send"
    /\ UNCHANGED <<tick, uptime, input, next_tick, now, what, active, wire, ghosts>>

ReadValue ==
    /\ pc = "value"
    /\ value' = IF active THEN s_cluster_input[what] ELSE 0
    /\ s_bremse_alive_counter' = IF what = "bremse" THEN NextAlive(s_bremse_alive_counter)
                                 ELSE s_bremse_alive_counter
    /\ pc' = "send"
    /\ UNCHANGED <<tick, uptime, input, next_tick, now, what, active, wire, ghosts>>

\* CAN_BSP_SendTo: the frame goes to a mailbox, or every mailbox is taken and it
\* is dropped until the next period.
SendTo ==
    \/ /\ bus' = [bus EXCEPT ![what] = value]
       /\ alive' = IF what = "bremse" THEN s_bremse_alive_counter ELSE alive
       /\ sent_at' = [sent_at EXCEPT ![what] = uptime]
       /\ UNCHANGED busy
    \/ /\ busy < MaxBusy
       /\ busy' = busy + 1
       /\ UNCHANGED <<bus, alive, sent_at>>

SendReschedulesBoth ==
    /\ pc = "send"
    /\ SendTo
    /\ next_tick' = [w \in Signals |-> TickPlus(now, PERIODS[w])]
    /\ NextFrame
    /\ UNCHANGED <<tick, uptime, input, s_bremse_alive_counter, now, active, value, rx_at>>
    /\ Track(FALSE)

Send ==
    /\ pc = "send"
    /\ SendTo
    /\ next_tick' = [next_tick EXCEPT ![what] = TickPlus(now, PERIODS[what])]
    /\ NextFrame
    /\ UNCHANGED <<tick, uptime, input, s_bremse_alive_counter, now, active, value, rx_at>>
    /\ Track(FALSE)

-----------------------------------------------------------------------------

\* The tick interrupt; ClusterTask's round ends MaxLag ticks after its wake-up at
\* the latest.
AdvanceTick ==
    /\ uptime < MaxUptime
    /\ uptime < wake + MaxLag
    /\ uptime' = uptime + 1
    /\ tick' = TickPlus(tick, 1)
    /\ UNCHANGED <<input, sched, locals, wire, wake, rx_at>>
    /\ Track(FALSE)

Init ==
    /\ tick = 0 /\ uptime = 0
    /\ s_cluster_input = [motor |-> 0, bremse |-> 0, ign_on |-> FALSE] /\ last_rx_tick = 0
    /\ s_bremse_alive_counter = 0 /\ next_tick = [w \in Signals |-> 0]
    /\ pc = "sleep" /\ now = 0 /\ what = "motor" /\ active = FALSE /\ value = 0
    /\ bus = [w \in Signals |-> 0] /\ alive = 0 /\ busy = 0
    /\ sent_at = [w \in Signals |-> 0]
    /\ wake = 0 /\ rx_at = 0 /\ wrong_since = [w \in Signals |-> -1]

ClusterTask == ReadNow \/ CheckDue \/ CheckIgn \/ CheckAge \/ ReadValue \/ Send
GatewayTask == \E m \in Inputs : OnRx(m)

Next == GatewayTask \/ ClusterTask \/ AdvanceTick

Spec == Init /\ [][Next]_vars

-----------------------------------------------------------------------------
(* Properties. *)

TypeOK ==
    /\ tick \in Tick /\ uptime \in 0 .. MaxUptime
    /\ s_cluster_input \in Input /\ last_rx_tick \in Tick
    /\ s_bremse_alive_counter \in 0 .. ALIVE_MOD - 1
    /\ next_tick \in [Signals -> Tick]
    /\ pc \in {"sleep", "due", "ign", "age", "value", "send"}
    /\ now \in Tick /\ what \in Signals /\ active \in BOOLEAN /\ value \in Nat
    /\ bus \in [Signals -> Nat] /\ alive \in 0 .. ALIVE_MOD - 1 /\ busy \in 0 .. MaxBusy
    /\ sent_at \in [Signals -> 0 .. MaxUptime]
    /\ wake \in 0 .. MaxUptime + DELAY /\ rx_at \in 0 .. MaxUptime
    /\ wrong_since \in [Signals -> -1 .. MaxUptime]

\* firmware/board_b_gateway/README.md:89: "IGN OFF or 1000 ms after the last
\* reception, RPM/Speed are sent as 0".  A frame with a value is sent at most
\* TIMEOUT after the data it shows, plus the time ClusterTask's round takes, unless
\* Board A has been silent for a whole wrap of the tick by then.
NoStaleValue ==
    \A w \in Signals :
        bus[w] # 0 /\ sent_at[w] - rx_at < TICK_MOD => sent_at[w] <= rx_at + TIMEOUT + MaxLag

\* How late ClusterTask can notice a deadline: a round that read its clock one tick
\* before it may end MaxLag later, and so may the next round after its osDelay.
Overdue == DELAY + 2 * MaxLag - 1

\* How long a frame may be due, with one whole period more for each frame that
\* found the mailboxes full.
Patience(w) == (busy + 1) * (PERIODS[w] + Overdue)

\* Whatever the tasks' preemptions make ClusterTask send, the cluster never shows
\* a value other than Board A's (0 when Board A is silent) for longer than a
\* period: new values arrive, a silent Board A turns into 0, and a 0 sent
\* while the engine runs, because data arrived after ClusterTask had read its
\* clock, is corrected by the next frame that no reception disturbs again.
GaugeErrorHeals ==
    \A w \in Signals : wrong_since[w] # -1 => uptime - wrong_since[w] <= Patience(w)

=============================================================================
