---------------------------- MODULE SafetyBridge ----------------------------
(***************************************************************************)
(* Board B, gateway_safety_bridge.c: the ADAS status frames (0x3A0) of     *)
(* Board E become warning-lamp frames (0x480, Golf6 mMotor_5) on CAN2, and *)
(* the faults they report are latched as DTCs.                             *)
(*                                                                         *)
(* Two FreeRTOS tasks run this file without a lock.  GatewayTask (priority *)
(* AboveNormal) calls OnRx and, through the UDS server, ClearDtc;          *)
(* ClusterTask (Normal) calls Task10ms every 10 ms.  The higher priority   *)
(* makes GatewayTask's handlers atomic for ClusterTask, while ClusterTask  *)
(* can be preempted between any two of its own reads and writes: its       *)
(* handler is one action per access to the shared state, with its local    *)
(* variables in now, active and frame and its position in pc.              *)
(***************************************************************************)
EXTENDS Ticks

CONSTANTS
    Statuses,        \* the ADAS statuses Board E can report
    PERIOD,          \* GATEWAY_SAFETY_WARNING_PERIOD_MS, in model ticks
    TIMEOUT,         \* GATEWAY_SAFETY_TIMEOUT_MS, in model ticks
    DELAY,           \* osDelay(10U) of ClusterTask, in model ticks
    MaxLag,          \* bound: how late ClusterTask's round may end after its wake-up
    ALIVE_MOD,       \* 256: s_warning_alive is a uint8_t
    MaxBusy,         \* bound: how many SendTo calls may find no free mailbox
    MaxUptime        \* bound: how long the model follows the gateway

ADAS_FAULTS == {"FRONT_SENSOR", "REAR_SENSOR", "BUTTON_STUCK", "MESSAGE_TIMEOUT"}

Status == [risk_level : 0 .. 255,
           SENSOR_FAULT : BOOLEAN,
           active_fault_bitmap : SUBSET ADAS_FAULTS]

ASSUME SafetyAssumption ==
    /\ Statuses \subseteq Status
    /\ PERIOD \in Nat \ {0} /\ TIMEOUT \in Nat /\ DELAY \in Nat \ {0}
    /\ PERIOD < TICK_MOD /\ TIMEOUT < TICK_MOD
    /\ MaxLag \in Nat /\ MaxLag < TICK_MOD /\ MaxBusy \in Nat /\ MaxUptime \in Nat
    /\ ALIVE_MOD \in Nat \ {0}

\* GatewaySafetyDiagnostic_t.
Diagnostic == [valid : BOOLEAN, risk_level : 0 .. 255, SENSOR_FAULT : BOOLEAN,
               active_fault_bitmap : SUBSET ADAS_FAULTS,
               dtc_bitmap : SUBSET ADAS_FAULTS, last_rx_tick : Tick]

VARIABLES
    tick,                 \* osKernelGetTickCount()
    s_diag,               \* GatewaySafetyDiagnostic_t
    s_next_warning_tick,
    s_warning_alive,
    pc, now, active, frame,   \* ClusterTask inside Task10ms
    bus,                  \* the last 0x480 frame on CAN2, NoFrame before the first
    busy,                 \* how many SendTo calls were refused (bounded by MaxBusy)
    \* History variables, read by the properties only; real time, never wrapping.
    uptime,               \* ticks since boot
    wake,                 \* when ClusterTask's osDelay ends
    rx_at,                \* when the last status was accepted
    sent_at,              \* when the last 0x480 frame was sent
    wrong_since,          \* since when danger is reported and the lamp is off, or -1
    quiet_since,          \* since when danger is reported and no lit frame came, or -1
    since_clear           \* the faults reported since the last ClearDtc

shared == <<s_diag, s_next_warning_tick, s_warning_alive>>
locals == <<pc, now, active, frame>>
wire   == <<bus, busy, sent_at>>
ghosts == <<wake, rx_at, wrong_since, quiet_since, since_clear>>
vars   == <<tick, uptime, shared, locals, wire, ghosts>>

NoFrame == [HLEUCHTE |-> FALSE, HEISSL |-> FALSE, TDE_LAMPE |-> FALSE, alive |-> 0]

-----------------------------------------------------------------------------
(* The predicates of the code. *)

\* Dangerous(d) is the last conjunct of safety_warning_active, Faulty(d) the
\* fault bits of build_motor5_warning.
Faulty(d)    == d.SENSOR_FAULT \/ d.active_fault_bitmap # {}
Dangerous(d) == d.risk_level >= 2 \/ Faulty(d)

safety_status_recent(t) ==
    /\ s_diag.valid
    /\ tick_elapsed(t, s_diag.last_rx_tick) <= TIMEOUT

safety_warning_active(t) == safety_status_recent(t) /\ Dangerous(s_diag)

\* build_motor5_warning after its first line: `on' is the local `active'.
Motor5(on, d) == [HLEUCHTE  |-> on,
                  HEISSL    |-> on /\ d.risk_level >= 3,
                  TDE_LAMPE |-> on /\ Faulty(d),
                  alive     |-> s_warning_alive]

NextAliveWide(a) == a + 1
NextAlive(a) == (a + 1) % ALIVE_MOD

\* The faults OnRx adds to dtc_bitmap: a sensor fault counts for both sensors.
LatchedFaults(st) ==
    st.active_fault_bitmap \cup
        (IF st.SENSOR_FAULT THEN {"FRONT_SENSOR", "REAR_SENSOR"} ELSE {})

\* What the history variables follow: danger is reported and not yet timed out.
DangerReported ==
    s_diag.valid /\ Dangerous(s_diag) /\ uptime - rx_at <= TIMEOUT

Track ==
    /\ wrong_since' = IF ~DangerReported' \/ bus'.HLEUCHTE THEN -1
                      ELSE IF wrong_since = -1 THEN uptime' ELSE wrong_since
    /\ quiet_since' = IF ~DangerReported' THEN -1
                      ELSE IF quiet_since = -1 \/ (sent_at' = uptime' /\ bus'.HLEUCHTE)
                           THEN uptime' ELSE quiet_since

-----------------------------------------------------------------------------
(* CAN_BSP_SendTo(&hcan2, 0x480, ...): the frame goes to a free mailbox, or   *)
(* every mailbox is taken and the frame is dropped (HAL_BUSY, not retried).   *)

SendTo(f) ==
    \/ /\ bus' = f
       /\ sent_at' = uptime
       /\ UNCHANGED busy
    \/ /\ busy < MaxBusy
       /\ busy' = busy + 1
       /\ UNCHANGED <<bus, sent_at>>

-----------------------------------------------------------------------------
(* GatewayTask. *)

Received(st) == [s_diag EXCEPT !.valid = TRUE,
                               !.risk_level = st.risk_level,
                               !.SENSOR_FAULT = st.SENSOR_FAULT,
                               !.active_fault_bitmap = st.active_fault_bitmap,
                               !.last_rx_tick = tick]

StoreForgetsDtc(st) == [Received(st) EXCEPT !.dtc_bitmap = LatchedFaults(st)]
Store(st) == [Received(st) EXCEPT !.dtc_bitmap = @ \cup LatchedFaults(st)]

\* GatewaySafetyBridge_OnRx for a 0x3A0 frame of bus 1 with a full DLC (any
\* other frame returns at once).  A dangerous status is sent on immediately
\* and the periodic frame is put off by a whole period.
OnRx(st) ==
    /\ s_diag' = Store(st)
    /\ IF Dangerous(st)
       THEN /\ SendTo(Motor5(TRUE, st))
            /\ s_warning_alive' = NextAlive(s_warning_alive)
            /\ s_next_warning_tick' = TickPlus(tick, PERIOD)
       ELSE UNCHANGED <<s_next_warning_tick, s_warning_alive, wire>>
    /\ rx_at' = uptime
    /\ since_clear' = since_clear \cup LatchedFaults(st)
    /\ UNCHANGED <<tick, uptime, locals, wake>>
    /\ Track

\* GatewaySafetyBridge_ClearDtc, called by the UDS server for SID 0x14.
ClearDtc ==
    /\ s_diag' = [s_diag EXCEPT !.dtc_bitmap = {}]
    /\ since_clear' = {}
    /\ UNCHANGED <<tick, uptime, s_next_warning_tick, s_warning_alive, locals,
                   wire, wake, rx_at, wrong_since, quiet_since>>

-----------------------------------------------------------------------------
(* ClusterTask: GatewaySafetyBridge_Task10ms. *)

\* The osDelay is over and the task reads the clock, once for the whole round.
ReadNow ==
    /\ pc = "sleep" /\ uptime >= wake
    /\ now' = tick
    /\ pc' = "due"
    /\ UNCHANGED <<tick, uptime, shared, active, frame, wire, wake, rx_at,
                   wrong_since, quiet_since, since_clear>>

\* The end of the round: osDelay(10U) starts now.
Sleep ==
    /\ pc' = "sleep"
    /\ wake' = uptime + DELAY

WarningDueByOrder(next) == now >= next
WarningDue(next) == Due(now, next)

\* Zero means "never scheduled", so the first round is due at once.
CheckDue ==
    /\ pc = "due"
    /\ LET next == IF s_next_warning_tick = 0 THEN now ELSE s_next_warning_tick
       IN  /\ s_next_warning_tick' = next
           /\ IF WarningDue(next)
              THEN pc' = "recent" /\ UNCHANGED wake
              ELSE Sleep
    /\ UNCHANGED <<tick, uptime, s_diag, s_warning_alive, now, active, frame, wire,
                   rx_at, wrong_since, quiet_since, since_clear>>

CheckRecentAlways ==
    /\ pc = "recent"
    /\ pc' = "active"
    /\ UNCHANGED <<tick, uptime, shared, now, active, frame, wire, ghosts>>

\* No recent status: nothing is sent, and the next try is a period away.
CheckRecent ==
    /\ pc = "recent"
    /\ IF safety_status_recent(now)
       THEN pc' = "active" /\ UNCHANGED <<s_next_warning_tick, wake>>
       ELSE s_next_warning_tick' = TickPlus(now, PERIOD) /\ Sleep
    /\ UNCHANGED <<tick, uptime, s_diag, s_warning_alive, now, active, frame, wire,
                   rx_at, wrong_since, quiet_since, since_clear>>

\* First line of build_motor5_warning: the lamp bit is decided here.
BuildActive ==
    /\ pc = "active"
    /\ active' = safety_warning_active(now)
    /\ pc' = "bits"
    /\ UNCHANGED <<tick, uptime, shared, now, frame, wire, ghosts>>

\* The other bits and the alive counter, from the status as it is by now.
BuildBits ==
    /\ pc = "bits"
    /\ frame' = Motor5(active, s_diag)
    /\ pc' = "store"
    /\ UNCHANGED <<tick, uptime, shared, now, active, wire, ghosts>>

\* s_warning_alive++ is a load and a store: an increment that GatewayTask made
\* between the two is lost.
StoreAlive ==
    /\ pc = "store"
    /\ s_warning_alive' = NextAlive(frame.alive)
    /\ pc' = "send"
    /\ UNCHANGED <<tick, uptime, s_diag, s_next_warning_tick, now, active, frame, wire,
                   ghosts>>

\* The schedule counts from the `now' of the round, whatever OnRx has set
\* in the meantime.
SendWarning ==
    /\ pc = "send"
    /\ SendTo(frame)
    /\ s_next_warning_tick' = TickPlus(now, PERIOD)
    /\ Sleep
    /\ UNCHANGED <<tick, uptime, s_diag, s_warning_alive, now, active, frame, rx_at,
                   since_clear>>
    /\ Track

-----------------------------------------------------------------------------
(* The tick interrupt.  Only GatewayTask runs above ClusterTask, defaultTask   *)
(* shares its priority, and a round takes far less than a tick: it is over    *)
(* MaxLag ticks after its wake-up at the latest, and time cannot pass beyond  *)
(* that without it.                                                           *)

AdvanceTick ==
    /\ uptime < MaxUptime
    /\ uptime < wake + MaxLag
    /\ uptime' = uptime + 1
    /\ tick' = TickPlus(tick, 1)
    /\ UNCHANGED <<shared, locals, wire, wake, rx_at, since_clear>>
    /\ Track

Init ==
    /\ tick = 0 /\ uptime = 0
    /\ s_diag = [valid |-> FALSE, risk_level |-> 0, SENSOR_FAULT |-> FALSE,
                 active_fault_bitmap |-> {}, dtc_bitmap |-> {}, last_rx_tick |-> 0]
    /\ s_next_warning_tick = 0 /\ s_warning_alive = 0
    /\ pc = "sleep" /\ now = 0 /\ active = FALSE /\ frame = NoFrame
    /\ bus = NoFrame /\ busy = 0 /\ sent_at = -1
    /\ wake = 0 /\ rx_at = 0 /\ wrong_since = -1 /\ quiet_since = -1
    /\ since_clear = {}

ClusterTask == \/ ReadNow \/ CheckDue \/ CheckRecent
               \/ BuildActive \/ BuildBits \/ StoreAlive \/ SendWarning
GatewayTask == (\E st \in Statuses : OnRx(st)) \/ ClearDtc

Next == GatewayTask \/ ClusterTask \/ AdvanceTick

Spec == Init /\ [][Next]_vars

-----------------------------------------------------------------------------
(* Properties. *)

Frame == [HLEUCHTE : BOOLEAN, HEISSL : BOOLEAN, TDE_LAMPE : BOOLEAN,
          alive : 0 .. ALIVE_MOD - 1]

TypeOK ==
    /\ tick \in Tick /\ uptime \in 0 .. MaxUptime
    /\ s_diag \in Diagnostic
    /\ s_next_warning_tick \in Tick /\ s_warning_alive \in 0 .. ALIVE_MOD - 1
    /\ pc \in {"sleep", "due", "recent", "active", "bits", "store", "send"}
    /\ now \in Tick /\ active \in BOOLEAN /\ frame \in Frame
    /\ bus \in Frame /\ busy \in 0 .. MaxBusy
    /\ sent_at \in -1 .. MaxUptime
    /\ wake \in 0 .. MaxUptime + DELAY /\ rx_at \in 0 .. MaxUptime
    /\ wrong_since \in -1 .. MaxUptime /\ quiet_since \in -1 .. MaxUptime
    /\ since_clear \subseteq ADAS_FAULTS

\* How late ClusterTask can notice a deadline: a round that read its clock one tick
\* before it may end MaxLag later, and so may the next round after its osDelay.
Overdue == DELAY + 2 * MaxLag - 1

\* How long a frame may be due, with one whole period more for each frame that
\* found the mailboxes full.
Patience == (busy + 1) * (PERIOD + Overdue)

\* Once Board E has been silent for longer than the timeout, and the round that
\* was running has ended, no 0x480 frame goes out any more, and the cluster is left
\* to its own timeout instead of being fed an old ADAS state (safety_status_recent,
\* Task10ms).  Only when the silence has lasted for a whole wrap of the tick (49.7
\* days) the old data count as fresh again, since nothing withdraws `valid'.
NoStaleWarning == sent_at - rx_at < TICK_MOD => sent_at <= rx_at + TIMEOUT + MaxLag

\* While Board E reports danger, a frame with the lamp on has been on CAN2 within
\* the last period: the immediate frame of OnRx and the periodic one of Task10ms
\* never leave a gap between them, however the tasks preempt each other.
WarningWithinPeriod == quiet_since # -1 => uptime - quiet_since <= Patience

\* The lamp can be off although Board E has reported danger all the time (a status
\* stored after ClusterTask has read its clock looks as old as a whole wrap of the
\* tick), but never for longer than a period: every wrong frame is corrected by the
\* next round of ClusterTask.
LampErrorHeals == wrong_since # -1 => uptime - wrong_since <= Patience

\* dtc_bitmap holds every fault reported since the last clear request, whatever
\* statuses came later (OnRx ors, only ClearDtc resets).
FaultsStayLatched == since_clear \subseteq s_diag.dtc_bitmap

=============================================================================
