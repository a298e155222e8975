----------------------------- MODULE BodyBridge -----------------------------
(***************************************************************************)
(* Board B, gateway_body_bridge.c: the body frames (0x390, Golf6           *)
(* mGate_Komf_1) of Board D are sent on to CAN2 as they come, and kept     *)
(* alive there every PERIOD by ClusterTask while the last one is younger   *)
(* than TIMEOUT.                                                           *)
(*                                                                         *)
(* GatewayTask (AboveNormal) may preempt ClusterTask (Normal) between any  *)
(* two of its memory accesses, also between the two words of the memcpy    *)
(* that takes the eight payload bytes: a payload is a pair of words.       *)
(***************************************************************************)
EXTENDS Ticks

CONSTANTS
    Payloads,    \* the payloads of the body frames, pairs of words
    PERIOD,      \* BODY_STATUS_PERIOD_MS, in model ticks
    TIMEOUT,     \* BODY_STATUS_TIMEOUT_MS, in model ticks
    DELAY,       \* osDelay(10U) of ClusterTask, in model ticks
    MaxLag,      \* bound: how late ClusterTask's round may end after its wake-up
    MaxBusy,     \* bound: how many SendTo calls may find no free mailbox
    MaxUptime    \* bound: how long the model follows the gateway

Words == {p[1] : p \in Payloads} \cup {p[2] : p \in Payloads} \cup {0}

ASSUME BodyAssumption ==
    /\ Payloads \subseteq Nat \X Nat
    /\ PERIOD \in Nat \ {0} /\ TIMEOUT \in Nat /\ DELAY \in Nat \ {0}
    /\ PERIOD < TICK_MOD /\ TIMEOUT < TICK_MOD
    /\ MaxLag \in Nat /\ MaxLag < TICK_MOD /\ MaxBusy \in Nat /\ MaxUptime \in Nat

VARIABLES
    tick,                  \* osKernelGetTickCount()
    s_body_status,         \* the payload of BodyBridgeState_t
    last_rx_tick, valid,   \* the other fields of BodyBridgeState_t
    s_next_body_status_tick,
    pc, now, data,         \* ClusterTask inside Task10ms
    bus,                   \* the payload of the last 0x390 frame on CAN2
    busy,                  \* how many SendTo calls were refused (bounded by MaxBusy)
    \* History variables, read by the properties only; real time, never wrapping.
    uptime,                \* ticks since boot
    wake,                  \* when ClusterTask's osDelay ends
    rx_at,                 \* when the last body frame was stored
    sent_at,               \* when the last 0x390 frame was sent on CAN2
    wrong_since            \* since when a fresh status is not the one on the bus, or -1

status == <<s_body_status, last_rx_tick, valid>>
locals == <<pc, now, data>>
wire   == <<bus, busy, sent_at>>
ghosts == <<wake, rx_at, wrong_since>>
vars   == <<tick, uptime, status, s_next_body_status_tick, locals, wire, ghosts>>

NoPayload == <<0, 0>>

Fresh == valid /\ uptime - rx_at <= TIMEOUT

Track == wrong_since' = IF ~Fresh' \/ bus' = s_body_status' THEN -1
                        ELSE IF wrong_since = -1 THEN uptime' ELSE wrong_since

\* CAN_BSP_SendTo: into a free mailbox, or dropped when all are taken.
SendTo(p) ==
    \/ /\ bus' = p /\ sent_at' = uptime
       /\ UNCHANGED busy
    \/ /\ busy < MaxBusy /\ busy' = busy + 1
       /\ UNCHANGED <<bus, sent_at>>

-----------------------------------------------------------------------------
(* GatewayTask: GatewayBodyBridge_OnRx for a 0x390 frame of bus 1 with DLC 8   *)
(* (any other frame changes nothing).                                          *)

OnRx(p) ==
    /\ s_body_status' = p /\ last_rx_tick' = tick /\ valid' = TRUE
    /\ s_next_body_status_tick' = TickPlus(tick, PERIOD)
    /\ SendTo(p)
    /\ rx_at' = uptime
    /\ UNCHANGED <<tick, uptime, locals, wake>>
    /\ Track

-----------------------------------------------------------------------------
(* ClusterTask: GatewayBodyBridge_Task10ms. *)

ReadNow ==
    /\ pc = "sleep" /\ uptime >= wake
    /\ now' = tick
    /\ pc' = "due"
    /\ UNCHANGED <<tick, uptime, status, s_next_body_status_tick, data, wire, ghosts>>

Sleep == pc' = "sleep" /\ wake' = uptime + DELAY

\* Zero means "never scheduled", so the first round is due at once.
CheckDue ==
    /\ pc = "due"
    /\ LET next == IF s_next_body_status_tick = 0 THEN now ELSE s_next_body_status_tick
       IN  /\ s_next_body_status_tick' = next
           /\ IF Due(now, next) THEN pc' = "recent" /\ UNCHANGED wake ELSE Sleep
    /\ UNCHANGED <<tick, uptime, status, now, data, wire, rx_at, wrong_since>>

is_body_status_recent(t) == valid /\ tick_elapsed(t, last_rx_tick) <= TIMEOUT

\* No recent status: nothing is sent, and the next try is a period away.
CheckRecentForgetsTimeout ==
    /\ pc = "recent"
    /\ IF valid
       THEN pc' = "low" /\ UNCHANGED <<s_next_body_status_tick, wake>>
       ELSE s_next_body_status_tick' = TickPlus(now, PERIOD) /\ Sleep
    /\ UNCHANGED <<tick, uptime, status, now, data, wire, rx_at, wrong_since>>

CheckRecent ==
    /\ pc = "recent"
    /\ IF is_body_status_recent(now)
       THEN pc' = "low" /\ UNCHANGED <<s_next_body_status_tick, wake>>
       ELSE s_next_body_status_tick' = TickPlus(now, PERIOD) /\ Sleep
    /\ UNCHANGED <<tick, uptime, status, now, data, wire, rx_at, wrong_since>>

\* send_body_status copies the payload, word by word.
CopyLow ==
    /\ pc = "low"
    /\ data' = <<s_body_status[1], data[2]>>
    /\ pc' = "high"
    /\ UNCHANGED <<tick, uptime, status, s_next_body_status_tick, now, wire, ghosts>>

CopyHigh ==
    /\ pc = "high"
    /\ data' = <<data[1], s_body_status[2]>>
    /\ pc' = "send"
    /\ UNCHANGED <<tick, uptime, status, s_next_body_status_tick, now, wire, ghosts>>

\* The schedule counts from the `now' of the round, whatever OnRx has set since.
SendStatusReschedulesTwice ==
    /\ pc = "send"
    /\ SendTo(data)
    /\ s_next_body_status_tick' = TickPlus(now, 2 * PERIOD)
    /\ Sleep
    /\ UNCHANGED <<tick, uptime, status, now, data, rx_at>>
    /\ Track

SendStatus ==
    /\ pc = "send"
    /\ SendTo(data)
    /\ s_next_body_status_tick' = TickPlus(now, PERIOD)
    /\ Sleep
    /\ UNCHANGED <<tick, uptime, status, now, data, rx_at>>
    /\ Track

-----------------------------------------------------------------------------

\* The tick interrupt; ClusterTask's round ends MaxLag ticks after its wake-up at
\* the latest.
AdvanceTick ==
    /\ uptime < MaxUptime
    /\ uptime < wake + MaxLag
    /\ uptime' = uptime + 1
    /\ tick' = TickPlus(tick, 1)
    /\ UNCHANGED <<status, s_next_body_status_tick, locals, wire, wake, rx_at>>
    /\ Track

Init ==
    /\ tick = 0 /\ uptime = 0
    /\ s_body_status = NoPayload /\ last_rx_tick = 0 /\ valid = FALSE
    /\ s_next_body_status_tick = 0
    /\ pc = "sleep" /\ now = 0 /\ data = NoPayload
    /\ bus = NoPayload /\ busy = 0 /\ sent_at = 0
    /\ wake = 0 /\ rx_at = 0 /\ wrong_since = -1

ClusterTask == ReadNow \/ CheckDue \/ CheckRecent \/ CopyLow \/ CopyHigh \/ SendStatus
GatewayTask == \E p \in Payloads : OnRx(p)

Next == GatewayTask \/ ClusterTask \/ AdvanceTick

Spec == Init /\ [][Next]_vars

-----------------------------------------------------------------------------
(* Properties. *)

TypeOK ==
    /\ tick \in Tick /\ uptime \in 0 .. MaxUptime
    /\ s_body_status \in Payloads \cup {NoPayload} /\ last_rx_tick \in Tick
    /\ valid \in BOOLEAN /\ (valid => s_body_status \in Payloads)
    /\ s_next_body_status_tick \in Tick
    /\ pc \in {"sleep", "due", "recent", "low", "high", "send"}
    /\ now \in Tick /\ data \in Words \X Words
    /\ bus \in Words \X Words /\ busy \in 0 .. MaxBusy
    /\ wake \in 0 .. MaxUptime + DELAY
    /\ rx_at \in 0 .. MaxUptime /\ sent_at \in 0 .. MaxUptime
    /\ wrong_since \in -1 .. MaxUptime

\* firmware/board_b_gateway/app/README.md:97: "500 ms after the last reception the
\* periodic retransmission stops".  No 0x390 frame is sent more than TIMEOUT after
\* the frame of Board D it repeats, plus the time ClusterTask's round takes, unless
\* Board D has been silent for a whole wrap of the tick.
NoStaleStatus == sent_at - rx_at < TICK_MOD => sent_at <= rx_at + TIMEOUT + MaxLag

\* How late ClusterTask can notice a deadline: a round that read its clock one tick
\* before it may end MaxLag later, and so may the next round after its osDelay.
Overdue == DELAY + 2 * MaxLag - 1

Patience == (busy + 1) * (PERIOD + Overdue)

\* The keep-alive may overtake a newer frame (ClusterTask copied the old payload,
\* GatewayTask stored and sent the new one, ClusterTask then sends the old) or
\* mix two payloads, but while Board D is alive the cluster has the newest payload
\* again within a period.
StatusErrorHeals == wrong_since # -1 => uptime - wrong_since <= Patience

=============================================================================
