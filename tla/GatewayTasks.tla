---------------------------- MODULE GatewayTasks ----------------------------
(***************************************************************************)
(* Board B, gateway_tasks.c, over the driver of CanBsp: the default task   *)
(* starts the controllers and lets the others go on, GatewayTask handles   *)
(* the queue's frames one by one, and ClusterTask sends its periodic ones. *)
(* What the bridges make of a frame is in their own modules; here a frame  *)
(* has an id, a number, and an rpm if it is EngineData.                    *)
(***************************************************************************)
EXTENDS CanBsp

CONSTANTS
    Rpms,          \* the rpm of the EngineData frames
    MaxFrames,     \* bound: how many frames both buses carry to the gateway
    MaxSends       \* bound: how many frames ClusterTask sends

ASSUME GatewayAssumption == Rpms \subseteq Nat /\ MaxFrames \in Nat /\ MaxSends \in Nat

VARIABLES
    boot,              \* StartDefaultTask: "can", "bridge", "ready", "done"
    s_gateway_ready, s_warning_active,
    s_diag,            \* the number of the ADAS status the safety bridge keeps, or 0
    pc, chosen, frame, tir,   \* ClusterTask inside CAN_BSP_SendTo
    sends,             \* how many frames ClusterTask has begun to send (bounded)
    \* History variables, read by the properties only.
    arrived,           \* per bus: how many frames have come (bounded)
    received,          \* per bus: the number of the last frame GatewayTask read
    danger,            \* whether the last telling rpm put into the queue was high
    accepted, left,    \* calls that returned HAL_OK; mailboxes the controller emptied
    on_bus, wrong,     \* frames seen on CAN2; how many of them nobody wanted sent
    clashed, clashes   \* GatewayTask took the mailbox of ClusterTask's call; such calls

flags   == <<boot, s_gateway_ready, s_warning_active, s_diag>>
cluster == <<pc, chosen, frame, tir, sends>>
inbound == <<arrived, received, danger>>
outcome == <<accepted, left, on_bus, wrong, clashed, clashes>>
vars    == <<can, flags, cluster, inbound, outcome>>

-----------------------------------------------------------------------------
(* StartDefaultTask. *)

StartCan ==
    /\ boot = "can" /\ CAN_BSP_Init
    /\ boot' = IF canInitStep' = 8 THEN "bridge" ELSE boot
    /\ UNCHANGED <<s_gateway_ready, s_warning_active, s_diag, cluster, inbound, outcome>>

\* GatewaySafetyBridge_Init forgets the status it has.
StartBridge ==
    /\ boot = "bridge"
    /\ s_diag' = 0 /\ boot' = "ready"
    /\ UNCHANGED <<can, s_gateway_ready, s_warning_active, cluster, inbound, outcome>>

StartTasks ==
    /\ boot = "ready"
    /\ s_gateway_ready' = TRUE /\ boot' = "done"
    /\ UNCHANGED <<can, s_warning_active, s_diag, cluster, inbound, outcome>>

-----------------------------------------------------------------------------
(* The buses and the receive interrupt. *)

Sources == ({1} \X {"ENGINE_DATA"} \X Rpms) \cup {<<1, "ADAS_STATUS", 0>>, <<2, "UDS_REQUEST", 0>>}

FrameOnBus(s) ==
    /\ arrived[1] + arrived[2] < MaxFrames
    /\ arrived' = [arrived EXCEPT ![s[1]] = @ + 1]
    /\ Arrive([bus |-> s[1], id |-> s[2], rpm |-> s[3], n |-> arrived'[s[1]]])
    /\ UNCHANGED <<flags, cluster, received, danger, outcome>>

Interrupt(b) ==
    /\ RxFifo0MsgPendingCallback(b)
    /\ LET f == Head(fifo[b]) IN
       danger' = IF Accepts /\ f.id = "ENGINE_DATA" /\ (f.rpm >= 5000 \/ f.rpm < 4500)
                 THEN f.rpm >= 5000 ELSE danger
    /\ UNCHANGED <<flags, cluster, arrived, received, outcome>>

-----------------------------------------------------------------------------
(* GatewayTask. *)

CanStarted == canInitStep = 8
Ready      == s_gateway_ready

\* The rpm warning with its hysteresis.
WarnWithoutHysteresis(rpm) == rpm >= 5000
Warn(rpm) == IF rpm >= 5000 THEN TRUE ELSE IF rpm < 4500 THEN FALSE ELSE s_warning_active

\* What the handlers send for a frame: the copy of EngineData, a warning if the
\* ADAS status calls for one, an answer to a request.
Outputs(f) ==
    CASE f.id = "ENGINE_DATA" -> {"ENGINE_DATA"}
      [] f.id = "ADAS_STATUS" -> {"none", "WARNING"}
      [] f.id = "UDS_REQUEST" -> {"UDS_RESPONSE"}

Filling == pc \in {"chosen", "id", "data", "loaded"}

Submit(f) ==
    /\ SendTo(f)
    /\ accepted' = IF HAL_OK THEN accepted + 1 ELSE accepted
    /\ clashed' = (clashed \/ (Filling /\ HAL_OK /\ FirstOf(Free) = chosen))
    /\ UNCHANGED <<left, on_bus, wrong, clashes>>

GatewayTask ==
    /\ Ready /\ can_rx_q # <<>>
    /\ LET f == Head(can_rx_q) IN
       /\ received' = [received EXCEPT ![f.bus] = f.n]
       /\ s_diag' = IF f.id = "ADAS_STATUS" THEN f.n ELSE s_diag
       /\ s_warning_active' = IF f.id = "ENGINE_DATA" THEN Warn(f.rpm) ELSE s_warning_active
       /\ \E id \in Outputs(f) :
             IF id = "none" THEN UNCHANGED <<mailbox, outcome>>
             ELSE Submit([by |-> "gateway", id |-> id, n |-> f.n])
    /\ can_rx_q' = Tail(can_rx_q)
    /\ UNCHANGED <<canInitStep, canInitErrorStep, fifo, boot, s_gateway_ready, cluster,
                   arrived, danger>>

-----------------------------------------------------------------------------
(* ClusterTask: CAN_BSP_SendTo, a step per access to the mailboxes. *)

\* Back from the call, with or without a frame handed over.
Return(ok) ==
    /\ pc' = "idle" /\ chosen' = 0 /\ frame' = NoFrame /\ tir' = "none"
    /\ accepted' = IF ok THEN accepted + 1 ELSE accepted
    /\ clashes' = IF clashed THEN clashes + 1 ELSE clashes
    /\ clashed' = FALSE
    /\ UNCHANGED <<sends, left, on_bus, wrong>>

Others == <<canInitStep, canInitErrorStep, fifo, can_rx_q, flags, inbound>>

\* HAL_CAN_GetTxMailboxesFreeLevel: HAL_BUSY when it is 0.
TestMailboxes(id) ==
    /\ Ready /\ pc = "idle" /\ sends < MaxSends
    /\ sends' = sends + 1
    /\ IF Free # {}
       THEN pc' = "tested" /\ frame' = [by |-> "cluster", id |-> id, n |-> sends']
       ELSE UNCHANGED <<pc, frame>>
    /\ UNCHANGED <<Others, mailbox, chosen, tir, outcome>>

\* HAL_CAN_AddTxMessage: HAL_ERROR when the last free mailbox has gone meanwhile.
ChooseMailbox ==
    /\ pc = "tested"
    /\ IF Free # {}
       THEN pc' = "chosen" /\ chosen' = FirstOf(Free) /\ UNCHANGED <<frame, tir, sends, outcome>>
       ELSE Return(FALSE)
    /\ UNCHANGED <<Others, mailbox>>

FillId ==
    /\ pc = "chosen"
    /\ mailbox' = WriteId(chosen, frame) /\ pc' = "id"
    /\ UNCHANGED <<Others, chosen, frame, tir, sends, outcome>>

FillData ==
    /\ pc = "id"
    /\ mailbox' = WriteData(chosen, frame) /\ pc' = "data"
    /\ UNCHANGED <<Others, chosen, frame, tir, sends, outcome>>

\* SET_BIT(TIR, TXRQ): the register with the id is read and written back.
LoadTir ==
    /\ pc = "data"
    /\ tir' = mailbox[chosen].id /\ pc' = "loaded"
    /\ UNCHANGED <<Others, mailbox, chosen, frame, sends, outcome>>

StoreTir ==
    /\ pc = "loaded"
    /\ mailbox' = Request(chosen, tir)
    /\ Return(TRUE)
    /\ UNCHANGED Others

ClusterTask ==
    \/ \E id \in {"MOTOR_1", "BODY_STATUS"} : TestMailboxes(id)
    \/ ChooseMailbox \/ FillId \/ FillData \/ LoadTir \/ StoreTir

-----------------------------------------------------------------------------
(* CAN2: the frame of mailbox m goes out, or is lost on the line. *)

Transmit(m) ==
    /\ Leave(m)
    /\ left' = left + 1
    /\ LET f == mailbox[m].data IN
       \/ /\ on_bus' = on_bus \cup {f}
          /\ wrong' = IF mailbox[m].id # f.id \/ f \in on_bus THEN wrong + 1 ELSE wrong
       \/ UNCHANGED <<on_bus, wrong>>
    /\ UNCHANGED <<flags, cluster, inbound, accepted, clashed, clashes>>

-----------------------------------------------------------------------------

Init ==
    /\ CanBspInit
    /\ boot = "can" /\ s_gateway_ready = FALSE /\ s_warning_active = FALSE /\ s_diag = 0
    /\ pc = "idle" /\ chosen = 0 /\ frame = NoFrame /\ tir = "none" /\ sends = 0
    /\ arrived = [b \in Buses |-> 0] /\ received = [b \in Buses |-> 0] /\ danger = FALSE
    /\ accepted = 0 /\ left = 0 /\ on_bus = {} /\ wrong = 0
    /\ clashed = FALSE /\ clashes = 0

StartDefaultTask == StartCan \/ StartBridge \/ StartTasks

Next ==
    \/ StartDefaultTask \/ GatewayTask \/ ClusterTask
    \/ \E s \in Sources : FrameOnBus(s)
    \/ \E b \in Buses : Interrupt(b)
    \/ \E m \in Mailbox : Transmit(m)

Spec == Init /\ [][Next]_vars

\* The interrupts are taken, and the tasks run: nothing has a higher priority than
\* GatewayTask, and defaultTask shares its priority with ClusterTask, which sleeps.
FairSpec ==
    /\ Spec
    /\ WF_vars(StartDefaultTask) /\ WF_vars(GatewayTask)
    /\ \A b \in Buses : WF_vars(Interrupt(b))

-----------------------------------------------------------------------------
(* Properties. *)

\* can_bsp.c:130: HAL_CAN_AddTxMessage is not reentrant, and GatewayTask may take the
\* mailbox ClusterTask has chosen.  That costs at most one frame per such call: one
\* is swallowed although HAL_OK was returned, or one goes out twice, or with the id
\* of one frame and the data of another.  Every other frame accepted leaves as it is.
ClashCostsOneFrame ==
    LET gone == left + Cardinality(Pending)
        open == IF clashed THEN 1 ELSE 0
    IN  /\ gone <= accepted
        /\ (accepted - gone) + wrong <= clashes + open

\* gateway_tasks.c:72-74: frames are queued before the safety bridge is initialised,
\* but handled after: no status is stored and then wiped by its memset.
StatusSurvivesStart == [][s_diag # 0 => s_diag' # 0]_vars

\* gateway_tasks.c:116-120 over can_bsp.c:184: whatever a burst or a failed start
\* drops, once the queue is empty s_warning_active is what the last EngineData frame
\* outside the hysteresis that the queue took calls for.
WarningFollows == <>[](s_gateway_ready => s_warning_active = danger)

\* The frames of each bus reach GatewayTask in the order of the bus and once.
Numbers(frames, b) == {frames[i].n : i \in {j \in DOMAIN frames : frames[j].bus = b}}

Channel(b) == Numbers(can_rx_q, b) \cup Numbers(fifo[b], b)

Bus1 == INSTANCE LossyFifo WITH
    CAPACITY <- RX_Q_SIZE + FIFO_DEPTH,
    sent <- arrived[1], chan <- Channel(1), received <- received[1]
Bus2 == INSTANCE LossyFifo WITH
    CAPACITY <- RX_Q_SIZE + FIFO_DEPTH,
    sent <- arrived[2], chan <- Channel(2), received <- received[2]

BusesInOrder == Bus1!Spec /\ Bus2!Spec

=============================================================================
