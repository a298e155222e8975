------------------------------- MODULE CanBsp -------------------------------
(***************************************************************************)
(* Board B's CAN driver, can_bsp.c, over the HAL and the bxCAN peripheral: *)
(* the start of both controllers, the receive FIFO of each, the interrupt  *)
(* that moves its frames to the queue the tasks share, and the transmit    *)
(* mailboxes of CAN2, which two tasks fill.                                *)
(*                                                                         *)
(* The interrupt and a call by GatewayTask, the task of the highest        *)
(* priority, are indivisible for ClusterTask.  ClusterTask's own call is   *)
(* split where GatewayTask may come in between: after the test for a free  *)
(* mailbox, after the mailbox is chosen, and between the registers.        *)
(***************************************************************************)
EXTENDS Naturals, FiniteSets, SequencesExt, FiniteSetsExt

CONSTANTS
    RX_Q_SIZE,     \* CAN_RX_Q_SIZE, 64
    FIFO_DEPTH,    \* frames a receive FIFO holds, 3
    MAILBOXES      \* transmit mailboxes, 3

ASSUME CanBspAssumption ==
    /\ RX_Q_SIZE \in Nat \ {0} /\ FIFO_DEPTH \in Nat \ {0} /\ MAILBOXES \in Nat \ {0}

Buses   == {1, 2}
Mailbox == 0..MAILBOXES - 1

VARIABLES
    canInitStep, canInitErrorStep,
    fifo,          \* per bus: the frames in the controller's receive FIFO 0
    can_rx_q,
    mailbox        \* CAN2's mailboxes: the registers and the request (TXRQ)

can == <<canInitStep, canInitErrorStep, fifo, can_rx_q, mailbox>>

NoFrame == [by |-> "nobody", id |-> "none", n |-> 0]

CanBspInit ==
    /\ canInitStep = 1 /\ canInitErrorStep = 0
    /\ fifo = [b \in Buses |-> <<>>] /\ can_rx_q = <<>>
    /\ mailbox = [m \in Mailbox |-> [pending |-> FALSE, id |-> "none", data |-> NoFrame]]

-----------------------------------------------------------------------------
(* CAN_BSP_Init: queue, then filter, start and interrupt of CAN1, then the    *)
(* same of CAN2.  Each call may fail and ends it.                             *)

CAN_BSP_Init ==
    /\ canInitStep < 8 /\ canInitErrorStep = 0
    /\ \/ canInitStep' = canInitStep + 1 /\ UNCHANGED canInitErrorStep
       \/ canInitErrorStep' = canInitStep /\ UNCHANGED canInitStep
    /\ UNCHANGED <<fifo, can_rx_q, mailbox>>

Started(b)  == canInitStep >= IF b = 1 THEN 4 ELSE 7
Notified(b) == canInitStep >= IF b = 1 THEN 5 ELSE 8

-----------------------------------------------------------------------------
(* Reception. *)

\* The controller: ReceiveFifoLocked is off, so a frame that finds the FIFO full
\* takes the place of the newest one in it.
Arrive(f) ==
    /\ Started(f.bus)
    /\ fifo' = [fifo EXCEPT ![f.bus] = IF Len(@) < FIFO_DEPTH THEN Append(@, f)
                                       ELSE Append(Front(@), f)]
    /\ UNCHANGED <<canInitStep, canInitErrorStep, can_rx_q, mailbox>>

\* HAL_CAN_RxFifo0MsgPendingCallback: one frame, dropped when the queue is full.
Accepts == Len(can_rx_q) < RX_Q_SIZE

CallbackKeepsFrame(b) ==
    /\ Notified(b) /\ fifo[b] # <<>>
    /\ can_rx_q' = IF Accepts THEN Append(can_rx_q, Head(fifo[b])) ELSE can_rx_q
    /\ fifo' = IF Accepts THEN fifo ELSE [fifo EXCEPT ![b] = Tail(@)]
    /\ UNCHANGED <<canInitStep, canInitErrorStep, mailbox>>

RxFifo0MsgPendingCallback(b) ==
    /\ Notified(b) /\ fifo[b] # <<>>
    /\ can_rx_q' = IF Accepts THEN Append(can_rx_q, Head(fifo[b])) ELSE can_rx_q
    /\ fifo' = [fifo EXCEPT ![b] = Tail(@)]
    /\ UNCHANGED <<canInitStep, canInitErrorStep, mailbox>>

-----------------------------------------------------------------------------
(* Transmission. *)

Pending == {m \in Mailbox : mailbox[m].pending}
Free    == Mailbox \ Pending

\* HAL_CAN_AddTxMessage takes the mailbox the controller names as the next free.
FirstOf(boxes) == Min(boxes)

\* The registers of a mailbox that waits for its transmission are write-protected.
WriteId(m, f) == IF mailbox[m].pending THEN mailbox ELSE [mailbox EXCEPT ![m].id = f.id]
WriteData(m, f) == IF mailbox[m].pending THEN mailbox ELSE [mailbox EXCEPT ![m].data = f]
Request(m, id) ==
    IF mailbox[m].pending THEN mailbox
    ELSE [mailbox EXCEPT ![m].id = id, ![m].pending = TRUE]

\* CAN_BSP_SendTo by GatewayTask, which no other task interrupts.
HAL_OK == Free # {}
SendToWithoutTest(f) ==
    mailbox' = [mailbox EXCEPT ![0] = [pending |-> TRUE, id |-> f.id, data |-> f]]

SendTo(f) ==
    mailbox' = IF HAL_OK
               THEN [mailbox EXCEPT ![FirstOf(Free)] = [pending |-> TRUE, id |-> f.id, data |-> f]]
               ELSE mailbox

\* The controller has sent the frame of mailbox m, or lost it: AutoRetransmission
\* is off.  Which mailbox is next depends on the identifiers and, since
\* TransmitFifoPriority is off, on the mailbox numbers, never on the age.
Leave(m) ==
    /\ mailbox[m].pending
    /\ mailbox' = [mailbox EXCEPT ![m].pending = FALSE]
    /\ UNCHANGED <<canInitStep, canInitErrorStep, fifo, can_rx_q>>

=============================================================================
