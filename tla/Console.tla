------------------------------- MODULE Console -------------------------------
(***************************************************************************)
(* The console with its serial line: USART3, its interrupt handler (HAL    *)
(* and uart.c), the queue of received bytes and defaultTask, which calls   *)
(* cliMain.  While a command runs, nobody takes bytes out of the queue.    *)
(***************************************************************************)
EXTENDS Cli

CONSTANT UART_RX_BUF_LENGTH   \* 256

ASSUME ConsoleAssumption == UART_RX_BUF_LENGTH \in Nat \ {0}

NoByte == "none"

VARIABLES
    DR,              \* the data register: a byte that is not read yet (RXNE), or NoByte
    ORE,             \* the overrun flag
    RxState,         \* "BUSY_RX": a byte is awaited and the interrupt enabled; "READY"
    isrflags,        \* the flags the running interrupt handler has read, or NotRunning
    uart_rx_q,
    running,         \* cliRunCommand is in a command
    \* History variable, read by the properties only.
    late_overrun     \* a byte was overrun after the handler had read the flags

NotRunning == [RXNE |-> FALSE, ORE |-> FALSE]

hardware == <<DR, ORE>>
uart     == <<RxState, isrflags, uart_rx_q>>
vars     == <<cli, hardware, uart, running, late_overrun>>

-----------------------------------------------------------------------------
(* USART3.                                                                     *)

\* A byte that comes before the last one was read is lost and sets the overrun flag.
Arrive ==
    /\ IF DR = NoByte
       THEN (\E b \in Bytes : DR' = b) /\ UNCHANGED <<ORE, late_overrun>>
       ELSE /\ ORE' = TRUE /\ UNCHANGED DR
            /\ late_overrun' = (late_overrun \/ (isrflags.RXNE /\ ~isrflags.ORE))
    /\ UNCHANGED <<cli, uart, running>>

-----------------------------------------------------------------------------
(* HAL_UART_IRQHandler.                                                        *)

\* The interrupt is enabled while a byte is awaited; the status register is read.
ReadFlags ==
    /\ isrflags = NotRunning /\ RxState = "BUSY_RX" /\ (DR # NoByte \/ ORE)
    /\ isrflags' = [RXNE |-> DR # NoByte, ORE |-> ORE]
    /\ UNCHANGED <<cli, hardware, RxState, uart_rx_q, running, late_overrun>>

RxCpltCallbackWithoutRestart ==
    /\ uart_rx_q' = IF Len(uart_rx_q) < UART_RX_BUF_LENGTH THEN Append(uart_rx_q, DR)
                    ELSE uart_rx_q
    /\ RxState' = "READY"

\* HAL_UART_RxCpltCallback: a byte for which the queue has no room is dropped.  The
\* reception starts again, which also clears huart->ErrorCode.
RxCpltCallback ==
    /\ uart_rx_q' = IF Len(uart_rx_q) < UART_RX_BUF_LENGTH THEN Append(uart_rx_q, DR)
                    ELSE uart_rx_q
    /\ RxState' = "BUSY_RX"

\* UART_Receive_IT.  Reading the data register clears the overrun flag only if the
\* flags were read with it.  The error of an overrun is forgotten by the restart.
ReceiveByte ==
    /\ isrflags.RXNE
    /\ DR' = NoByte /\ ORE' = (ORE /\ ~isrflags.ORE)
    /\ RxCpltCallback
    /\ isrflags' = NotRunning
    /\ UNCHANGED <<cli, running, late_overrun>>

\* UART_EndRxTransfer: nobody starts the reception again.
EndRxTransfer ==
    /\ isrflags.ORE /\ ~isrflags.RXNE
    /\ RxState' = "READY" /\ isrflags' = NotRunning
    /\ UNCHANGED <<cli, hardware, uart_rx_q, running, late_overrun>>

-----------------------------------------------------------------------------
(* defaultTask. *)

HandleByte ==
    /\ ~running /\ uart_rx_q # <<>>
    /\ cliMain(Head(uart_rx_q))
    /\ running' = (input_st = "NORMAL" /\ Head(uart_rx_q) = "CR" /\ cli_line # <<>>)
    /\ uart_rx_q' = Tail(uart_rx_q)
    /\ UNCHANGED <<hardware, RxState, isrflags, late_overrun>>

CommandEnds ==
    /\ running /\ running' = FALSE
    /\ UNCHANGED <<cli, hardware, uart, late_overrun>>

-----------------------------------------------------------------------------

\* uartInit has started the reception and cliInit has run.
Init ==
    /\ CliInit
    /\ DR = NoByte /\ ORE = FALSE /\ RxState = "BUSY_RX" /\ isrflags = NotRunning
    /\ uart_rx_q = <<>> /\ running = FALSE /\ late_overrun = FALSE

Next ==
    \/ Arrive \/ ReadFlags \/ ReceiveByte \/ EndRxTransfer
    \/ HandleByte \/ CommandEnds

Spec == Init /\ [][Next]_vars

-----------------------------------------------------------------------------
(* Properties. *)

TypeOK ==
    /\ CliTypeOK
    /\ DR \in Bytes \cup {NoByte} /\ ORE \in BOOLEAN
    /\ RxState \in {"BUSY_RX", "READY"} /\ isrflags \in [RXNE : BOOLEAN, ORE : BOOLEAN]
    /\ uart_rx_q \in Seq(Bytes) /\ Len(uart_rx_q) <= UART_RX_BUF_LENGTH
    /\ running \in BOOLEAN /\ late_overrun \in BOOLEAN

\* uart.c:32-39: the console goes deaf only when a byte is overrun while the handler of
\* the one before it runs; a full queue or an earlier overrun costs bytes, no more.
DeafByLateOverrunOnly == RxState = "READY" => late_overrun

\* The console is a LineEditor.
EditorSpec == Editor!Spec

=============================================================================
