--------------------------- MODULE Console_proofs ---------------------------
(***************************************************************************)
(* Theorems about the console (Console), for every size of its buffers and *)
(* every set of characters.                                                *)
(***************************************************************************)
EXTENDS Console, SequenceTheorems, TLAPS

-----------------------------------------------------------------------------
(* Lines and the ring. *)

LEMMA EmptyLine == <<>> \in Line
  BY CliAssumption DEF Line

LEMMA AppendLine ==
    ASSUME NEW l \in Line, NEW c \in Printable, Len(l) < CLI_LINE_BUF_MAX - 1
    PROVE  Append(l, c) \in Line
  BY CliAssumption DEF Line

LEMMA ShorterLine ==
    ASSUME NEW l \in Line, l # <<>>
    PROVE  SubSeq(l, 1, Len(l) - 1) \in Line
  BY CliAssumption DEF Line

\* Rubbing a whole line out and printing another leaves the other.
LEMMA RubbedOut ==
    ASSUME NEW l \in Line, NEW m \in Line
    PROVE  SubSeq(l, 1, Len(l) - Len(l)) \o m = m
  <1>1. l \in Seq(Printable) /\ m \in Seq(Printable) /\ Len(l) - Len(l) = 0
    BY DEF Line
  <1>2. SubSeq(l, 1, Len(l) - Len(l)) = <<>>
    BY <1>1
  <1> QED
    BY <1>1, <1>2

LEMMA HistIndexType ==
    ASSUME CliTypeOK, NEW d \in 1 .. CLI_HIST_MAX
    PROVE  HistIndex(d) \in 0 .. CLI_HIST_MAX - 1
  BY CliAssumption DEF CliTypeOK, HistIndex

LEMMA LengthOfHistory ==
    ASSUME CliTypeOK
    PROVE  Len(History) = cli_hist_count
  <1>1. cli_hist_count \in Nat
    BY CliAssumption DEF CliTypeOK
  <1> QED
    BY <1>1 DEF History

LEMMA HistoryAt ==
    ASSUME CliTypeOK, NEW i \in 1 .. cli_hist_count
    PROVE  /\ i \in 1 .. CLI_HIST_MAX
           /\ History[i] = cli_history_buf[HistIndex(i)] /\ History[i] \in Line
  <1>1. i \in 1 .. CLI_HIST_MAX
    BY CliAssumption DEF CliTypeOK
  <1> QED
    BY <1>1, HistIndexType DEF History, CliTypeOK

-----------------------------------------------------------------------------
(* The invariant of the editor: types, and what the screen shows. *)

CliInv == CliTypeOK /\ ScreenShowsLine

LEMMA CliInvInit == CliInit => CliInv
  BY EmptyLine, CliAssumption DEF CliInit, CliInv, CliTypeOK, ScreenShowsLine

LEMMA EnterkeyInv ==
    ASSUME CliInv, handleEnterkey
    PROVE  CliInv'
  <1> USE DEF CliInv, CliTypeOK, ScreenShowsLine
  <1>1. cli_line' \in Line /\ screen' = cli_line'
    BY EmptyLine DEF handleEnterkey
  <1>2. CASE cli_line = <<>>
    BY <1>1, <1>2 DEF handleEnterkey, ring
  <1>3. CASE cli_line # <<>>
    <2>1. cli_history_buf' \in [0 .. CLI_HIST_MAX - 1 -> Line] /\ ran' \in Line
      BY <1>3 DEF handleEnterkey
    <2>2. /\ cli_hist_count' \in 0 .. CLI_HIST_MAX
          /\ cli_hist_write' \in 0 .. CLI_HIST_MAX - 1
          /\ cli_hist_depth' \in 0 .. cli_hist_count'
      BY <1>3, CliAssumption DEF handleEnterkey
    <2> QED
      BY <1>1, <2>1, <2>2 DEF handleEnterkey
  <1> QED
    BY <1>2, <1>3

LEMMA ShowInv ==
    ASSUME CliInv, NEW l \in Line, Show(l)
    PROVE  cli_line' = l /\ screen' = cli_line'
  BY RubbedOut DEF CliInv, CliTypeOK, ScreenShowsLine, Show, Rubbed

LEMMA ArrowUpInv ==
    ASSUME CliInv, ArrowUp, input_st' = "NORMAL"
    PROVE  CliInv'
  <1> USE DEF CliInv, CliTypeOK
  <1>1. CASE cli_hist_depth < cli_hist_count
    <2>1. cli_hist_depth + 1 \in 1 .. cli_hist_count
      BY <1>1, CliAssumption
    <2>2. cli_history_buf[HistIndex(cli_hist_depth + 1)] \in Line
      BY <2>1, HistoryAt
    <2>3. cli_line' \in Line /\ screen' = cli_line'
      BY <1>1, <2>2, ShowInv DEF ArrowUp
    <2> QED
      BY <1>1, <2>1, <2>3 DEF ArrowUp, ring, ScreenShowsLine
  <1>2. CASE ~(cli_hist_depth < cli_hist_count)
    BY <1>2 DEF ArrowUp, ring, ScreenShowsLine
  <1> QED
    BY <1>1, <1>2

LEMMA ArrowDownInv ==
    ASSUME CliInv, ArrowDown, input_st' = "NORMAL"
    PROVE  CliInv'
  <1> USE DEF CliInv, CliTypeOK
  <1>1. CASE cli_hist_depth > 0
    <2> DEFINE l == IF cli_hist_depth = 1 THEN <<>>
                    ELSE cli_history_buf[HistIndex(cli_hist_depth - 1)]
    <2>1. cli_hist_depth - 1 \in 0 .. cli_hist_count
      BY <1>1, CliAssumption
    <2>2. ASSUME cli_hist_depth # 1 PROVE l \in Line
      <3>1. cli_hist_depth - 1 \in 1 .. cli_hist_count
        BY <1>1, <2>2, CliAssumption
      <3> QED
        BY <2>2, <3>1, HistoryAt
    <2>3. l \in Line
      BY <2>2, EmptyLine
    <2>4. Show(l)
      BY <1>1 DEF ArrowDown
    <2> HIDE DEF l
    <2>5. cli_line' \in Line /\ screen' = cli_line'
      BY <2>3, <2>4, ShowInv
    <2> QED
      BY <1>1, <2>1, <2>5 DEF ArrowDown, ring, ScreenShowsLine
  <1>2. CASE ~(cli_hist_depth > 0)
    BY <1>2 DEF ArrowDown, ring, ScreenShowsLine
  <1> QED
    BY <1>1, <1>2

LEMMA CliInvStep ==
    ASSUME CliInv, NEW b \in Bytes, cliMain(b)
    PROVE  CliInv'
  <1> USE DEF CliInv, CliTypeOK, ScreenShowsLine
  <1>1. ASSUME input_st # "NORMAL", processAnsiEscape(b)
        PROVE  CliInv'
    <2>1. CASE input_st = "ESC_RCVD" /\ input_st' \in {"NORMAL", "BRACKET_RCVD"}
               /\ UNCHANGED <<cli_line, ring, cli_hist_depth, screen, ran>>
      BY <2>1 DEF ring
    <2>2. CASE handleArrowKeys(b)
      <3>1. CASE ArrowUp
        BY <2>2, <3>1, ArrowUpInv DEF handleArrowKeys
      <3>2. CASE ArrowDown
        BY <2>2, <3>2, ArrowDownInv DEF handleArrowKeys
      <3>3. CASE UNCHANGED <<cli_line, ring, cli_hist_depth, screen, ran>>
        BY <2>2, <3>3 DEF handleArrowKeys, ring
      <3> QED
        BY <2>2, <3>1, <3>2, <3>3 DEF handleArrowKeys
    <2> QED
      BY <1>1, <2>1, <2>2 DEF processAnsiEscape
  <1>2. CASE handleEnterkey
    BY <1>2, EnterkeyInv
  <1>3. CASE handleBackspace
    <2>1. CASE cli_line # <<>>
      <3>1. cli_line' \in Line /\ screen' = cli_line'
        BY <1>3, <2>1, ShorterLine DEF handleBackspace, Rubbed
      <3> QED
        BY <1>3, <3>1 DEF handleBackspace, ring
    <2>2. CASE cli_line = <<>>
      BY <1>3, <2>2 DEF handleBackspace, ring
    <2> QED
      BY <2>1, <2>2
  <1>4. ASSUME b \in Printable, handleCharInsert(b)
        PROVE  CliInv'
    <2>1. CASE Len(cli_line) < CLI_LINE_BUF_MAX - 1
      <3>1. cli_line' \in Line /\ screen' = cli_line'
        BY <1>4, <2>1, AppendLine DEF handleCharInsert
      <3> QED
        BY <1>4, <3>1 DEF handleCharInsert, ring
    <2>2. CASE ~(Len(cli_line) < CLI_LINE_BUF_MAX - 1)
      BY <1>4, <2>2 DEF handleCharInsert, ring
    <2> QED
      BY <2>1, <2>2
  <1>5. CASE CtrlC
    BY <1>5, EmptyLine DEF CtrlC, ring
  <1>6. CASE input_st' = "ESC_RCVD" /\ UNCHANGED <<cli_line, ring, cli_hist_depth, screen, ran>>
    BY <1>6 DEF ring
  <1>7. CASE UNCHANGED cli
    BY <1>7 DEF cli, ring
  <1> QED
    BY <1>1, <1>2, <1>3, <1>4, <1>5, <1>6, <1>7 DEF cliMain

-----------------------------------------------------------------------------
(* The invariant of the console. *)

\* What makes DeafByLateOverrunOnly inductive.  A byte the running handler has seen is
\* still there.  An overrun flag that stands alone, or that the handler of a byte has
\* not seen, was set by a late overrun; so was one the handler sees without a byte.
HandlerInv ==
    /\ isrflags.RXNE => DR # NoByte
    /\ ORE /\ (DR = NoByte \/ (isrflags.RXNE /\ ~isrflags.ORE)) => late_overrun
    /\ isrflags.ORE /\ ~isrflags.RXNE => late_overrun

IInv == CliInv /\ TypeOK /\ DeafByLateOverrunOnly /\ HandlerInv

LEMMA IInvInit == Init => IInv
  <1> SUFFICES ASSUME Init PROVE IInv
    OBVIOUS
  <1>1. CliInv
    BY CliInvInit DEF Init
  <1>2. isrflags \in [RXNE : BOOLEAN, ORE : BOOLEAN] /\ ~isrflags.RXNE /\ ~isrflags.ORE
    BY DEF Init, NotRunning
  <1>3. uart_rx_q \in Seq(Bytes) /\ Len(uart_rx_q) <= UART_RX_BUF_LENGTH
    BY ConsoleAssumption DEF Init
  <1>4. HandlerInv /\ DeafByLateOverrunOnly
    BY <1>2 DEF Init, HandlerInv, DeafByLateOverrunOnly
  <1>5. TypeOK
    BY <1>1, <1>2, <1>3 DEF Init, CliInv, TypeOK
  <1> QED
    BY <1>1, <1>4, <1>5 DEF IInv

LEMMA CliUnchanged ==
    ASSUME CliInv, UNCHANGED cli
    PROVE  CliInv'
  BY DEF CliInv, CliTypeOK, ScreenShowsLine, cli, ring

LEMMA IInvStep ==
    ASSUME IInv, [Next]_vars
    PROVE  IInv'
  <1> USE DEF IInv, TypeOK, DeafByLateOverrunOnly, HandlerInv
  <1>1. CASE Arrive
    <2>1. CliInv'
      BY <1>1, CliUnchanged DEF Arrive
    <2>2. DR' \in Bytes \cup {NoByte} /\ ORE' \in BOOLEAN /\ late_overrun' \in BOOLEAN
      BY <1>1 DEF Arrive
    <2>3. HandlerInv' /\ DeafByLateOverrunOnly'
      BY <1>1 DEF Arrive, uart
    <2> QED
      BY <1>1, <2>1, <2>2, <2>3 DEF Arrive, uart, CliInv
  <1>2. CASE ReadFlags
    <2>1. CliInv'
      BY <1>2, CliUnchanged DEF ReadFlags
    <2>2. /\ isrflags' \in [RXNE : BOOLEAN, ORE : BOOLEAN]
          /\ isrflags'.RXNE <=> DR # NoByte
          /\ isrflags'.ORE = ORE
      BY <1>2 DEF ReadFlags
    <2>3. HandlerInv' /\ DeafByLateOverrunOnly'
      BY <1>2, <2>2 DEF ReadFlags, hardware
    <2> QED
      BY <1>2, <2>1, <2>2, <2>3 DEF ReadFlags, hardware, CliInv
  <1>3. CASE ReceiveByte
    <2>1. CliInv'
      BY <1>3, CliUnchanged DEF ReceiveByte
    <2>2. DR \in Bytes
      BY <1>3 DEF ReceiveByte
    <2>3. uart_rx_q' \in Seq(Bytes) /\ Len(uart_rx_q') <= UART_RX_BUF_LENGTH
      BY <1>3, <2>2, ConsoleAssumption DEF ReceiveByte, RxCpltCallback
    <2>4. isrflags' = [RXNE |-> FALSE, ORE |-> FALSE]
      BY <1>3 DEF ReceiveByte, NotRunning
    <2>5. HandlerInv' /\ DeafByLateOverrunOnly'
      BY <1>3, <2>4 DEF ReceiveByte, RxCpltCallback
    <2> QED
      BY <1>3, <2>1, <2>3, <2>4, <2>5 DEF ReceiveByte, RxCpltCallback, CliInv
  <1>4. CASE EndRxTransfer
    <2>1. CliInv'
      BY <1>4, CliUnchanged DEF EndRxTransfer
    <2>2. isrflags' = [RXNE |-> FALSE, ORE |-> FALSE]
      BY <1>4 DEF EndRxTransfer, NotRunning
    <2> QED
      BY <1>4, <2>1, <2>2 DEF EndRxTransfer, hardware, CliInv
  <1>5. CASE HandleByte
    <2>1. Head(uart_rx_q) \in Bytes
      BY <1>5 DEF HandleByte
    <2>2. CliInv'
      BY <1>5, <2>1, CliInvStep DEF HandleByte
    <2>3. uart_rx_q' \in Seq(Bytes) /\ Len(uart_rx_q') <= UART_RX_BUF_LENGTH
      BY <1>5, ConsoleAssumption DEF HandleByte
    <2> QED
      BY <1>5, <2>2, <2>3 DEF HandleByte, hardware, CliInv
  <1>6. CASE CommandEnds
    BY <1>6, CliUnchanged DEF CommandEnds, hardware, uart, CliInv
  <1>7. CASE UNCHANGED vars
    BY <1>7, CliUnchanged DEF vars, hardware, uart, CliInv
  <1> QED
    BY <1>1, <1>2, <1>3, <1>4, <1>5, <1>6, <1>7 DEF Next

LEMMA Invariance == Spec => []IInv
  BY IInvInit, IInvStep, PTL DEF Spec

\* The buffers of the console and its interrupt handler keep their types: the line never
\* reaches the last place of cli_line_buf, the arrows never leave the entered lines.
THEOREM TypeCorrect == Spec => []TypeOK
  <1>1. IInv => TypeOK
    BY DEF IInv
  <1> QED
    BY <1>1, Invariance, PTL

\* What Enter runs is what the terminal shows (cli.c).
THEOREM ScreenCorrect == Spec => []ScreenShowsLine
  <1>1. IInv => ScreenShowsLine
    BY DEF IInv, CliInv
  <1> QED
    BY <1>1, Invariance, PTL

\* The reception ends only after an overrun while the handler runs (uart.c).
THEOREM ListensOtherwise == Spec => []DeafByLateOverrunOnly
  <1>1. IInv => DeafByLateOverrunOnly
    BY DEF IInv
  <1> QED
    BY <1>1, Invariance, PTL

-----------------------------------------------------------------------------
(* The console implements the line editor.                                     *)

\* The entered line comes before the ones that could be called back.
LEMMA EnterkeyRuns ==
    ASSUME CliInv, handleEnterkey, cli_line # <<>>
    PROVE  Editor!Run
  <1> USE DEF CliInv, CliTypeOK
  <1> DEFINE count == Editor!Shorter(Len(History) + 1, CLI_HIST_MAX)
             older(i) == IF i = 1 THEN cli_line ELSE History[i - 1]
  <1>1. /\ ran' = cli_line /\ cli_line' = <<>> /\ cli_hist_depth' = 0
        /\ cli_history_buf' = [cli_history_buf EXCEPT ![cli_hist_write] = cli_line]
        /\ cli_hist_write' =
              IF cli_hist_write + 1 = CLI_HIST_MAX THEN 0 ELSE cli_hist_write + 1
        /\ cli_hist_count' =
              IF cli_hist_count < CLI_HIST_MAX THEN cli_hist_count + 1 ELSE cli_hist_count
    BY DEF handleEnterkey
  <1>2. cli_hist_count' = count /\ count \in 1 .. cli_hist_count + 1 /\ count <= CLI_HIST_MAX
    BY <1>1, LengthOfHistory, CliAssumption DEF Editor!Shorter
  <1>3. ASSUME NEW i \in 1 .. count
        PROVE  cli_history_buf'[HistIndex(i)'] = older(i)
    <2>1. CASE i = 1
      <3>1. HistIndex(i)' = cli_hist_write
        BY <1>1, <2>1, CliAssumption DEF HistIndex
      <3> QED
        BY <1>1, <2>1, <3>1
    <2>2. CASE i # 1
      <3>1. i - 1 \in 1 .. cli_hist_count /\ i <= CLI_HIST_MAX /\ i >= 2
        BY <1>2, <1>3, <2>2, CliAssumption
      <3>2. HistIndex(i)' = HistIndex(i - 1)
        BY <1>1, <3>1, CliAssumption DEF HistIndex
      <3>3. HistIndex(i - 1) # cli_hist_write /\ HistIndex(i - 1) \in 0 .. CLI_HIST_MAX - 1
        BY <3>1, CliAssumption DEF HistIndex
      <3>4. History[i - 1] = cli_history_buf[HistIndex(i - 1)]
        BY <3>1, HistoryAt
      <3> QED
        BY <1>1, <2>2, <3>2, <3>3, <3>4
    <2> QED
      BY <2>1, <2>2
  <1>4. History' = [i \in 1 .. count |-> cli_history_buf'[HistIndex(i)']]
    BY <1>2 DEF History
  <1>5. History' = [i \in 1 .. count |-> older(i)]
    BY <1>3, <1>4
  <1> QED
    BY <1>1, <1>5 DEF Editor!Run

LEMMA RingUnchanged ==
    ASSUME UNCHANGED ring
    PROVE  History' = History
  BY DEF ring, History, HistIndex

LEMMA ArrowUpOlder ==
    ASSUME CliInv, ArrowUp
    PROVE  [Editor!Next]_(Editor!vars)
  <1>1. History' = History
    BY RingUnchanged DEF ArrowUp
  <1>2. CASE cli_hist_depth < cli_hist_count
    <2>1. cli_hist_depth + 1 \in 1 .. cli_hist_count
      BY <1>2, CliAssumption DEF CliInv, CliTypeOK
    <2>2. cli_line' = History[cli_hist_depth + 1]
      BY <1>2, <2>1, HistoryAt DEF CliInv, ArrowUp, Show
    <2>3. cli_hist_depth < Len(History)
      BY <1>2, LengthOfHistory DEF CliInv
    <2> QED
      BY <1>1, <1>2, <2>2, <2>3 DEF ArrowUp, Editor!Older, Editor!Next
  <1>3. CASE ~(cli_hist_depth < cli_hist_count)
    BY <1>1, <1>3 DEF ArrowUp, Editor!vars
  <1> QED
    BY <1>2, <1>3

LEMMA ArrowDownNewer ==
    ASSUME CliInv, ArrowDown
    PROVE  [Editor!Next]_(Editor!vars)
  <1>1. History' = History
    BY RingUnchanged DEF ArrowDown
  <1>2. CASE cli_hist_depth > 0
    <2>1. ASSUME cli_hist_depth # 1
          PROVE  cli_history_buf[HistIndex(cli_hist_depth - 1)] = History[cli_hist_depth - 1]
      <3>1. cli_hist_depth - 1 \in 1 .. cli_hist_count
        BY <1>2, <2>1, CliAssumption DEF CliInv, CliTypeOK
      <3> QED
        BY <3>1, HistoryAt DEF CliInv
    <2>2. cli_line' = IF cli_hist_depth = 1 THEN <<>> ELSE History[cli_hist_depth - 1]
      BY <1>2, <2>1 DEF ArrowDown, Show
    <2> QED
      BY <1>1, <1>2, <2>2 DEF ArrowDown, Editor!Newer, Editor!Next
  <1>3. CASE ~(cli_hist_depth > 0)
    BY <1>1, <1>3 DEF ArrowDown, Editor!vars
  <1> QED
    BY <1>2, <1>3

LEMMA CliMainRefines ==
    ASSUME CliInv, NEW b \in Bytes, cliMain(b)
    PROVE  [Editor!Next]_(Editor!vars)
  <1> USE DEF Editor!Next, Editor!vars
  <1>1. CASE UNCHANGED <<cli_line, ring, cli_hist_depth, screen, ran>>
    BY <1>1, RingUnchanged
  <1>2. CASE ArrowUp
    BY <1>2, ArrowUpOlder
  <1>3. CASE ArrowDown
    BY <1>3, ArrowDownNewer
  <1>4. CASE CtrlC
    BY <1>4, RingUnchanged DEF CtrlC, Editor!Cancel
  <1>5. CASE handleEnterkey
    <2>1. CASE cli_line # <<>>
      BY <1>5, <2>1, EnterkeyRuns
    <2>2. CASE cli_line = <<>>
      BY <1>5, <2>2, RingUnchanged DEF handleEnterkey
    <2> QED
      BY <2>1, <2>2
  <1>6. CASE handleBackspace
    <2>1. CASE cli_line # <<>>
      BY <1>6, <2>1, RingUnchanged DEF handleBackspace, Editor!Erase
    <2>2. CASE cli_line = <<>>
      BY <1>6, <2>2, RingUnchanged DEF handleBackspace
    <2> QED
      BY <2>1, <2>2
  <1>7. ASSUME b \in Printable, handleCharInsert(b)
        PROVE  [Editor!Next]_(Editor!vars)
    <2>1. CASE Len(cli_line) < CLI_LINE_BUF_MAX - 1
      BY <1>7, <2>1, RingUnchanged DEF handleCharInsert, Editor!Insert
    <2>2. CASE ~(Len(cli_line) < CLI_LINE_BUF_MAX - 1)
      BY <1>7, <2>2, RingUnchanged DEF handleCharInsert
    <2> QED
      BY <2>1, <2>2
  <1>8. CASE UNCHANGED cli
    BY <1>8, RingUnchanged DEF cli
  <1>9. ASSUME processAnsiEscape(b)
        PROVE  [Editor!Next]_(Editor!vars)
    BY <1>1, <1>2, <1>3, <1>9 DEF processAnsiEscape, handleArrowKeys
  <1> QED
    BY <1>1, <1>4, <1>5, <1>6, <1>7, <1>8, <1>9 DEF cliMain

\* The console, with its ring and its escape sequences, and with the bytes its serial line
\* loses, behaves like an editor with a list of the last lines.
THEOREM ImplementsEditor == Spec => EditorSpec
  <1>1. Init => Editor!Init
    <2> SUFFICES ASSUME Init PROVE Editor!Init
      OBVIOUS
    <2>1. cli_hist_count = 0
      BY DEF Init, CliInit
    <2>2. History = <<>>
      BY <2>1 DEF History
    <2> QED
      BY <2>2 DEF Init, CliInit, Editor!Init
  <1>2. IInv /\ [Next]_vars => [Editor!Next]_(Editor!vars)
    <2> SUFFICES ASSUME IInv, [Next]_vars PROVE [Editor!Next]_(Editor!vars)
      OBVIOUS
    <2>1. CASE UNCHANGED cli
      BY <2>1, RingUnchanged DEF cli, Editor!vars
    <2>2. CASE HandleByte
      <3>1. Head(uart_rx_q) \in Bytes
        BY <2>2 DEF HandleByte, IInv, TypeOK
      <3> QED
        BY <2>2, <3>1, CliMainRefines DEF HandleByte, IInv
    <2> QED
      BY <2>1, <2>2
      DEF Next, Arrive, ReadFlags, ReceiveByte, EndRxTransfer, CommandEnds, vars
  <1> QED
    BY <1>1, <1>2, Invariance, PTL DEF Spec, EditorSpec, Editor!Spec

=============================================================================
