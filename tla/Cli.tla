--------------------------------- MODULE Cli ---------------------------------
(***************************************************************************)
(* The console of boards A, B, C and D, cli.c: the line being typed, the   *)
(* ring of the last lines, and the escape sequences of the arrow keys.     *)
(* cliMain handles one byte of the serial line per call.                   *)
(***************************************************************************)
EXTENDS Naturals, Sequences

CONSTANTS
    CLI_LINE_BUF_MAX,  \* 128, with the terminating zero
    CLI_HIST_MAX,      \* 10
    Printable          \* the characters 32..126

ASSUME CliAssumption ==
    /\ CLI_LINE_BUF_MAX \in Nat \ {0} /\ CLI_HIST_MAX \in Nat \ {0}
    /\ {"[", "A", "B"} \subseteq Printable
    /\ {"CR", "ESC", "BS", "ETX", "other"} \cap Printable = {}

\* "other" stands for all bytes that are ignored, the line feed among them.
Bytes == Printable \cup {"CR", "ESC", "BS", "ETX", "other"}

VARIABLES
    cli_line,          \* cli_line_buf up to cli_line_idx
    cli_history_buf, cli_hist_count, cli_hist_write, cli_hist_depth,
    input_st,
    screen,            \* what the terminal shows behind the last prompt
    ran                \* the line cliParseArgs and cliRunCommand were given last

ring == <<cli_history_buf, cli_hist_count, cli_hist_write>>
cli  == <<cli_line, ring, cli_hist_depth, input_st, screen, ran>>

Line == {l \in Seq(Printable) : Len(l) < CLI_LINE_BUF_MAX}

-----------------------------------------------------------------------------

\* The line's command runs; the prompt comes after it.
handleEnterkeyKeepsDepth ==
    /\ IF cli_line # <<>>
       THEN /\ cli_history_buf' = [cli_history_buf EXCEPT ![cli_hist_write] = cli_line]
            /\ cli_hist_write' = IF cli_hist_write + 1 = CLI_HIST_MAX THEN 0 ELSE cli_hist_write + 1
            /\ cli_hist_count' =
                  IF cli_hist_count < CLI_HIST_MAX THEN cli_hist_count + 1 ELSE cli_hist_count
            /\ ran' = cli_line
       ELSE UNCHANGED <<ring, ran>>
    /\ cli_line' = <<>> /\ screen' = <<>>
    /\ UNCHANGED <<cli_hist_depth, input_st>>

handleEnterkey ==
    /\ IF cli_line # <<>>
       THEN /\ cli_history_buf' = [cli_history_buf EXCEPT ![cli_hist_write] = cli_line]
            /\ cli_hist_write' = IF cli_hist_write + 1 = CLI_HIST_MAX THEN 0 ELSE cli_hist_write + 1
            /\ cli_hist_depth' = 0
            /\ cli_hist_count' =
                  IF cli_hist_count < CLI_HIST_MAX THEN cli_hist_count + 1 ELSE cli_hist_count
            /\ ran' = cli_line
       ELSE UNCHANGED <<ring, cli_hist_depth, ran>>
    /\ cli_line' = <<>> /\ screen' = <<>>
    /\ UNCHANGED input_st

\* "\b \b": the last n characters on the screen are rubbed out.
Rubbed(n) == SubSeq(screen, 1, Len(screen) - n)

handleBackspace ==
    /\ IF cli_line # <<>>
       THEN cli_line' = SubSeq(cli_line, 1, Len(cli_line) - 1) /\ screen' = Rubbed(1)
       ELSE UNCHANGED <<cli_line, screen>>
    /\ UNCHANGED <<ring, cli_hist_depth, input_st, ran>>

handleCharInsertUnchecked(rx_data) ==
    /\ cli_line' = Append(cli_line, rx_data) /\ screen' = Append(screen, rx_data)
    /\ UNCHANGED <<ring, cli_hist_depth, input_st, ran>>

handleCharInsert(rx_data) ==
    /\ IF Len(cli_line) < CLI_LINE_BUF_MAX - 1
       THEN cli_line' = Append(cli_line, rx_data) /\ screen' = Append(screen, rx_data)
       ELSE UNCHANGED <<cli_line, screen>>
    /\ UNCHANGED <<ring, cli_hist_depth, input_st, ran>>

\* (cli_hist_write + CLI_HIST_MAX - d) % CLI_HIST_MAX, for d in 1..CLI_HIST_MAX.
HistIndex(d) ==
    IF cli_hist_write >= d THEN cli_hist_write - d ELSE (cli_hist_write + CLI_HIST_MAX) - d

ShowWithoutRubbing(l) == cli_line' = l /\ screen' = screen \o l

\* The line typed so far gives way to l, on the screen as well.
Show(l) == cli_line' = l /\ screen' = Rubbed(Len(cli_line)) \o l

ArrowUp ==
    /\ IF cli_hist_depth < cli_hist_count
       THEN /\ cli_hist_depth' = cli_hist_depth + 1
            /\ Show(cli_history_buf[HistIndex(cli_hist_depth + 1)])
       ELSE UNCHANGED <<cli_hist_depth, cli_line, screen>>
    /\ UNCHANGED <<ring, ran>>

ArrowDown ==
    /\ IF cli_hist_depth > 0
       THEN /\ cli_hist_depth' = cli_hist_depth - 1
            /\ Show(IF cli_hist_depth = 1 THEN <<>>
                    ELSE cli_history_buf[HistIndex(cli_hist_depth - 1)])
       ELSE UNCHANGED <<cli_hist_depth, cli_line, screen>>
    /\ UNCHANGED <<ring, ran>>

handleArrowKeys(rx_data) ==
    /\ \/ rx_data = "A" /\ ArrowUp
       \/ rx_data = "B" /\ ArrowDown
       \/ rx_data \notin {"A", "B"} /\ UNCHANGED <<cli_line, ring, cli_hist_depth, screen, ran>>
    /\ input_st' = "NORMAL"

processAnsiEscape(rx_data) ==
    \/ /\ input_st = "ESC_RCVD"
       /\ input_st' = IF rx_data = "[" THEN "BRACKET_RCVD" ELSE "NORMAL"
       /\ UNCHANGED <<cli_line, ring, cli_hist_depth, screen, ran>>
    \/ input_st = "BRACKET_RCVD" /\ handleArrowKeys(rx_data)

\* The history is not left: the next arrow goes on from cli_hist_depth.
CtrlC ==
    /\ cli_line' = <<>> /\ screen' = <<>>
    /\ UNCHANGED <<ring, cli_hist_depth, input_st, ran>>

cliMain(rx_data) ==
    \/ input_st # "NORMAL" /\ processAnsiEscape(rx_data)
    \/ /\ input_st = "NORMAL"
       /\ \/ rx_data = "ETX" /\ CtrlC
          \/ /\ rx_data = "ESC" /\ input_st' = "ESC_RCVD"
             /\ UNCHANGED <<cli_line, ring, cli_hist_depth, screen, ran>>
          \/ rx_data = "CR" /\ handleEnterkey
          \/ rx_data = "BS" /\ handleBackspace
          \/ rx_data \in Printable /\ handleCharInsert(rx_data)
          \/ rx_data = "other" /\ UNCHANGED cli

CliInit ==
    /\ cli_line = <<>> /\ cli_history_buf = [i \in 0 .. CLI_HIST_MAX - 1 |-> <<>>]
    /\ cli_hist_count = 0 /\ cli_hist_write = 0 /\ cli_hist_depth = 0
    /\ input_st = "NORMAL" /\ screen = <<>> /\ ran = <<>>

-----------------------------------------------------------------------------
(* Properties. *)

CliTypeOK ==
    /\ cli_line \in Line /\ cli_history_buf \in [0 .. CLI_HIST_MAX - 1 -> Line]
    /\ cli_hist_count \in 0 .. CLI_HIST_MAX /\ cli_hist_write \in 0 .. CLI_HIST_MAX - 1
    /\ cli_hist_depth \in 0 .. cli_hist_count
    /\ input_st \in {"NORMAL", "ESC_RCVD", "BRACKET_RCVD"}
    /\ ran \in Line

\* cli.c:62-67, :76-77, :87-99: what Enter runs is what the terminal shows behind the
\* prompt, whatever was typed, rubbed out or called back before.
ScreenShowsLine == screen = cli_line

\* cli.c:44-50, :83-125: the ring of CLI_HIST_MAX lines behaves like the list of the last
\* lines, newest first, before and after it is full.
History == [i \in 1 .. cli_hist_count |-> cli_history_buf[HistIndex(i)]]

Editor == INSTANCE LineEditor WITH
    LINE_MAX <- CLI_LINE_BUF_MAX - 1, HIST_MAX <- CLI_HIST_MAX,
    line <- cli_line, history <- History, depth <- cli_hist_depth

=============================================================================
