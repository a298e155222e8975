---------------------------- MODULE EngineBench ----------------------------
(***************************************************************************)
(* Board A and what is at the other end of its serial line: a terminal     *)
(* that gives any command, or the desktop program's EngineController       *)
(* (src/tools/can_cluster_gui/controllers), whose sliders start a debounce *)
(* timer, and whose view follows the board's monitor lines and the lines   *)
(* with which the board answers its commands.                              *)
(***************************************************************************)
EXTENDS EngineSim, Sequences

CONSTANTS
    PedalsAtStart, \* by peer: what the two channels of the ADC may read at power-on
    Percents,      \* by peer: the values of the sliders and of the commands' arguments
    MaxEvents,     \* bound by peer: how many commands and clicks
    PressEvents,   \* bound by peer: for how many of these a move of the pedals counts
    MaxLines       \* bound: a monitor line goes out with fewer lines than this on the way

Peers == {"terminal", "gui"}

ASSUME BenchAssumption ==
    /\ Percents \in [Peers -> SUBSET Percent]
    /\ PedalsAtStart \in [Peers -> SUBSET (Readings \X Readings)]
    /\ MaxEvents \in [Peers -> Nat] /\ PressEvents \in [Peers -> Nat] /\ MaxLines \in Nat

VARIABLES
    peer,                              \* "terminal" or "gui", throughout
    m_mode, m_throttle, m_brake,       \* EngineController
    m_pedalDebounce,                   \* the timer is running
    status_shots,                      \* single shots running, each to ask for the status
    to_board, to_gui,                  \* the lines on the way
    events,                            \* how many so far (bounded)
    \* History variables, read by the properties only.
    wish,          \* the pedals the user asked for last, or <<>>
    overtaken      \* a line of the board has moved the sliders while the timer ran

view   == <<m_mode, m_throttle, m_brake>>
timers == <<m_pedalDebounce, status_shots>>
gui    == <<view, timers, wish, overtaken>>
lines  == <<to_board, to_gui>>
vars   == <<sim, peer, gui, lines, events>>

CommandSet ==
    LET P == Percents[peer] IN
    [name : {"pedal"}, throttle : P, brake : P]
        \cup [name : {"throttle"}, throttle : P] \cup [name : {"brake"}, brake : P]
        \cup [name : {"mode"}, mode : {"adc", "uart"}] \cup [name : {"stop", "sim_reset", "status"}]

-----------------------------------------------------------------------------
(* The board's environment. *)

Event(n) == events + n <= MaxEvents[peer] /\ events' = events + n

Terminal ==
    /\ peer = "terminal" /\ Event(1)
    /\ \E c \in CommandSet : Command(c)
    /\ UNCHANGED <<peer, gui, lines>>

Driver ==
    /\ Event(PressEvents[peer])
    /\ \E t \in Readings, b \in Readings :
          /\ <<t, b>> # <<throttle_adc, brake_adc>>
          /\ Press(t, b)
    /\ UNCHANGED <<peer, gui, lines>>

\* What a command prints, as far as the desktop program's parser knows it: each line
\* gives the value of one key.
Replies(c) ==
    CASE c.name = "pedal"    -> << [mode |-> "uart"], [throttle |-> c.throttle], [brake |-> c.brake] >>
      [] c.name = "throttle" -> << [mode |-> "uart"], [throttle |-> c.throttle] >>
      [] c.name = "brake"    -> << [mode |-> "uart"], [brake |-> c.brake] >>
      [] c.name = "mode"     -> << [mode |-> c.mode] >>
      [] c.name = "status"   -> << [mode |-> mode], [throttle |-> throttle], [brake |-> brake] >>
      [] OTHER               -> << >>

\* cliMain runs the next line of the desktop program.
Execute ==
    /\ to_board # <<>>
    /\ Command(Head(to_board))
    /\ to_board' = Tail(to_board) /\ to_gui' = to_gui \o Replies(Head(to_board))
    /\ UNCHANGED <<peer, gui, events>>

\* CliCmd_Process: EngineSim_GetStatus goes out as one monitor line.
Monitor ==
    /\ peer = "gui" /\ Len(to_gui) < MaxLines
    /\ to_gui' = Append(to_gui, [mode |-> mode, throttle |-> throttle, brake |-> brake])
    /\ UNCHANGED <<sim, peer, gui, to_board, events>>

-----------------------------------------------------------------------------
(* EngineController, with live update on and the port connected.               *)

Click == peer = "gui" /\ Event(1)

Untouched == <<sim, peer, to_gui>>

sendCommand(c) == to_board' = Append(to_board, c)

SetSliders(t, b) ==
    /\ Click
    /\ m_throttle' = t /\ m_brake' = b /\ m_pedalDebounce' = TRUE
    /\ wish' = <<t, b>> /\ overtaken' = FALSE
    /\ UNCHANGED <<Untouched, m_mode, status_shots, to_board>>

setThrottle(t) == SetSliders(t, m_brake)
setBrake(b)    == SetSliders(m_throttle, b)

applyPedalWithoutBrake ==
    /\ sendCommand([name |-> "pedal", throttle |-> m_throttle, brake |-> 0])
    /\ m_mode' = "uart"

\* The sliders as they are by now.
applyPedal ==
    /\ sendCommand([name |-> "pedal", throttle |-> m_throttle, brake |-> m_brake])
    /\ m_mode' = "uart"

\* The timer's slot.
Timeout ==
    /\ m_pedalDebounce /\ m_pedalDebounce' = FALSE
    /\ applyPedal
    /\ UNCHANGED <<Untouched, m_throttle, m_brake, status_shots, events, wish, overtaken>>

\* The button calls the same slot and leaves the timer running, and so does stop().
ApplyPedalButton ==
    /\ Click
    /\ applyPedal
    /\ wish' = <<m_throttle, m_brake>> /\ overtaken' = FALSE
    /\ UNCHANGED <<Untouched, m_throttle, m_brake, timers>>

stop ==
    /\ Click
    /\ m_throttle' = 0 /\ m_brake' = 0
    /\ sendCommand([name |-> "stop"])
    /\ wish' = <<0, 0>> /\ overtaken' = FALSE
    /\ UNCHANGED <<Untouched, m_mode, timers>>

setMode(m) ==
    /\ Click
    /\ sendCommand([name |-> "mode", mode |-> m])
    /\ m_mode' = m /\ wish' = <<>> /\ overtaken' = FALSE
    /\ UNCHANGED <<Untouched, m_throttle, m_brake, timers>>

resetSimulation ==
    /\ Click
    /\ sendCommand([name |-> "sim_reset"])
    /\ status_shots' = status_shots + 1
    /\ wish' = <<>> /\ overtaken' = FALSE
    /\ UNCHANGED <<Untouched, view, m_pedalDebounce>>

\* The field in which the user types a command (bound: not after another event, nor
\* before one).
commandField(c) ==
    /\ peer = "gui" /\ Event(MaxEvents[peer])
    /\ sendCommand(c)
    /\ wish' = <<>> /\ overtaken' = FALSE
    /\ UNCHANGED <<Untouched, view, timers>>

\* The single shot of resetSimulation.
SingleShot ==
    /\ status_shots > 0 /\ status_shots' = status_shots - 1
    /\ sendCommand([name |-> "status"])
    /\ UNCHANGED <<Untouched, view, m_pedalDebounce, events, wish, overtaken>>

ValueOf(line, key, old) == IF key \in DOMAIN line THEN line[key] ELSE old

applyValuesButBrake(line) ==
    /\ m_mode' = ValueOf(line, "mode", m_mode)
    /\ m_throttle' = ValueOf(line, "throttle", m_throttle)
    /\ m_brake' = m_brake

applyValues(line) ==
    /\ m_mode' = ValueOf(line, "mode", m_mode)
    /\ m_throttle' = ValueOf(line, "throttle", m_throttle)
    /\ m_brake' = ValueOf(line, "brake", m_brake)

\* A monitor line has all the keys, any other line one at most.
processLine ==
    /\ to_gui # <<>>
    /\ applyValues(Head(to_gui))
    /\ overtaken' = (overtaken \/ (m_pedalDebounce /\ wish # <<>>
                                     /\ <<m_throttle, m_brake>>' # <<m_throttle, m_brake>>))
    /\ to_gui' = Tail(to_gui)
    /\ UNCHANGED <<sim, peer, timers, wish, to_board, events>>

User ==
    \/ \E p \in Percents[peer] : setThrottle(p) \/ setBrake(p)
    \/ ApplyPedalButton \/ stop \/ (\E m \in {"adc", "uart"} : setMode(m)) \/ resetSimulation
    \/ \E c \in CommandSet : commandField(c)

EngineController == User \/ Timeout \/ SingleShot \/ processLine

-----------------------------------------------------------------------------

BoardTask == EngSimTask /\ UNCHANGED <<peer, gui, lines, events>>

Init ==
    /\ EngineSim_Init
    /\ peer \in Peers /\ <<throttle_adc, brake_adc>> \in PedalsAtStart[peer]
    /\ m_mode = "adc" /\ m_throttle = 0 /\ m_brake = 0
    /\ m_pedalDebounce = FALSE /\ status_shots = 0
    /\ to_board = <<>> /\ to_gui = <<>>
    /\ events = 0
    /\ wish = <<>> /\ overtaken = FALSE

Next == BoardTask \/ Terminal \/ Driver \/ Execute \/ Monitor \/ EngineController

Spec == Init /\ [][Next]_vars

\* Both tasks of Board A run for ever, the monitor is on, and the program handles its
\* timers and its lines.  Nobody has to give a command or to move a pedal.
FairSpec ==
    /\ Spec
    /\ WF_vars(BoardTask) /\ WF_vars(Execute) /\ WF_vars(Monitor)
    /\ WF_vars(Timeout) /\ WF_vars(SingleShot) /\ WF_vars(processLine)

-----------------------------------------------------------------------------
(* Properties. *)

\* firmware/board_a_engine/README.md:143: a change of the sliders is sent as a pedal
\* command.  It becomes the last command of the board, and so do the button's and stop's,
\* unless a line of the board, monitor or reply, moved the sliders while the timer ran;
\* and the board keeps those pedals unless the command came in the middle of a poll.
WishReached ==
    <>[](wish # <<>> /\ ~overtaken =>
            /\ mode = "uart" /\ asked = wish
            /\ ask_hit \/ <<throttle, brake>> = wish)

\* EngineController.cpp:205: the program shows in the end what the board has, whatever
\* stale monitor lines and replies it has applied on the way.
ViewFollows == <>[](peer = "gui" => m_throttle = throttle /\ m_brake = brake /\ m_mode = mode)

=============================================================================
