-------------------------------- MODULE Bcm --------------------------------
(***************************************************************************)
(* Board D, the body control module: bcm_input.c, bcm_cli.c and the status *)
(* frames (0x390) of bcm_main.c.                                           *)
(*                                                                         *)
(* Two tasks of the same priority, time-sliced by the kernel, share        *)
(* s_state and s_mode without a lock.  The input task polls the pins every *)
(* 20 ms in the mode "gpio": it copies s_state, changes the copy and       *)
(* writes it back.  The body task runs the commands of the serial console, *)
(* which set the mode and change s_state in the same three steps, and      *)
(* sends the status every 100 ms.  Time is left out: a poll, a command or a *)
(* status may come at any moment.  A copy of the eight flags is one step.  *)
(***************************************************************************)
EXTENDS Naturals, Sequences

CONSTANTS
    Doors, Lamps,    \* the inputs that follow a switch: four doors, high beam, fog
    Buttons,         \* the turn signal buttons, which toggle
    Commands,        \* what the user types, a subset of AllCommands
    SAMPLES          \* BCM_BUTTON_DEBOUNCE_SAMPLES

Switches == Doors \cup Lamps
Fields == Switches \cup Buttons

\* BcmInput_State_t: one flag for every field.
Input == [Fields -> BOOLEAN]
AllOff == [f \in Fields |-> FALSE]

Modes == {"gpio", "uart"}
Overrides == {"auto", "on", "off"}

-----------------------------------------------------------------------------
(* The commands: the mode they set, the writes to s_state one after the other *)
(* (each gives some of the fields a value), and the ignition override.  A     *)
(* wrong selector is found after the mode has been set (bcm_cli.c:218), so    *)
(* such a command acts like "body mode uart".  The monitor only prints.       *)

Set(F, v) == [f \in F |-> v]

Does(mode, writes, override) == [mode |-> mode, writes |-> writes, override |-> override]
NoCommand == Does("keep", <<>>, "keep")

handle_mode == {Does(m, <<>>, "keep") : m \in Modes}
handle_ign  == {Does("keep", <<>>, o) : o \in Overrides}

Sets(F, v) == Does("uart", <<Set(F, v)>>, "keep")

handle_door == {Sets(F, v) : F \in {{d} : d \in Doors} \cup {Doors}, v \in BOOLEAN}

handle_lamp_field == {Sets({l}, v) : l \in Lamps, v \in BOOLEAN}

\* "both" writes the one, then the other.
SetsBoth(b, v) == Does("uart", <<Set({b}, v), Set(Buttons \ {b}, v)>>, "keep")

handle_turn ==
    {Sets({b}, v) : b \in Buttons, v \in BOOLEAN}
    \cup {SetsBoth(b, v) : b \in Buttons \cap {"turn_left"}, v \in BOOLEAN}

handle_all ==
    {Does("uart", <<AllOff>>, "keep")}
    \cup {Sets(F, v) : F \in {Doors, Lamps \cup Buttons}, v \in BOOLEAN}

handle_reset == {Does("gpio", <<AllOff>>, "auto")}

AllCommands ==
    handle_mode \cup handle_ign \cup handle_door \cup handle_lamp_field
    \cup handle_turn \cup handle_all \cup handle_reset

ASSUME BcmAssumption ==
    /\ Doors \cap Lamps = {} /\ Switches \cap Buttons = {}
    /\ Commands \subseteq AllCommands
    /\ SAMPLES \in Nat \ {0}

VARIABLES
    s_state, s_mode, s_ign_override,
    button,             \* per button: BcmButton_Debounce_t
    pins,               \* the switches and buttons themselves, TRUE is active
    ign_on,             \* what BCM_Can_IsIgnOn returns
    pc_poll, polled,    \* the input task inside BCM_Input_Poll, and its copy
    pc_cli, cmd, copy,  \* the body task inside a command, and its copy
    frame,              \* the last status frame
    \* History variables, read by the properties only.
    samples,            \* per button: the last SAMPLES readings, oldest first
    armed,              \* per button: released, by SAMPLES + 1 readings, since it toggled
    settled             \* per field: the values it may have, one after a write in the
                        \* mode "uart" that no poll was in the way of

input == <<pc_poll, polled, button, samples, armed>>
cli   == <<pc_cli, cmd, copy>>
world == <<pins, ign_on>>
bcm   == <<s_state, s_mode, s_ign_override, input, cli, world, frame, settled>>

-----------------------------------------------------------------------------
(* The input task: BCM_Input_Poll. *)

DebouncedWithoutLimit(b, raw) ==
    LET count == IF raw # b.raw_active THEN 0 ELSE b.same_count + 1
    IN  [raw_active |-> raw, same_count |-> count,
         stable_active |-> IF count >= SAMPLES THEN raw ELSE b.stable_active]

DebouncedOnce(b, raw) ==
    [raw_active |-> raw, same_count |-> b.same_count, stable_active |-> raw]

\* debounce_pressed: a reading counts once it has been repeated SAMPLES times.
Debounced(b, raw) ==
    LET count == IF raw # b.raw_active THEN 0
                 ELSE IF b.same_count < SAMPLES THEN b.same_count + 1 ELSE b.same_count
    IN  [raw_active |-> raw, same_count |-> count,
         stable_active |-> IF count >= SAMPLES THEN raw ELSE b.stable_active]

Pressed(b, raw) == Debounced(b, raw).stable_active /\ ~b.stable_active

PollBeginAlways ==
    /\ pc_poll = "wait"
    /\ pc_poll' = "read"
    /\ UNCHANGED <<s_state, s_mode, s_ign_override, polled, button, samples, armed, cli, world,
                   frame, settled>>

\* The mode is looked at once, before the copy is made.
PollBegin ==
    /\ pc_poll = "wait" /\ s_mode = "gpio"
    /\ pc_poll' = "read"
    /\ UNCHANGED <<s_state, s_mode, s_ign_override, polled, button, samples, armed, cli, world,
                   frame, settled>>

PollCopy ==
    /\ pc_poll = "read"
    /\ polled' = s_state
    /\ pc_poll' = "pins"
    /\ UNCHANGED <<s_state, s_mode, s_ign_override, button, samples, armed, cli, world, frame,
                   settled>>

PollPins ==
    /\ pc_poll = "pins"
    /\ polled' = [f \in Fields |->
                     IF f \in Switches THEN pins[f]
                     ELSE IF Pressed(button[f], pins[f]) THEN ~polled[f] ELSE polled[f]]
    /\ button' = [b \in Buttons |-> Debounced(button[b], pins[b])]
    /\ samples' = [b \in Buttons |-> Append(Tail(samples[b]), pins[b])]
    /\ armed' = [b \in Buttons |->
                    IF Pressed(button[b], pins[b]) THEN FALSE
                    ELSE armed[b] \/ \A s \in {pins[b]} \cup {samples[b][i] : i \in 1 .. SAMPLES} : ~s]
    /\ pc_poll' = "write"
    /\ UNCHANGED <<s_state, s_mode, s_ign_override, cli, world, frame, settled>>

PollWriteDropped ==
    /\ pc_poll = "write"
    /\ polled' = AllOff
    /\ pc_poll' = "wait"
    /\ UNCHANGED <<s_state, s_mode, s_ign_override, button, samples, armed, cli, world, frame,
                   settled>>

\* The copy is written back, whatever a command has made of s_state or of the
\* mode in the meantime.  (A copy that is no longer used is AllOff.)
PollWrite ==
    /\ pc_poll = "write"
    /\ s_state' = polled
    /\ polled' = AllOff
    /\ pc_poll' = "wait"
    /\ UNCHANGED <<s_mode, s_ign_override, button, samples, armed, cli, world, frame, settled>>

-----------------------------------------------------------------------------
(* The body task: a command of the console (cmd_body). *)

Type(c) ==
    /\ pc_cli = "idle"
    /\ cmd' = c
    /\ pc_cli' = "mode"
    /\ UNCHANGED <<s_state, s_mode, s_ign_override, input, copy, world, frame, settled>>

\* The command's next write, or its end.
Continue(writes) ==
    IF writes = <<>> THEN pc_cli' = "idle" /\ cmd' = NoCommand
                     ELSE pc_cli' = "read" /\ cmd' = [cmd EXCEPT !.writes = writes]

\* BCM_Input_SetMode.  The override is the body task's own, so it does not matter
\* that a reset sets it last.
SetMode ==
    /\ pc_cli = "mode"
    /\ s_mode' = IF cmd.mode = "keep" THEN s_mode ELSE cmd.mode
    /\ s_ign_override' = IF cmd.override = "keep" THEN s_ign_override ELSE cmd.override
    /\ settled' = IF cmd.mode = "gpio" THEN [f \in Fields |-> BOOLEAN] ELSE settled
    /\ Continue(cmd.writes)
    /\ UNCHANGED <<s_state, input, copy, world, frame>>

\* BCM_Input_SetField and its like: a copy, changed and written back.
ReadState ==
    /\ pc_cli = "read"
    /\ copy' = s_state
    /\ pc_cli' = "write"
    /\ UNCHANGED <<s_state, s_mode, s_ign_override, input, cmd, world, frame, settled>>

WriteState ==
    /\ pc_cli = "write"
    /\ LET w == Head(cmd.writes)
       IN  /\ s_state' = [f \in Fields |-> IF f \in DOMAIN w THEN w[f] ELSE copy[f]]
           /\ settled' = IF s_mode = "uart" /\ pc_poll = "wait"
                         THEN [f \in Fields |-> IF f \in DOMAIN w THEN {w[f]} ELSE settled[f]]
                         ELSE settled
    /\ copy' = AllOff
    /\ Continue(Tail(cmd.writes))
    /\ UNCHANGED <<s_mode, s_ign_override, input, world, frame>>

-----------------------------------------------------------------------------
(* The body task: the status frame of BCM_Body_Task. *)

\* BCM_Signal_BuildBodyStatus: all doors share a contact, a turn signal is lit in
\* every other half second.
BodyStatus(s, blink_on) ==
    [TUERKONT |-> \E d \in Doors : s[d],
     lamps    |-> {l \in Lamps : s[l]},
     BLINKER  |-> {b \in Buttons : s[b] /\ blink_on}]

should_transmit ==
    \/ s_ign_override = "on"
    \/ s_ign_override = "auto" /\ ign_on

SendBodyStatus ==
    /\ pc_cli = "idle" /\ should_transmit
    /\ \E blink_on \in BOOLEAN : frame' = BodyStatus(s_state, blink_on)
    /\ UNCHANGED <<s_state, s_mode, s_ign_override, input, cli, world, settled>>

-----------------------------------------------------------------------------

\* The driver moves a switch or a button; the ignition is switched, or times out.
MovePin(f) ==
    /\ pins' = [pins EXCEPT ![f] = ~@]
    /\ UNCHANGED <<s_state, s_mode, s_ign_override, input, cli, ign_on, frame, settled>>

Ignition ==
    /\ ign_on' = ~ign_on
    /\ UNCHANGED <<s_state, s_mode, s_ign_override, input, cli, pins, frame, settled>>

Bcm_Init ==
    /\ s_state = AllOff /\ s_mode = "gpio" /\ s_ign_override = "auto"
    /\ button = [b \in Buttons |->
                    [raw_active |-> FALSE, same_count |-> 0, stable_active |-> FALSE]]
    /\ pins \in [Fields -> BOOLEAN] /\ ign_on = FALSE
    /\ pc_poll = "wait" /\ polled = AllOff
    /\ pc_cli = "idle" /\ cmd = NoCommand /\ copy = AllOff
    /\ frame = BodyStatus(AllOff, FALSE)
    /\ samples = [b \in Buttons |-> [i \in 1 .. SAMPLES |-> FALSE]]
    /\ armed = [b \in Buttons |-> TRUE]
    /\ settled = [f \in Fields |-> BOOLEAN]

InputTask == PollBegin \/ PollCopy \/ PollPins \/ PollWrite
Command   == SetMode \/ ReadState \/ WriteState
Driver    == (\E c \in Commands : Type(c)) \/ (\E f \in Fields : MovePin(f)) \/ Ignition

Bcm_Next == InputTask \/ Command \/ SendBodyStatus \/ Driver

Bcm_Spec == Bcm_Init /\ [][Bcm_Next]_bcm

\* Both tasks are woken by osDelay again and again and share the processor; nobody
\* need type a command or move a pin.
Bcm_FairSpec == Bcm_Spec /\ WF_bcm(InputTask) /\ WF_bcm(Command) /\ WF_bcm(SendBodyStatus)

-----------------------------------------------------------------------------
(* Properties. *)

BcmTypeOK ==
    /\ s_state \in Input /\ s_mode \in Modes /\ s_ign_override \in Overrides
    /\ button \in [Buttons -> [raw_active : BOOLEAN, same_count : 0 .. SAMPLES,
                               stable_active : BOOLEAN]]
    /\ pins \in Input /\ ign_on \in BOOLEAN
    /\ pc_poll \in {"wait", "read", "pins", "write"} /\ polled \in Input
    /\ pc_cli \in {"idle", "mode", "read", "write"} /\ copy \in Input
    /\ (pc_cli \in {"read", "write"} <=> cmd.writes # <<>> /\ pc_cli # "mode")
    /\ samples \in [Buttons -> [1 .. SAMPLES -> BOOLEAN]] /\ armed \in [Buttons -> BOOLEAN]
    /\ settled \in [Fields -> SUBSET BOOLEAN]

\* A turn signal is toggled by a poll only when the button has been read active
\* SAMPLES + 1 times in a row, and once per press: since it last toggled, the button
\* has been read inactive as often (debounce_pressed), through all switches
\* between the modes.
OneTogglePerPress ==
    [][\A b \in Buttons :
         (pc_poll = "pins" /\ pc_poll' = "write" /\ polled'[b] # polled[b])
         => armed[b] /\ pins[b] /\ \A i \in 1 .. SAMPLES : samples[b][i]]_bcm

\* firmware/board_d_body/README.md:79: in the mode "uart" the values of the commands
\* make the status.  A value written while no poll was under way stays until the
\* next command for that field or the end of the mode.  (When a poll has begun
\* before the mode changed it may write back what it read, and the command is lost.)
UartValueHolds == \A f \in Fields : s_state[f] \in settled[f]

\* In the mode "gpio", when the doors are left alone and the user types nothing, the
\* frames show the doors' switches in the end, whatever commands and half done
\* polls there were before.
DoorsShown ==
    \A open \in BOOLEAN :
        <>[](/\ s_mode = "gpio" /\ pc_cli = "idle" /\ should_transmit
             /\ (\E d \in Doors : pins[d]) = open)
        => <>[](frame.TUERKONT = open)

=============================================================================
