# A TLA+ verification of can-gateway-uds

The repository holds the firmware of five STM32F407 boards (FreeRTOS, C) that
share two CAN buses, and desktop programs that talk to the boards over serial
lines. Board B, the gateway, translates what the other boards say on the
powertrain bus (CAN1) for a Golf 6 instrument cluster on the diagnostic bus
(CAN2) and is a UDS server there; Board C is a UDS client. The modules in this
directory model the parts in which timing, preemption and lost frames decide
what the cluster shows and what a diagnostic command reports.

```
  CAN1  A engine ──0x100──┐            ┌──0x280 rpm, 0x1A0 speed──┐
        D body  ──0x390──┤  B gateway  ├──0x390 body status───────┤ Golf 6 cluster
        E ADAS  ──0x3A0──┘  (UDS srv)  └──0x480 warning lamps─────┘   (UDS server)
                              │ 0x714 requests / 0x77E responses       │
  CAN2                        └──────────────── C UDS client ──────────┘
```

## Inventory

### Gateway bridges (Board B, `app/gateway_*_bridge.c`)

State: one static structure per source (the last payload or its values, the tick
of reception), one deadline per periodic frame, the alive counters, and in the
ADAS bridge the latched DTC bits. Operations: `OnRx`, called by GatewayTask
(priority AboveNormal) for every frame of CAN1; `Task10ms`, called by
ClusterTask (Normal) every 10 ms plus its run time; `ClearDtc`, called by the
UDS server in GatewayTask. There is no lock between the two tasks.
GatewayTask's handlers are atomic for ClusterTask; ClusterTask can be preempted
between any two of its reads and writes.

What is hard: the clock ClusterTask reads once per round is older than a frame
that arrives in the round; a check and the use of what was checked are apart; both
tasks write the same deadline and the same alive counter; a full set of mailboxes
drops a frame silently; the tick wraps; 0 means "never scheduled" and is also a
tick. What makes the bridges correct: nothing is sent on data older than the
timeout; while data are fresh there is no gap longer than a period; what a race
makes wrong on the cluster is right again within a period; a fault stays latched
until it is cleared.

### Gateway UDS server (Board B, `gateway_uds_server.c`)

Stateless but for the DTCs of the ADAS bridge: a read of a DID is answered with a
single frame, the clear request erases the DTCs, anything else gets a negative
response. It answers *every* frame of the request id, flow control for another
node included.

### Gateway tasks (Board B, `gateway_tasks.c`)

State: `s_gateway_ready`, `s_warning_active`, the raw copy of 0x100. The default task
starts the CAN controllers, then initialises the ADAS bridge, then sets
`s_gateway_ready`, for which the others poll. GatewayTask reads the driver's queue and
calls the bridges and the server; ClusterTask calls the three `Task10ms` with one
`osDelay(10)`; LoggerTask prints. What is hard: reception runs before the bridge is
initialised; GatewayTask and ClusterTask use the driver without a lock. What makes it
correct: no status is stored before it may be, the rpm warning follows the
frames that get through, and two tasks that send at once spoil as little as possible.

### CAN driver layer (`can_bsp.c`, a copy per board)

State: the receive FIFO and the mailboxes of each controller, a queue of 64 frames,
the step the start has reached. The receive interrupt puts frames into the queue and
drops them when it is full; a full FIFO overwrites its newest frame. `CAN_BSP_SendTo`
tests for a free mailbox and then calls `HAL_CAN_AddTxMessage`, which chooses one,
fills its registers and sets the request; it returns HAL_BUSY when none is free.
Automatic retransmission is off, so a frame can be lost on the line too. Correct means
for the receive side: the frames of each bus in their order and once, though not all.

### UDS client (Board C, `uds_client.c`, `ap_main.c`, `cli_cmd.c`)

State: `UDS_ClientContext_t` (the ISO-TP reassembly, `response_complete`, the
target ids). Operations: `UDS_Client_OnCanRx` for each received frame; the
console commands `read`, `clear dtc`, `cl_read`, `cl_target`. A command loops:
reset the context, send the request, read the queue until a response is complete,
a key is pressed, or 3 s are over, and then begin again. What is hard: frames of
an old response that come during a new one, lost flow control (there is no N_Cr
timeout), sequence numbers, a response that is matched to no request. What makes
it correct: a decoded payload is one response with all bytes in place, nothing is
written behind the buffer, a command ends, and what it reports has happened.

### Body control (Board D, `bcm_*.c`)

State: `s_state` (eight flags: doors, lamps, turn signals), `s_mode` (`gpio` or
`uart`), the debounce state of two buttons, the ignition override, the last
ignition frame. The input task polls the pins every 20 ms, the body task of the
same priority runs the console's commands and sends 0x390 every 100 ms, the third
task receives the ignition. What is hard: poll and command both copy, change and
write back `s_state` with no lock, and the poll looks at the mode only once.
What makes it correct: a press toggles once, a commanded value stays, the frames
show the switches.

### ADAS (Board E, `adas_*.c`)

State: the sampled inputs, the speed heard from Board A with its tick, three
deadlines. One task takes one frame from the receive queue per 5 ms round, polls the
inputs every 20 ms and sends 0x3A0 every 100 ms; `evaluate_status` turns two
distances, three buttons and the speed into flags and a risk level. What is hard:
the age of the speed is counted from the round that takes the frame, so a full
queue hides part of it; a failed conversion reads as the largest distance; several
rules hold at once.

### Engine simulator (Board A, `engine_sim.c`, `cli_cmd.c`)

State: mode (`adc` or `uart`), pedals, speed, rpm, coolant, the low-pass of the two ADC
channels. EngSimTask (priority Low) polls the pedals, steps the model and sends 0x100
every 50 ms; the commands run in defaultTask (Normal) and write the same structure with
no lock. What is hard: a command in the middle of a poll or of a physics step; an
integer low-pass that stops short of its input; a speed model with steps of different
size. What makes it correct: what a command sets stays, speed and rpm agree, the speed
settles, both ends of the pedals are reached.

### Console (`src/common/cli.c`, `uart.c`, boards A to D)

State: the line, a ring of ten old lines with its write position, count and depth, the
state of the escape sequence; in `uart.c` a queue of 256 bytes and the HAL's reception
of one byte, which its own callback starts again. What is hard: arrows before and after
the ring is full; bytes that come while a command runs or while the interrupt handler
is at work. What makes it correct: Enter runs what the screen shows, and old lines come
back newest first; a lost byte does not end the reception.

### Desktop programs and signal packing

`EngineController` (the GUI for Board A) keeps sliders and a mode, starts a debounce
timer when a slider moves, and takes values from the board's monitor lines and from what
the board prints in answer to a command. What is hard: user and lines both write the
sliders. The other controllers and the older GUIs match text for display.
`signal_db.h` and `protocol_ids.h` pack signals. CubeMX code, the HAL, FreeRTOS and the
DBC files are not the project's own.

`PROJECT.json` lists each part with its files and its status, and under "hazards"
what a test of this code would hardly reach, at its line.

## Modules

| Module | Models | Composes |
|---|---|---|
| `Ticks` | the wrapping kernel tick and the unsigned arithmetic on it | |
| `SafetyBridge` | `gateway_safety_bridge.c`: 0x3A0 to 0x480, DTCs | `Ticks` |
| `EngineBridge` | `gateway_engine_bridge.c`: 0x100 to 0x280 and 0x1A0 | `Ticks` |
| `BodyBridge` | `gateway_body_bridge.c`: 0x390 forwarded and kept alive | `Ticks` |
| `CanBsp` | `can_bsp.c` of Board B over the HAL and the controller | |
| `LossyFifo` | abstract: what the receive side promises for one bus | |
| `GatewayTasks` | `gateway_tasks.c`: start, GatewayTask, ClusterTask's sending | `CanBsp`; refines `LossyFifo` |
| `IsoTp` | `UDS_Client_OnCanRx` as operators on the receive context | |
| `IsoTpFrames` | the frames of a conforming sender | `IsoTp` |
| `IsoTpLink` | the receiver, a line that loses frames, the cluster | `IsoTpFrames` |
| `UdsSystem` | client commands, gateway server, cluster on one bus | `IsoTpFrames` |
| `Bcm` | Board D: `bcm_input.c`, `bcm_cli.c`, the status of `bcm_main.c` | |
| `Adas` | Board E: `adas_main.c`, `adas_can.c`, `adas_input.c` | `Ticks` |
| `EngineSim` | Board A: `engine_sim.c` and the commands that change it | |
| `EngineBench` | Board A with a terminal or with `EngineController` | `EngineSim` |
| `Cli` | `cli.c`: line, history, escape sequences | refines `LineEditor` |
| `LineEditor` | abstract: an editor with a bounded list of old lines | |
| `Console` | `Cli` behind `uart.c`, the HAL's interrupt handler and the UART | `Cli` |
| `*_proofs` | theorems; `Body_proofs` has those about `BodyBridge` and `Bcm`, `EngineAndAdas_proofs` those about `EngineBench` and `Adas` | |
| `MC*` | the instances TLC checks | |

### The three bridges

`tick` is `osKernelGetTickCount()`; the other variables have the source's names.
`OnRx` and `ClearDtc` are one action each: no task of the model can see them half
done. `Task10ms` is one action per access to shared state, with `pc` for the
place it has reached: `ReadNow` (the one read of the clock), `CheckDue` (the
deadline, with its special value 0), the recency check, the reads that build the
frame, and the transmission with the write of the next deadline. In
`SafetyBridge` the lamp bit (`BuildActive`), the other bits (`BuildBits`) and the
store of the incremented alive counter (`StoreAlive`) are separate; in
`BodyBridge` the copy of the eight bytes is two words (`CopyLow`, `CopyHigh`); in
`EngineBridge` the ignition bit, the age and the value are three reads, for each
of the two frames of a round. `SendTo` either sends or drops (`busy`). `bus` is
what the cluster has seen last, in the order the frames were handed to the
driver; that the controller orders waiting mailboxes by identifier is left out.

`AdvanceTick` lets time pass, but not beyond `wake + MaxLag` while ClusterTask has
not finished the round it should have begun at `wake`. This is the scheduling
assumption of the bridges: only GatewayTask has a higher priority, defaultTask
the same, and a round takes microseconds. `uptime`, `rx_at`, `sent_at`,
`wrong_since`, `quiet_since` are history variables in true time; the properties
are stated over them, so that a wrap of `tick` cannot hide an error.

### ISO-TP

`IsoTp` translates `UDS_Client_OnCanRx`: `OnSingleFrame`, `OnFirstFrame`,
`OnConsecutiveFrame` give the next context, `Completes` and `Payload` what is
handed to the decoder. A byte is a pair of a response's number and a position in
it, so a wrong place or a mixture is visible. The sizes (64-byte buffer, 6 and 7
bytes per frame, 16 sequence numbers) are constants. `IsoTpLink` adds the queue, the
loss of any frame, requests that reset the context at any moment, and the cluster,
which may start a response before it has finished the last.

### Gateway tasks and driver

`CanBsp` splits a call of `CAN_BSP_SendTo` by ClusterTask where GatewayTask may come in
between: `TestMailboxes`, `ChooseMailbox`, `FillId`, `FillData`, and the read-modify-write
of the register that holds both the identifier and the request (`LoadTir`, `StoreTir`). The call by
GatewayTask is one step (`SendTo`). The mailboxes leave in any order (`Leave`): with
TransmitFifoPriority off it depends on identifiers and numbers. A frame is a record of who sent
it, its id and a number; what the bridges make of it is in their own modules, and
`Outputs` keeps only whether something is sent. `GatewayTasks` adds the start, which
may fail at each of its steps, and counts: `accepted` calls that returned HAL_OK,
frames that `left`, frames on the bus that are `wrong` (foreign id, or sent twice),
`clashes`, the calls of ClusterTask during which GatewayTask took the same mailbox.
`BusesInOrder` maps a bus to a `LossyFifo`, whose channel is the set of the numbers of its frames in FIFO and queue.

### Diagnosis

`UdsSystem` has the rounds of a command (`Start`, `Round`, `Receive`, `KeyStop`,
`Retry`), `cl_read`, which leaves its response to the idle loop, the passive reads
(`Listen`), which send no request and wait for a signal frame of the gateway (`Signal`),
the gateway's server with the latched faults, and the cluster with a multi-frame VIN.
`Ignore` is a frame the current loop reads and forgets: a passive read forgets responses too.
The variable `setup` is chosen at the start and never changes: which servers are on
the bus, which commands the user gives, and the bounds. `Retry` needs 3 s without a
response, and is enabled when nothing the command waits for is under way (`Quiet`): queues and
servers take milliseconds.

`read temp` waits for the id 0xF40E, which no frame of 11 bits can have, so it ends by
a key only; `CommandCompletes` leaves it out, and is checked among such reads. What
a passive read prints is left out; `uds_client.c:504` takes the rpm from bytes 0 and 1,
while `docs/can_db.md:10` puts it at bit 16.

### Board D

`Bcm` has the poll as four steps (`PollBegin` with the mode, `PollCopy`, `PollPins`
with the debouncing, `PollWrite`) and a command as three (`SetMode`, `ReadState`,
`WriteState`, the last two once per write). A command is a record of the mode it sets,
the writes it makes and the ignition override; `handle_door`, `handle_turn` and so on
are the sets of the commands each function of `bcm_cli.c` accepts. Time is left out:
polls, commands and status frames come in any order, and `ign_on` (the answer of
`BCM_Can_IsIgnOn`) changes at any moment. A copy of the eight flags is one step;
the properties look at each flag by itself, so a copy in halves adds no case.
`samples`, `armed` and `settled` are history variables: the readings of a button, whether it
has been released since it toggled, and the value a command has left.

### Board E

`Adas` has one action for a whole round of the task (`Round`), in the order of the
code: `PollRx`, `InputPoll` when due, `SendStatus` when due. Nothing else touches the
task's state; the receive interrupt (`Receive`) only fills the queue, so a round is
indivisible for it up to whether a frame comes before or after. A frame is one of
Board A with the ignition on, or any other, which `PollRx` drops. `Rules` is the table of
`firmware/board_e_safety/README.md:45-52`, kept apart from `evaluate_status` so that
the run compares the two. History variables: `speed_at` and `bus_age` (the true age
of the speed in the last status), `heard` and `since` (since when a rule's condition
has held outside).

### Board A and the desktop program

`EngineSim` has one action for each access of EngSimTask to the state it shares with the
commands: the look at the mode (`CheckMode`), the sample with the low-pass, the two stores
of the pedals, the read and the write of the speed, the rpm (whose formula may or may not
read the speed again, as the compiler likes), the coolant, and the two reads
that build a frame. A command is one action, since defaultTask has the higher priority.
The formulas are those of the code, with C's division towards zero. Time is counted in
loops of the task. `EngineBench` puts one of two peers at the serial line: a terminal that
gives any command, or `EngineController` with live update on and the port connected.
`Timeout` is the debounce timer's slot, `SingleShot` the `status` command that a reset sends
100 ms later. `to_gui` holds the board's lines as the program's parser sees them: a monitor line
with all values, and the lines of an answer (`Replies`: `mode = uart`, `throttle = 20 %`, the dump of
`status`) with one each; `processLine` applies them to mode and sliders alike. The echo
of a command has neither `=` nor `:` and is left out, as is what the parser does not know. The user
moves a slider, presses a button of the page (`ApplyPedalButton` sends at once and does not
stop the timer) or types a command (`commandField`). `wish` is what the user asked for
last, `overtaken` that a line, of the monitor or of an answer, moved the sliders while the timer ran:
in that case the program sends old pedals back, and `WishReached` claims nothing. Otherwise it claims that the
wish becomes the board's last command (`asked`), and that the board has it unless the
command came in the middle of a poll.

### Console

`Cli` is `cliMain` for one byte, with `screen`, what the terminal shows after the prompt,
worked out from the characters the code echoes and rubs out. `Console` adds USART3 with its
data register and overrun flag, and the interrupt handler in two steps: it
reads the status flags once (`ReadFlags`) and acts on them later (`ReceiveByte`,
`EndRxTransfer`), and a byte may come in between. While a command runs (`running`), nobody
empties the queue. In `EndRxTransfer` the HAL ends the reception, and nothing in
`uart.c` starts it again: the console is deaf until a reset.

## Runs

| Run | Module, cfg | Shows |
|---|---|---|
| `safety` | `MCSafetyBridge`, `SafetyBridge.cfg` | `NoStaleWarning`, `WarningWithinPeriod`, `LampErrorHeals`, `FaultsStayLatched`: no 0x480 frame after the timeout, a lit one in each period of danger, a dark one corrected, faults latched, all across a wrap of the tick |
| `engine` | `MCEngineBridge`, `EngineBridge.cfg` | `NoStaleValue`, `GaugeErrorHeals`: a silent Board A turns into 0, and the gauges show the right value again within a period |
| `body` | `MCBodyBridge`, `BodyBridge.cfg` | `NoStaleStatus`, `StatusErrorHeals`: the keep-alive stops in time, and the newest payload wins within a period |
| `gateway` | `MCGatewayTasks`, `GatewayTasks.cfg` | `ClashCostsOneFrame`: a call in which both tasks take one mailbox costs one frame, no more; `StatusSurvivesStart`: a late initialisation wipes no status; `WarningFollows`: the rpm warning ends where the queued frames say; `BusesInOrder`: each bus is a `LossyFifo` |
| `bcm` | `MCBcm`, `Bcm.cfg` | `OneTogglePerPress`, `UartValueHolds`, `DoorsShown`: buttons, commands and switches through all interleavings of a poll and a command |
| `adas` | `MCAdas`, `Adas.cfg` | `SpeedNotStale`, `RulesShown`: Board E judges with no speed older than the timeout and the wait in the queue, and shows every rule of its README in time |
| `engine_bench` | `MCEngineBench`, `EngineBench.cfg` | `PedalHolds`, `ResetHolds`, `RpmErrorHeals`: commands through all interleavings with the task; `SpeedSettles`, `PedalEndsReached`: the integer models end where they should; `WishReached`, `ViewFollows`: sliders and board agree in the end |
| `console` | `MCConsole`, `Console.cfg` | `EditorSpec`, `ScreenShowsLine`: the console is a `LineEditor` and shows it; `DeafByLateOverrunOnly`: neither a full queue nor an overrun the handler notices ends the reception |
| `isotp` | `MCIsoTpLink`, `IsoTpLink.cfg` | `ContextConsistent`, `BytesInPlace`, `NoMixtureWithoutLoss`, `LastResponseDecoded` |
| `uds` | `MCUdsSystem`, `Uds.cfg` | `ClearDoneMeansCleared` when no command is stopped, `VinShown` with stops and `cl_read`, `CommandCompletes` in all setups, passive reads included |
| `uds_stopped` | `MCUdsSystem`, `UdsStopped.cfg` | violated: `ClearDoneMeansCleared` |
| `uds_both` | `MCUdsSystem`, `UdsBoth.cfg` | violated: `MultiFrameCompletes` |

Every property of a passing run has a mutated definition next to the definition
of the code it breaks (`CheckRecentAlways` beside `CheckRecent`, and so on); no
specification uses them, they show that the property notices such an error.

### What the violated runs say

* `uds_stopped`: the late answer to a command stopped by a key ends the next
  `clear dtc`, which reports success while the gateway's DTCs are still latched.
* `uds_both`: the gateway answers the flow control frame that is meant for the
  cluster with a negative response, and the client gives up the reassembly.

Some weaknesses stay within what the passing runs bound. A status that is stored after
ClusterTask has read `now` may be a tick younger than `now`; the unsigned age is then
almost 2^32, and one 0x480 frame goes out dark, or one frame of rpm 0 while
the engine runs: `LampErrorHeals` and `GaugeErrorHeals` bound how long that shows. A
keep-alive of the body status may be half of one payload and half of the next:
`StatusErrorHeals`.

### Bounds

The ticks of a run are coarse: a model tick is as long as ClusterTask's delay.
What matters is kept: `DELAY < PERIOD` where the run is about gaps, a timeout of
several periods, and, for the stale-data properties, one long enough that a
whole `Patience` with a dropped frame lies within it. `MaxUptime` leaves room for
boot, the first reception, the timeout after it, and another reception.
`MaxLag = 1` lets a round straddle a tick, which is the case all races need.
`TICK_MOD` is smaller than the horizon in `safety`, `engine` and `body`: ages and
deadlines cross the wrap, and `s_next_warning_tick` comes out as 0. A source that has
been silent for a whole wrap (49.7 days) counts as fresh again, in all three
bridges, since `valid` and `last_rx_tick` are never withdrawn; `NoStaleWarning`,
`NoStaleValue` and `NoStaleStatus` say so and claim nothing of that case. `MaxBusy = 1`
is a full set of mailboxes at any one transmission; `Patience` grows with it, so one is
enough to show that the error does not outlast the frame. `Patience` is the period and
`Overdue`, how late ClusterTask can notice a deadline: its `osDelay`, the rest of the round that
read its clock a tick too early, and a round of `MaxLag` after the next wake-up. With
`MaxLag = 1` this is one tick more than the delay; the proofs hold for any lateness. `ALIVE_MOD = 1` in `safety`
keeps the alive counter out of the state; `engine` has 2, the smallest that counts.

`gateway` has a queue of two over a FIFO of one, so that three frames fill and overrun both,
and two mailboxes, so that a frame of GatewayTask finds one chosen, one free, or none; one
call of ClusterTask meets any number of GatewayTask's. The rpm are those at
both ends of the hysteresis and between them. The number of frames and sends bounds the run.

`engine_bench` has a scale of ten speeds and an ADC with 34 counts, for which
the low-pass (divisor 2) stops one count short: 2.9 percent, just inside the dead zone of 3 percent, as
`SimAssumption` demands and the code's own 4095 counts and divisor 8 fulfil with a wide margin.
The terminal's pedals are 0, 70 and 100 percent: with throttle 100 and brake 70 the target is 5 and
the speed swings between 3 and 8 for ever, inside the scale, so the clamps hide nothing. The bounds of `SpeedSettles`
are reached at both ends; either end drawn in by one, the property fails. Larger scales are the matter of the
theorem `SpeedNearsTarget`. Model and coolant are due in every loop, coolant has two degrees, and `RoomWatched`
follows the speed after a reset through two steps. A terminal gives three commands, or one while
the pedals move once. The GUI's user clicks twice, or types one command, and a monitor line goes out when no
other line is on the way: enough for a stop, a second slider or the button within the debounce of the first, with the
answer to the first still to come. The values of the program's sliders are 0 and 1 percent and its pedals at the ADC
are released, so the car stands: lines and timers are the matter there.

`console` types the three characters that also occur in the escape sequences, has room for one
character in the line and two old lines, and for one byte in the queue: every buffer is full after
two bytes, the ring wraps after two lines.

`bcm` has one door and one turn signal: flags of the same kind are treated alike,
and no code relates two of them but the door contact. `SAMPLES` is the code's own 2. The
commands are those that set and clear a door or the turn signal, clear all, and the two
ways back to the pins; a lamp is set and shown like a door, and the override only
replaces `ign_on`.

`adas` has a queue of two, which the bus can fill faster than the rounds empty it, an
obstacle exactly at the bounds of the rules and a vehicle exactly at their highest
speed; the timeout is the shortest that `AdasAssumption` allows (a Board A that runs
must not seem silent because of the queue: 50 ms and 64 rounds of 5 ms against 500 ms in
the code). With these values `SpeedNotStale` is tight: it fails for a bound one tick
shorter. `MaxLag = 0` keeps the run small: the task has nothing to race with.

The buffer of `isotp` is filled exactly by a first frame and as many consecutive
frames as there are sequence numbers less one, the lengths are those around
each boundary (single frame, full and short last frame, full buffer, too long), and
three responses with three losses and two resets reach every overlap of two
responses and a third after them. `uds` has three setups: the gateway alone, the cluster
alone with stops and `cl_read`, the gateway with its signal frames and passive
reads. In `UdsSystem` a frame carries one byte and the
VIN three, a first frame and two consecutive ones as in reality; one more command
than losses or stops suffices to see a late response in the next command.

### Fairness

`IsoTpLink!FairSpec`: weak fairness of the cluster's next consecutive frame (a
conforming sender goes on once flow control has come) and of `Receive` (the client
polls its queue in every loop: `ap_main.c:50`, `uds_client.c:479`). `UdsSystem!FairSpec`:
weak fairness of the client's loop (`Round`, `Receive`, `Listen`, `Ignore`, `Retry`: the 3 s
deadline passes), of the gateway's task with its periodic frames (`Signal`), and of the cluster. No fairness for losses, faults,
keys and commands: nothing obliges them to occur, and their number is
bounded, without which no command need ever complete. `Bcm_FairSpec`: weak fairness of
the input task, of a command that has begun and of the status frame: both tasks wake
from `osDelay` for ever (`bcm_main.c:137`, `:181`) and share the processor by
time slices. None for the user and the pins. `GatewayTasks!FairSpec`: weak fairness of the
start, of GatewayTask, which nothing preempts but interrupts, and of the receive interrupts.
`EngineBench!FairSpec`: weak fairness of EngSimTask (defaultTask sleeps in `osDelay`, so
the lower priority gets its turn), of the commands in the serial line, of the
monitor, and of the program's timers and lines; none for the user and the pedals. The bridges have no
liveness properties: their deadlines are safety properties of `uptime`.

`CHECK_DEADLOCK FALSE` stands in the diagnostic configurations and in `GatewayTasks.cfg`,
where all commands or frames of the bounds may be used up and everything handled. The
bridges end at `MaxUptime`, where GatewayTask's receptions remain enabled.

## Proofs

| Theorem | Module | For every |
|---|---|---|
| `TypeCorrect`: `Spec => []TypeOK` | `SafetyBridge_proofs`, `EngineBridge_proofs`, `Body_proofs`, `Console_proofs` | value of the constants |
| `FaultsAreLatched`: `Spec => []FaultsStayLatched` | `SafetyBridge_proofs` | value of the constants |
| `NoWarningOnStaleData`: `Spec => []NoStaleWarning` | `SafetyBridge_proofs` | value of the constants |
| `WarningComesInTime`: `Spec => []WarningWithinPeriod` | `SafetyBridge_proofs` | period and lateness that are short against the wrap of the tick (`TimesAreShort`) |
| `LampIsCorrected`: `Spec => []LampErrorHeals` | `SafetyBridge_proofs` | the same |
| `NoValueOnStaleData`: `Spec => []NoStaleValue` | `EngineBridge_proofs` | value of the constants |
| `GaugesAreCorrected`: `Spec => []GaugeErrorHeals` | `EngineBridge_proofs` | short times (`TimesAreShort`), inputs with the ignition on (`IgnitionIsOn`) |
| `NoStatusOnStaleData`: `Spec => []NoStaleStatus` | `Body_proofs` | value of the constants |
| `StatusIsCorrected`: `Spec => []StatusErrorHeals` | `Body_proofs` | short times (`TimesAreShort`) |
| `StatusIsKept`: `Spec => StatusSurvivesStart` | `GatewayTasks_proofs` | size of queue, FIFO and mailboxes, all bounds |
| `ReceptionIsLossyFifo`: `Spec => BusesInOrder` | `GatewayTasks_proofs` | the same |
| `ClashesAreBounded`: `Spec => []ClashCostsOneFrame` | `GatewayTasks_proofs` | the same |
| `ContextIsConsistent`: `Spec => []ContextConsistent` | `IsoTpLink_proofs` | buffer that needs fewer consecutive frames than there are sequence numbers (`FramesFit`) |
| `PayloadsAreInPlace`: `Spec => []BytesInPlace` | `IsoTpLink_proofs` | the same, and responses with at most as many consecutive frames as sequence numbers (`NumbersNamePlaces`) |
| `ResponsesAreNotMixed`: `Spec => []NoMixtureWithoutLoss` | `IsoTpLink_proofs` | `FramesFit`, and a buffer that holds a frame (`CF_DATA <= MAX_LEN`) |
| `ClearReportIsTrue`: `Spec => [](Undisturbed => ClearDoneMeansCleared)` | `UdsSystem_proofs` | number of commands, losses and faults, in setups with the gateway alone and no stopped command |
| `VinReportIsTrue`: `Spec => [](OnlyVin => VinShown)` | `UdsSystem_proofs` | number of commands, stops, `cl_read` and losses, in setups with the cluster alone and no service of the gateway asked for |
| `ReassemblyCompletes`: `Spec /\ OnlyVin => MultiFrameCompletes` | `UdsSystem_proofs` | the same, passive reads and signal frames included |
| `EngineTypeCorrect`: `Spec => []SimTypeOK` | `EngineAndAdas_proofs` | scale, ADC, filter and number of events |
| `CommandedPedalsHold`: `Spec => []PedalHolds` | `EngineAndAdas_proofs` | the same |
| `ResetNotUndone`: `Spec => []ResetHolds` | `EngineAndAdas_proofs` | the same |
| `SpeedNearsTarget`: `Spec => SpeedNears` | `EngineAndAdas_proofs` | the same |
| `OneFrameOutOfStep`: `Spec => []RpmErrorHeals` | `EngineAndAdas_proofs` | the same |
| `BcmTypeCorrect`: `Bcm_Spec => []BcmTypeOK` | `Body_proofs` | set of doors, lamps, buttons and commands, number of samples |
| `WrittenValueStays`: `Bcm_Spec => []UartValueHolds` | `Body_proofs` | the same |
| `TogglesArePresses`: `Bcm_Spec => OneTogglePerPress` | `Body_proofs` | the same |
| `AdasTypeCorrect`: `Adas_Spec => []AdasTypeOK` | `EngineAndAdas_proofs` | value of the constants |
| `NoStaleSpeed`: `Adas_Spec => []SpeedNotStale` | `EngineAndAdas_proofs` | value of the constants |
| `RulesAreShown`: `Adas_Spec => []RulesShown` | `EngineAndAdas_proofs` | periods and rounds that are short against the wrap of the tick (`TimesAreShort`) |
| `ScreenCorrect`: `Spec => []ScreenShowsLine` | `Console_proofs` | length of line, history and queue |
| `ListensOtherwise`: `Spec => []DeafByLateOverrunOnly` | `Console_proofs` | the same |
| `ImplementsEditor`: `Spec => EditorSpec` | `Console_proofs` | the same |

The proofs rest on the named assumptions of the modules: `TickModAssumption`,
`SafetyAssumption`, `EngineAssumption`, `BodyAssumption`, `CanBspAssumption`,
`GatewayAssumption`, `IsoTpAssumption`, `LinkAssumption`, `UdsAssumption`, `SimAssumption`,
`BenchAssumption`, `BcmAssumption`, `AdasAssumption`, `CliAssumption`, `ConsoleAssumption`. TLC evaluates these for the instances.
What a theorem needs beyond them is a hypothesis in its statement, named in the
table; the code meets each one with room to spare (100 ms against 24.8 days, and
`engine_sim.c:401` sets the ignition bit in every frame), and so do the instances the runs check.

`NoStaleWarning` is not inductive. `FreshInv` adds three facts. `RoundInTime`: while
ClusterTask is inside a round, `uptime` has not passed `wake + MaxLag`, and the
clock it has read is not older than `wake`. The round's clock is a tick, so its place
in true time is `NowAt == uptime - tick_elapsed(tick, now)`; a round takes less than a
wrap (`MaxLag < TICK_MOD` in `SafetyAssumption`). `TrueAges`: within a wrap of the last
reception, the unsigned differences the code computes are true ages.
`RoundOnFreshData`: past the recency check, the round's clock is within `TIMEOUT` of
the last reception: the check established it for the status it saw, and a status
stored since is younger. The frame is then sent at most `MaxLag` after `wake`. A
status stored in the "future" of `now` fails the check, which errs on the side of
silence; the proof needs this case. The proofs of the other two bridges follow the same
argument. In `EngineBridge` a round sends two frames and a frame with 0 is allowed at any
age, so `RoundOnFreshData` speaks of rounds that hold a positive verdict or a value other than 0.

`WarningWithinPeriod`, `LampErrorHeals`, `GaugeErrorHeals` and `StatusErrorHeals` are about
deadlines that wrap, compared by the sign of a difference. The proofs follow them in true time:
`NextAt` is the moment `s_next_warning_tick` stands for, which is a function of the state as
long as a deadline is less than half a wrap away; that is all `TimesAreShort` says.
`OnSchedule`: the deadline is at most a period ahead, and the round under way, or the next one,
ends before it is `Overdue`. `HistoriesFollow` ties the history variables to the reports.
`AttemptInTime` is the heart of it. From the moment since which a lit frame is missing
(`quiet_since`, put off by a whole `Patience` for each refused transmission), the deadline
is at most a period away unless the round is past its check, and then the round itself ends
in time. A round may go out dark during a danger (`Dark`) only if the status came after it had read its
clock; `OnRx` has then just sent a lit frame. `LampErrorHeals` follows, since the lamp was
never wrong for longer than no lit frame came. In `BodyBridge` the frame that does not correct
is an `Outdated` one, a payload that OnRx has replaced since a half of it was copied; in
`EngineBridge`, two schedules are worked off in one round, and `RightValue` says that a round that
read its clock after the error began sends the value expected.

These proofs found two faults of the model, which TLC then showed on instances with
`MaxLag = 2`: `Patience` had counted the lateness of one round only, where two matter, and the
count of `wrong_since` went on across a silence of a whole wrap, at the end of which old data
count as fresh (`Wrapped` now restarts it).

`StatusSurvivesStart` follows from `StartOrder`, the order of the flags, and from the
numbers of all frames under way being greater than 0 (`FramesNumbered`), which makes
a stored status distinguishable from none.

`ReceptionIsLossyFifo` maps every step to a step of the abstract channel or a stutter, for
each bus. The invariant (`InOrder`) says that the numbers of a bus ascend strictly from the last
one read, through the queue and then the FIFO, to the last that arrived. So the frame an
interrupt moves or GatewayTask reads is the oldest of its bus although the queue holds both
buses, and the frame an overrun replaces is the newest.

`ClashCostsOneFrame` balances calls that returned HAL_OK against frames that left and are
wrong. `MailboxInv` adds what the balance owes to the present: a waiting mailbox is `Spoiled` if its
identifier and data are of two frames or its frame is on the bus already, and each one
counts as wrong in advance (`Accounts`). Within a call of ClusterTask, its chosen mailbox is free and
holds what it has written so far, or GatewayTask has taken it since, which is a clash
(`CallOK`). At each step at most one mailbox becomes spoiled, or one frame is lost, and only in a clash.

`ContextConsistent` says that offset, length, sequence number and buffer describe
the same prefix. `LinkInv` adds what the frames under way and the cluster's state
must satisfy for the reads of `f.data` and `f.arg` to be defined. Each accepted
consecutive frame moves the offset from `Sent(sn)` to `Sent(sn + 1)`, or completes;
`FramesFit` is what keeps `next_sn` from passing through 0 in an open reassembly.
With the code's sizes it reads 64 <= 6 + 7 * 15.

`BytesInPlace` needs three more facts (`InPlaceInv`): the bytes of each frame under way have
the positions its type and sequence number say, the prefix in `rx_buf` is in place, and
a response that is being sent uses no sequence number for two places. The receiver knows
the place of a frame by its number alone; were a response longer than `NumbersNamePlaces`
allows, a frame that follows a lost first frame and 16 others could go on with an older
reassembly. The VIN has 20 bytes, the limit is 118.

`NoMixtureWithoutLoss` needs no such limit. `ResponsesInv` says that the frames on the
line are in the order of their responses, and that every consecutive frame is announced: its
first frame is still in front of it, or is the one the open reassembly began with, or
nothing is being received. A reset by the client drops the reassembly but not the frames;
they are ignored until the next first frame.

`ClearDoneMeansCleared` alone says nothing of what is on its way to the client. `ClearInv`
adds `UnderWay`: at most one request or one response is under way, and only while the command
it belongs to waits for it; if that command is a clear, its response has been preceded
by the erasure. `Undisturbed` is exactly what `uds_stopped` violates: nobody
leaves a response behind. `VinShown` holds although responses are left behind, since whatever is on
its way is a frame of some answer to read vin. `VinInv` says so (`Traffic`), that a reassembly
has the first byte of such an answer, and that a command that waits was told nothing
and has no complete response (`Waiting`), which is what the reset at the top of a round is for.

`MultiFrameCompletes` is violated with both servers on the bus (`uds_both`); `ReassemblyCompletes` proves it for the
cluster alone. `InSequence`: every consecutive frame in the queue, and the one the cluster sends next, has the
number that comes after the response before it (`Succ`), or the number the reassembly expects when no response is
before it. An answer begun anew starts with a first frame, so a restart of the cluster breaks no sequence; the signal
frames between responses do not count; and a passive read, which drops responses, holds no reassembly (`SequenceInv`).
Like the property, `InSequence` claims nothing once a frame is lost.

In the proofs about `EngineBench` each of the three properties needs to know what EngSimTask holds between
two accesses. `PedalInv`: a poll that has seen the mode before a command is a poll the
command hit. `ResetInv`: the speed a step writes back is within 4 of what it has read. `RpmInv`:
after a bad frame the speed and the rpm are `InStep` wherever the next frame is packed
from, unless a reset comes in between, which begins a new count. The types need
the integer formulas of the simulator to stay on their scales: division, low-pass, pedal map, one step
of the speed model, rpm from speed.

`SpeedNears` is the step behind `SpeedSettles`: a physics step that no reset interrupts ends within the swing of
its pedals (`AtTarget`) or nearer to the target than it began, and does not leave the swing. It needs no
invariant but the types; `NextSpeedNears` does the arithmetic, with the target and the two step sizes as
numbers in their ranges. That the steps go on, and so reach the swing, is left to the run.

`UartValueHolds` of Board D speaks of `s_state` only. `HoldInv` adds what could still overwrite it: while
a definite value is expected of a flag, the mode is `uart`, no poll is under way (a poll that was there
when the value was written has kept it from being `settled`, and none can begin in this mode), and a command that is about to
write back holds a copy with that value. `OneTogglePerPress` is an action property; `ButtonInv` ties the debounce
counter to the readings it stands for: with a counter of `n` the last `n + 1` readings were equal, as far
as `samples` reaches, and a button whose debounced state is inactive has been released since it last toggled. No
change of the mode disturbs it, since only a poll touches the counters.

`SpeedNotStale` of Board E is two bounds. `QueueInv`: the frame in place `i` was received so lately that
`QUEUE` rounds later it is taken, counting the rounds its place still asks for. `AgeInv`: the
age the code computes is smaller than the true one by that wait at most, until the first wrap of the
tick after the reception.

`RulesShown` asks for more: the frame on the bus was judged on the inputs and the speed that make the rule
apply. `LastHeard`: the last frame of Board A that found room is either in use or in the queue with none behind it.
`SpeedInv`: while a rule's condition holds, a slower speed, in use or in the queue, will be replaced by one received
before the condition began to hold, and a frame that came later has a predecessor of Board A at most `GAP`
before it, so that the speed in use is never older than the timeout when it is judged
(`GAP + QUEUE * Step <= ENGINE_TIMEOUT`, in `AdasAssumption`). `OnSchedule` puts the two deadlines into true
time as in the bridges, and `ShownInv` says of each rule that the inputs and the frame either satisfy it or
are about to be replaced; each failed conversion or refused transmission moves that moment by one status period and
one round. The proof also showed that `Patience` need not add the two waits: the queue empties while
the inputs are read, so the longer of them is enough, and `Patience` has their `Max`.

In `Console_proofs`, the invariant of the handler (`HandlerInv`) says that the overrun flag
without a byte to read, now or in the flags the handler holds, means an overrun that the
handler did not see. For the refinement, the entry `i` of the abstract list is the
ring's entry `HistIndex(i)`; Enter moves every entry by one, and the ring's oldest, which it overwrites, is
the one that falls off the list.

Only model-checked: the liveness properties (`WarningFollows`, `LastResponseDecoded`,
`CommandCompletes`, `DoorsShown`, `SpeedSettles`, `PedalEndsReached`, `WishReached`, `ViewFollows`),
since TLAPS does not prove liveness under fairness. Every safety property of a passing run is a theorem:
`ClearDoneMeansCleared` and `VinShown` of `uds` for the setups in which they are claimed. `ClearDoneMeansCleared`
and `MultiFrameCompletes` are violated where the two other runs check them, and proved where the cause is missing.

## Not modelled

Nearly all of the repository's lines are vendored or generated: each board carries its own copy of
the HAL, CMSIS and FreeRTOS and the CubeMX output. They are used through their documented
behaviour, except where the program's correctness hangs on their steps: the filling of a mailbox
(`stm32f4xx_hal_can.c`) and the receive interrupt of the UART (`stm32f4xx_hal_uart.c`).

Of the project's own code:

* the bit layout of frames (`signal_db.h`), the printed text, `LoggerTask`, the CAN monitor, the
  statistics counters, `GetDiagnostic`, `GetState` and `HasRecentStatus`: they change no
  state a property is about;
* in the server, the length checks and the functional request id 0x7DF: no sender of the
  repository uses them;
* in the client, `read all`, which prints every frame until a key is pressed, and `cl_target`
  given while a response is under way;
* Board D's 100 ms schedule, the rhythm of the turn signals and the timeout of the ignition
  frame: `Bcm` lets them happen at any moment, a superset of what the timing allows;
* the alive counters of boards A and E and the increment of `s_warning_alive` that may be
  lost (`StoreAlive` lets it happen; the cluster does not check the counter);
* of the desktop program, the connection, live update off, the switches of the monitor, and the
  controllers that only show text; the older GUIs, which it replaces.

## Plan

Done: all components of the inventory that keep state and run concurrently, and the
theorems above. What would come next, in this order:

1. Board D's time: the schedule of 0x390, the turn signal rhythm, the ignition timeout
   against Board A's frames.
2. Board E's status as the input of the gateway's bridge: the time from an obstacle to
   the lamp, over abstract specifications of `Adas` and `SafetyBridge`.
3. Proofs: `NoStaleWarning` and `SpeedNotStale` together, as the age of Board A's speed in a warning lamp.
