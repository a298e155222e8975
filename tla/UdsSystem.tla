----------------------------- MODULE UdsSystem -----------------------------
(***************************************************************************)
(* Diagnosis over CAN2: the UDS client of Board C (uds_client.c, with the  *)
(* receiver of IsoTp), the UDS server in Board B (gateway_uds_server.c),   *)
(* which keeps the latched DTCs, and the instrument cluster (external).    *)
(* Both servers listen on 0x714 and answer on 0x77E, and any of the two    *)
(* may be on the bus: the setup, chosen at the start, says which.          *)
(*                                                                         *)
(* A command of the client runs in rounds: reset the receive context, send *)
(* the request, read the queue until a response is complete, a key is      *)
(* pressed or 3 seconds are over, and then start again.  A passive read    *)
(* sends no request: it waits for a frame the gateway sends to the cluster *)
(* and ignores all others.                                                 *)
(***************************************************************************)
EXTENDS IsoTpFrames, Sequences, FiniteSets

CONSTANTS
    Setups,       \* what may be on the bus, and the bounds that go with it
    VIN_LEN       \* length of the cluster's answer to "vin" (20 bytes)

Passive == {"rpm", "speed", "temp"}

\* What the user asks for, the signal frames on the bus, and the bounds: how many
\* commands the user gives, how many of them a key stops, how many cl_read commands
\* there are, how many frames are lost (CAN retransmission is off), how many faults.
SetupType ==
    [servers : SUBSET {"gateway", "cluster"},
     commands : SUBSET ({"clear", "adas", "vin"} \cup Passive), signals : SUBSET Passive,
     max_commands : Nat, max_stops : Nat, max_cl_reads : Nat, max_lost : Nat, max_faults : Nat]

\* "temp" waits for the CAN id 0xF40E, which no frame with an id of 11 bits has.
ASSUME UdsAssumption ==
    /\ VIN_LEN \in CF_DATA + 1 .. MAX_LEN
    /\ \A s \in Setups : s \in SetupType /\ s.signals \subseteq {"rpm", "speed"}

\* The responses, told apart by their number: 54, 62 F4 10 .., 7F .. .., 62 F1 90 ..
CLEAR_OK == 1
ADAS_OK  == 2
NRC      == 3
VIN_OK   == 4

VARIABLES
    setup,       \* one of Setups, throughout
    pc, cmd,     \* the client: "idle", or in a round of the command cmd
    g_client,    \* the client's receive context (IsoTp)
    can_rx_q,    \* the client's queue: responses, and signal frames of the gateway
    requests,    \* per server: the frames of 0x714 it has not handled yet
    dtc,         \* the gateway: the latched faults, numbered as they occur
    vin_next, cts,  \* the cluster: the next consecutive frame, and flow control
    faults, commands, stops, cl_reads, lost,  \* how many so far (bounded)
    \* History variables, read by the properties only.
    decoded,     \* the last complete response since the command was given, or 0
    pending,     \* the faults that were latched when the command was given
    shown        \* what the last command was told it has done, "none" if stopped

client == <<pc, cmd, g_client, pending, shown>>
server == <<dtc, vin_next, cts>>
users  == <<commands, stops, cl_reads>>
counts == <<faults, users, lost>>
vars   == <<setup, client, can_rx_q, requests, server, counts, decoded>>

-----------------------------------------------------------------------------
(* The bus. *)

MayLose == lost < setup.max_lost /\ lost' = lost + 1

Servers == setup.servers

\* CAN_BSP_Send on the client: every server gets the frame, or none does.
Transmit(r) ==
    \/ requests' = [s \in Servers |-> Append(requests[s], r)] /\ UNCHANGED lost
    \/ MayLose /\ UNCHANGED requests

Answer(f) ==
    \/ can_rx_q' = Append(can_rx_q, [id |-> "resp", frame |-> f]) /\ UNCHANGED lost
    \/ MayLose /\ UNCHANGED can_rx_q

\* The frames of the gateway's engine bridge on the same bus.  They are repeated for
\* ever; of each signal one frame is in the queue at a time.
Signal(id) ==
    /\ id \in setup.signals
    /\ \A i \in DOMAIN can_rx_q : can_rx_q[i].id # id
    /\ can_rx_q' = Append(can_rx_q, [id |-> id])
    /\ UNCHANGED <<setup, client, requests, server, counts, decoded>>

Short(kind) == SingleFrame(kind, 1, CF_DATA + 1)

-----------------------------------------------------------------------------
(* The client. *)

\* The user gives a command (UDS_Client_ExecuteDiagnostic, UDS_Execute_ClearDtc).
Start(c) ==
    /\ pc = "idle" /\ c \in setup.commands /\ commands < setup.max_commands
    /\ pc' = "round" /\ cmd' = c /\ commands' = commands + 1
    /\ pending' = dtc /\ shown' = "none" /\ decoded' = 0
    /\ UNCHANGED <<setup, g_client, can_rx_q, requests, server, faults, stops, cl_reads, lost>>

\* cl_read (UDS_Client_ReadDID): the request is sent and the response left to the
\* idle loop.
ClRead(c) ==
    /\ pc = "idle" /\ c \in setup.commands \ ({"clear"} \cup Passive)
    /\ cl_reads < setup.max_cl_reads
    /\ cl_reads' = cl_reads + 1
    /\ g_client' = reset_rx_state(g_client)
    /\ Transmit(c)
    /\ UNCHANGED <<setup, pc, cmd, pending, shown, can_rx_q, server, faults, commands, stops, decoded>>

\* The top of a round.
SendRequest == IF cmd \in Passive THEN UNCHANGED <<requests, lost>> ELSE Transmit(cmd)

RoundKeepsContext ==
    /\ pc = "round"
    /\ SendRequest
    /\ pc' = "wait"
    /\ UNCHANGED <<setup, cmd, g_client, pending, shown, can_rx_q, server, faults, users, decoded>>

Round ==
    /\ pc = "round"
    /\ g_client' = reset_rx_state(g_client)
    /\ SendRequest
    /\ pc' = "wait"
    /\ UNCHANGED <<setup, cmd, pending, shown, can_rx_q, server, faults, users, decoded>>

\* One frame of the queue goes through UDS_Client_OnCanRx: in a command, which it
\* ends when a response is complete, or in the idle loop of UDSMainTask.
Receive ==
    /\ pc = "idle" \/ (pc = "wait" /\ cmd \notin Passive)
    /\ can_rx_q # <<>> /\ Head(can_rx_q).id = "resp"
    /\ LET f == Head(can_rx_q).frame IN
       /\ g_client' = OnCanRx(g_client, f)
       /\ decoded' = IF Completes(g_client, f) THEN Payload(g_client, f).bytes[1][1]
                     ELSE decoded
       /\ IF WantsFlowControl(f) THEN Transmit("FC") ELSE UNCHANGED <<requests, lost>>
       /\ IF pc = "wait" /\ g_client'.response_complete
          THEN pc' = "idle" /\ shown' = cmd
          ELSE UNCHANGED <<pc, shown>>
    /\ can_rx_q' = Tail(can_rx_q)
    /\ UNCHANGED <<setup, cmd, pending, server, faults, users>>

\* The frame a passive read waits for.
Listen ==
    /\ pc = "wait" /\ cmd \in Passive
    /\ can_rx_q # <<>> /\ Head(can_rx_q).id = cmd
    /\ pc' = "idle" /\ shown' = cmd
    /\ can_rx_q' = Tail(can_rx_q)
    /\ UNCHANGED <<setup, cmd, g_client, pending, requests, server, counts, decoded>>

\* Any other frame is read and forgotten; a passive read forgets responses, too.
Wanted(e) == IF pc = "wait" /\ cmd \in Passive THEN e.id = cmd ELSE e.id = "resp"

Ignore ==
    /\ pc \in {"idle", "wait"} /\ can_rx_q # <<>> /\ ~Wanted(Head(can_rx_q))
    /\ can_rx_q' = Tail(can_rx_q)
    /\ UNCHANGED <<setup, client, requests, server, counts, decoded>>

\* The key and the clock are looked at only when the queue has been read empty.
KeyStop ==
    /\ pc = "wait" /\ can_rx_q = <<>> /\ stops < setup.max_stops
    /\ pc' = "idle" /\ stops' = stops + 1
    /\ UNCHANGED <<setup, cmd, g_client, pending, shown, can_rx_q, requests, server,
                   faults, commands, cl_reads, lost, decoded>>

\* 3 seconds without a response: far longer than any frame stays in a queue or a
\* server takes to answer, so nothing the command waits for is under way any more.
Quiet ==
    /\ \A i \in DOMAIN can_rx_q : ~Wanted(can_rx_q[i])
    /\ \A s \in Servers : requests[s] = <<>>
    /\ ~(vin_next # 0 /\ cts)

RetryWithoutRequest ==
    /\ pc = "wait" /\ Quiet
    /\ pc' = "wait"
    /\ UNCHANGED <<setup, cmd, g_client, pending, shown, can_rx_q, requests, server, counts, decoded>>

Retry ==
    /\ pc = "wait" /\ Quiet
    /\ pc' = "round"
    /\ UNCHANGED <<setup, cmd, g_client, pending, shown, can_rx_q, requests, server, counts, decoded>>

-----------------------------------------------------------------------------
(* The gateway. *)

\* A new fault in an ADAS status (GatewaySafetyBridge_OnRx).
Fault ==
    /\ "gateway" \in Servers /\ faults < setup.max_faults
    /\ faults' = faults + 1
    /\ dtc' = dtc \cup {faults'}
    /\ UNCHANGED <<setup, client, can_rx_q, requests, vin_next, cts, users, lost, decoded>>

ClearedByNothing(r) == dtc
ClearedBy(r) == IF r = "clear" THEN {} ELSE dtc

\* GatewayUdsServer_OnRx.  It answers every frame of the request id: the VIN is
\* no DID of its own, and byte 1 of a flow control frame is taken as a SID.
Reply(r) == CASE r = "clear" -> CLEAR_OK [] r = "adas" -> ADAS_OK [] OTHER -> NRC

GatewayServe ==
    /\ "gateway" \in Servers /\ requests["gateway"] # <<>>
    /\ LET r == Head(requests["gateway"]) IN
       /\ dtc' = ClearedBy(r)
       /\ Answer(Short(Reply(r)))
    /\ requests' = [requests EXCEPT !["gateway"] = Tail(@)]
    /\ UNCHANGED <<setup, client, vin_next, cts, faults, users, decoded>>

-----------------------------------------------------------------------------
(* The cluster (external): the VIN is a multi-frame response, the gateway's   *)
(* services are rejected.                                                     *)

ClusterServe ==
    /\ "cluster" \in Servers /\ requests["cluster"] # <<>>
    /\ LET r == Head(requests["cluster"]) IN
       \/ /\ r = "vin"
          /\ vin_next' = 1 /\ cts' = FALSE
          /\ Answer(FirstFrame(VIN_OK, VIN_LEN))
       \/ /\ r = "FC"
          /\ cts' = (vin_next # 0)
          /\ UNCHANGED <<vin_next, can_rx_q, lost>>
       \/ /\ r \in {"clear", "adas"}
          /\ Answer(Short(NRC))
          /\ UNCHANGED <<vin_next, cts>>
    /\ requests' = [requests EXCEPT !["cluster"] = Tail(@)]
    /\ UNCHANGED <<setup, client, dtc, faults, users, decoded>>

ClusterSendCF ==
    /\ vin_next # 0 /\ cts
    /\ Answer(ConsecutiveFrame(VIN_OK, vin_next, CF_DATA + 1))
    /\ vin_next' = IF Sent(vin_next + 1) >= VIN_LEN THEN 0 ELSE vin_next + 1
    /\ UNCHANGED <<setup, client, requests, dtc, cts, faults, users, decoded>>

-----------------------------------------------------------------------------

Init ==
    /\ setup \in Setups
    /\ pc = "idle" /\ cmd = "clear" /\ pending = {} /\ shown = "none"
    /\ g_client = Cleared(FALSE)
    /\ can_rx_q = <<>> /\ requests = [s \in Servers |-> <<>>]
    /\ dtc = {} /\ vin_next = 0 /\ cts = FALSE
    /\ faults = 0 /\ commands = 0 /\ stops = 0 /\ cl_reads = 0 /\ lost = 0
    /\ decoded = 0

Client ==
    \/ \E c \in setup.commands : Start(c) \/ ClRead(c)
    \/ Round \/ Receive \/ Listen \/ Ignore \/ KeyStop \/ Retry

Next ==
    \/ Client \/ Fault \/ GatewayServe \/ ClusterServe \/ ClusterSendCF
    \/ \E id \in setup.signals : Signal(id)

Spec == Init /\ [][Next]_vars

\* The tasks of both boards and the cluster keep running, and the gateway repeats
\* its signal frames; the user is free to press no key and give no command, and
\* faults need not occur.
FairSpec ==
    /\ Spec
    /\ WF_vars(Round) /\ WF_vars(Receive) /\ WF_vars(Listen)
    /\ WF_vars(Ignore) /\ WF_vars(Retry) /\ \A id \in Passive : WF_vars(Signal(id))
    /\ WF_vars(GatewayServe) /\ WF_vars(ClusterServe) /\ WF_vars(ClusterSendCF)

-----------------------------------------------------------------------------
(* Properties. *)

\* docs/uds_did_map.md:66: "clear dtc" clears the latched DTCs the gateway keeps.
\* When the client reports a clear command as done, by whatever response, every
\* fault that was latched when the user gave the command has been erased.
ClearDoneMeansCleared == shown = "clear" /\ pc = "idle" => dtc \cap pending = {}

\* A command that is not stopped ends in the end, however many of its requests and
\* responses are lost (the 3 second retry) and whatever frames of other commands and
\* of the gateway lie in the queue before its own.  "read temp" alone never ends:
\* no frame has the id it waits for.
CommandCompletes ==
    \A c \in {"clear", "adas", "vin", "rpm", "speed"} :
        (pc = "round" /\ cmd = c) ~> (pc = "idle")

\* read vin, reported as done, has decoded the whole VIN since it was given, and
\* does not end by what is left of an earlier response: the receive context is
\* reset when a round begins.
VinShown == shown = "vin" /\ pc = "idle" => decoded = VIN_OK

\* firmware/board_c_uds/README_AUTO_FLOW_CONTROL.txt:25-37: after a first frame the
\* client sends flow control, receives the consecutive frames and has the full
\* payload.  While nothing is lost and no new request begins, a reassembly ends
\* only by its last consecutive frame.
MultiFrameCompletes ==
    [][(g_client.receiving_multi /\ ~g_client'.receiving_multi
          /\ lost' = 0 /\ pc # "round" /\ cl_reads' = cl_reads)
       => (g_client'.response_complete /\ Head(can_rx_q).frame.pci = "CF")]_vars

=============================================================================
