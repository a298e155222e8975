-------------------------- MODULE UdsSystem_proofs --------------------------
(***************************************************************************)
(* Theorems about what the report of the client is worth: that of clear    *)
(* dtc when the gateway alone is on the bus and no command is stopped, and *)
(* that of read vin when the cluster alone is on the bus; and about the    *)
(* reassembly of a response of the cluster.  All for any number of         *)
(* commands, lost frames, retries and faults.                              *)
(***************************************************************************)
EXTENDS UdsSystem, TLAPS

\* Nobody leaves a response behind: no key stops a command and no cl_read sends a
\* request whose response is not awaited.
Undisturbed ==
    /\ setup.servers = {"gateway"} /\ setup.signals = {}
    /\ setup.max_stops = 0 /\ setup.max_cl_reads = 0

-----------------------------------------------------------------------------
(* At most one request or response is under way, it belongs to the command    *)
(* that waits for it, and a response to clear dtc has been preceded by the    *)
(* erasure.                                                                   *)

Request == requests["gateway"]

Nothing == Request = <<>> /\ can_rx_q = <<>>

OneRequest == Request = <<cmd>> /\ can_rx_q = <<>>

\* A single frame, which needs no flow control.
Response(e) == e.id = "resp" /\ e.frame.pci = "SF"

OneResponse ==
    /\ Request = <<>> /\ Len(can_rx_q) = 1 /\ can_rx_q \in Seq({can_rx_q[1]})
    /\ Response(can_rx_q[1])
    /\ cmd = "clear" => dtc \cap pending = {}

UnderWay ==
    IF pc = "wait" /\ cmd \notin Passive THEN Nothing \/ OneRequest \/ OneResponse ELSE Nothing

\* Faults are numbered as they occur: the next one is not among those pending.
Numbered == faults \in Nat /\ dtc \subseteq 1 .. faults /\ pending \subseteq 1 .. faults

Quietness == stops \in Nat /\ cl_reads \in Nat /\ vin_next = 0 /\ DOMAIN requests = {"gateway"}

ClearInv ==
    /\ pc \in {"idle", "round", "wait"}
    /\ Numbered /\ Quietness /\ UnderWay /\ ClearDoneMeansCleared

LEMMA ClearInit ==
    ASSUME Init, Undisturbed
    PROVE  ClearInv
  BY DEF Init, Undisturbed, Servers, ClearInv, Numbered, Quietness, UnderWay, Nothing, Request,
         ClearDoneMeansCleared

LEMMA TransmitFacts ==
    ASSUME NEW r, Servers = {"gateway"}, Request = <<>>, DOMAIN requests = {"gateway"},
           Transmit(r)
    PROVE  /\ requests'["gateway"] \in {<<>>, <<r>>}
           /\ DOMAIN requests' = {"gateway"}
  <1>1. CASE requests' = [s \in Servers |-> Append(requests[s], r)]
    <2>1. Append(requests["gateway"], r) = <<r>>
      BY DEF Request
    <2> QED
      BY <1>1, <2>1
  <1>2. CASE UNCHANGED requests
    BY <1>2 DEF Request
  <1> QED
    BY <1>1, <1>2 DEF Transmit

LEMMA AnswerFacts ==
    ASSUME NEW f, f.pci = "SF", can_rx_q = <<>>, Answer(f)
    PROVE  \/ can_rx_q' = <<>>
           \/ /\ Len(can_rx_q') = 1 /\ can_rx_q' \in Seq({can_rx_q'[1]})
              /\ can_rx_q'[1] = [id |-> "resp", frame |-> f]
  <1>1. CASE can_rx_q' = can_rx_q
    BY <1>1
  <1>2. CASE can_rx_q' = Append(can_rx_q, [id |-> "resp", frame |-> f])
    <2>1. can_rx_q' = <<[id |-> "resp", frame |-> f]>>
      BY <1>2
    <2> QED
      BY <2>1
  <1> QED
    BY <1>1, <1>2 DEF Answer

LEMMA ClearStep ==
    ASSUME ClearInv, Undisturbed, [Next]_vars
    PROVE  ClearInv'
  <1> USE DEF ClearInv, Numbered, Quietness, UnderWay, Nothing, Request, ClearDoneMeansCleared
  <1>a. Servers = {"gateway"} /\ "gateway" \in Servers
    BY DEF Undisturbed, Servers
  <1>1. ASSUME NEW c \in setup.commands, Start(c)
        PROVE  ClearInv'
    BY <1>1 DEF Start, server
  <1>2. ASSUME NEW c \in setup.commands, ClRead(c)
        PROVE  FALSE
    BY <1>2 DEF ClRead, Undisturbed
  <1>3. ASSUME Round
        PROVE  ClearInv'
    <2>1. CASE cmd \in Passive
      BY <1>3, <2>1 DEF Round, SendRequest, server, users
    <2>2. CASE cmd \notin Passive
      <3>1. requests'["gateway"] \in {<<>>, <<cmd>>} /\ DOMAIN requests' = {"gateway"}
        BY <1>3, <1>a, <2>2, TransmitFacts DEF Round, SendRequest
      <3> QED
        BY <1>3, <2>2, <3>1 DEF Round, OneRequest, server, users
    <2> QED
      BY <2>1, <2>2
  <1>4. ASSUME Receive
        PROVE  ClearInv'
    <2>1. pc = "wait" /\ cmd \notin Passive /\ OneResponse
      BY <1>4 DEF Receive, OneRequest
    <2>2. UNCHANGED requests
      BY <1>4, <2>1 DEF Receive, OneResponse, Response, WantsFlowControl
    <2>3. can_rx_q' = <<>>
      BY <1>4, <2>1 DEF Receive, OneResponse
    <2>4. (pc' = "idle" /\ shown' = cmd) \/ (pc' = pc /\ shown' = shown)
      BY <1>4 DEF Receive
    <2>5. dtc' = dtc /\ pending' = pending /\ cmd' = cmd /\ faults' = faults
          /\ stops' = stops /\ cl_reads' = cl_reads /\ vin_next' = vin_next
      BY <1>4 DEF Receive, server, users
    <2> QED
      BY <2>1, <2>2, <2>3, <2>4, <2>5 DEF OneResponse
  <1>5. ASSUME Listen \/ Ignore
        PROVE  FALSE
    BY <1>5 DEF Listen, Ignore, Wanted, OneRequest, OneResponse, Response
  <1>6. ASSUME KeyStop
        PROVE  FALSE
    BY <1>6 DEF KeyStop, Undisturbed
  <1>7. ASSUME Retry
        PROVE  ClearInv'
    <2>1. Nothing
      BY <1>7, <1>a DEF Retry, Quiet, OneRequest, OneResponse, Response, Wanted
    <2> QED
      BY <1>7, <2>1 DEF Retry, server, counts, users
  <1>8. ASSUME Fault
        PROVE  ClearInv'
    <2>1. /\ faults' = faults + 1 /\ dtc' = dtc \cup {faults + 1} /\ pending' = pending
          /\ cmd' = cmd /\ pc' = pc /\ shown' = shown /\ can_rx_q' = can_rx_q
          /\ requests' = requests /\ UNCHANGED <<stops, cl_reads, vin_next>>
      BY <1>8 DEF Fault, client, users
    <2>2. dtc' \cap pending' = dtc \cap pending
      BY <2>1
    <2>3. UnderWay'
      BY <2>1, <2>2 DEF OneRequest, OneResponse
    <2> QED
      BY <2>1, <2>2, <2>3
  <1>9. ASSUME GatewayServe
        PROVE  ClearInv'
    <2>1. pc = "wait" /\ cmd \notin Passive /\ OneRequest
      BY <1>9 DEF GatewayServe, OneResponse
    <2>2. requests'["gateway"] = <<>> /\ DOMAIN requests' = {"gateway"}
      BY <1>9, <2>1 DEF GatewayServe, OneRequest
    <2>3. dtc' = ClearedBy(cmd) /\ Answer(Short(Reply(cmd)))
      BY <1>9, <2>1 DEF GatewayServe, OneRequest
    <2>4. Short(Reply(cmd)).pci = "SF"
      BY DEF Short, SingleFrame
    <2>5. \/ can_rx_q' = <<>>
          \/ /\ Len(can_rx_q') = 1 /\ can_rx_q' \in Seq({can_rx_q'[1]})
             /\ can_rx_q'[1] = [id |-> "resp", frame |-> Short(Reply(cmd))]
      BY <2>1, <2>3, <2>4, AnswerFacts DEF OneRequest
    <2>6. /\ pc' = pc /\ cmd' = cmd /\ pending' = pending /\ faults' = faults
          /\ stops' = stops /\ cl_reads' = cl_reads /\ vin_next' = vin_next
      BY <1>9 DEF GatewayServe, client, users
    <2>7. dtc' \subseteq dtc /\ (cmd = "clear" => dtc' = {})
      BY <2>3 DEF ClearedBy
    <2>8. Nothing' \/ OneResponse'
      BY <2>2, <2>4, <2>5, <2>6, <2>7 DEF OneResponse, Response
    <2> QED
      BY <2>1, <2>2, <2>6, <2>7, <2>8
  <1>10. ASSUME ClusterServe \/ ClusterSendCF
         PROVE  FALSE
    BY <1>10, <1>a DEF ClusterServe, ClusterSendCF
  <1>11. ASSUME NEW id \in setup.signals, Signal(id)
         PROVE  FALSE
    BY <1>11 DEF Undisturbed
  <1>12. ASSUME UNCHANGED vars
         PROVE  ClearInv'
    BY <1>12 DEF vars, client, server, counts, users, OneRequest, OneResponse
  <1> QED
    BY <1>1, <1>2, <1>3, <1>4, <1>5, <1>6, <1>7, <1>8, <1>9, <1>10, <1>11, <1>12
       DEF Next, Client

LEMMA SetupStays ==
    ASSUME [Next]_vars
    PROVE  setup' = setup
  BY DEF Next, Client, Start, ClRead, Round, Receive, Listen, Ignore, KeyStop, Retry,
         Fault, GatewayServe, ClusterServe, ClusterSendCF, Signal, vars

\* uds_client.c:589: a response is not matched to its request.  Where every command is
\* left to its end the report of clear dtc is true all the same: all faults latched when
\* it was given are erased, however many requests and responses were lost and repeated.
THEOREM ClearReportIsTrue == Spec => [](Undisturbed => ClearDoneMeansCleared)
  <1> DEFINE Inv == Undisturbed => ClearInv
  <1>1. Init => Inv
    BY ClearInit
  <1>2. ASSUME Inv, [Next]_vars
        PROVE  Inv'
    <2>1. setup' = setup
      BY <1>2, SetupStays
    <2> QED
      BY <1>2, <2>1, ClearStep DEF Undisturbed
  <1>3. Inv => (Undisturbed => ClearDoneMeansCleared)
    BY DEF ClearInv
  <1> QED
    BY <1>1, <1>2, <1>3, PTL DEF Spec


-----------------------------------------------------------------------------
(* Read vin, with the cluster alone on the bus.  The user may stop commands,  *)
(* abandon responses with cl_read and listen to signals in between, and any   *)
(* frame may be lost.                                                         *)

OnlyVin == setup.servers = {"cluster"} /\ setup.commands \subseteq {"vin"} \cup Passive

\* Whatever lies in the queue is a signal or a frame of some answer to read vin.
VinFrames ==
    {FirstFrame(VIN_OK, VIN_LEN)} \cup
    {ConsecutiveFrame(VIN_OK, k, CF_DATA + 1) : k \in Nat}

Entries == [id : Passive] \cup [id : {"resp"}, frame : VinFrames]

Traffic ==
    /\ can_rx_q \in Seq(Entries)
    /\ DOMAIN requests = {"cluster"} /\ requests["cluster"] \in Seq({"vin", "FC"})
    /\ vin_next \in Nat

\* A reassembly began with the first frame of such an answer.
VinContext(c) ==
    /\ DOMAIN c = DOMAIN Completed
    /\ c.receiving_multi =>
        /\ c.rx_offset \in Nat \ {0} /\ c.rx_total_len \in Nat
        /\ DOMAIN c.rx_buf = Index /\ c.rx_buf[1] = <<VIN_OK, 1>>

\* While a command waits it has been told nothing, and no response is complete.
Waiting ==
    /\ pc \in {"idle", "round", "wait"}
    /\ pc # "idle" => cmd \in {"vin"} \cup Passive /\ shown = "none"
    /\ pc = "wait" => ~g_client.response_complete

VinInv == setup \in Setups /\ Traffic /\ VinContext(g_client) /\ Waiting /\ VinShown

LEMMA VinInit ==
    ASSUME Init, OnlyVin
    PROVE  VinInv
  BY DEF Init, OnlyVin, Servers, VinInv, Traffic, VinContext, Waiting, VinShown, Cleared, Completed

LEMMA ClearedIsVin ==
    ASSUME NEW b \in BOOLEAN
    PROVE  VinContext(Cleared(b)) /\ Cleared(b).response_complete = b
  BY DEF VinContext, Cleared, Completed

LEMMA FirstFrameIsVin ==
    ASSUME NEW f, f = FirstFrame(VIN_OK, VIN_LEN)
    PROVE  VinContext(Started(f)) /\ ~Started(f).response_complete
  <1>1. /\ CF_DATA \in Nat \ {0} /\ FF_DATA \in Nat \ {0} /\ MAX_LEN \in Nat
        /\ FF_DATA <= MAX_LEN /\ VIN_LEN \in Nat \ {0}
    BY IsoTpAssumption, UdsAssumption
  <1>2. f.arg = VIN_LEN /\ f.data[1] = <<VIN_OK, 1>>
    BY <1>1 DEF FirstFrame, Data
  <1>3. Least(f.arg, FF_DATA) \in Nat \ {0} /\ 1 \in Index
    BY <1>1, <1>2 DEF Least, Index
  <1>4. CopyInto([i \in Index |-> NoByte], 0, f.data, Least(f.arg, FF_DATA))[1] = f.data[1]
    BY <1>3 DEF CopyInto
  <1> QED
    BY <1>1, <1>2, <1>3, <1>4 DEF Started, VinContext, CopyInto, Completed, Cleared

LEMMA AppendedIsVin ==
    ASSUME NEW c, NEW f, VinContext(c), c.receiving_multi
    PROVE  WithFrame(c, f).rx_buf[1] = <<VIN_OK, 1>>
  <1>1. 1 \in Index /\ ~(c.rx_offset < 1)
    BY IsoTpAssumption DEF Index, VinContext
  <1>2. CopyInto(c.rx_buf, c.rx_offset, f.data, CopyLen(c))[1] = c.rx_buf[1]
    BY <1>1 DEF CopyInto
  <1> QED
    BY <1>2 DEF WithFrame, VinContext, Completed, Cleared

\* What OnCanRx makes of such a frame.
LEMMA OnVinFrame ==
    ASSUME NEW c, NEW f \in VinFrames, VinContext(c)
    PROVE  /\ VinContext(OnCanRx(c, f))
           /\ OnCanRx(c, f).response_complete => c.response_complete \/ Completes(c, f)
           /\ Completes(c, f) => Payload(c, f).bytes[1][1] = VIN_OK
  <1>1. CASE f = FirstFrame(VIN_OK, VIN_LEN)
    <2>1. f.pci = "FF" /\ f.arg = VIN_LEN /\ f.dlc = CF_DATA + 1
      BY <1>1 DEF FirstFrame
    <2>2. AcceptsFF(f) /\ f.dlc # 0 /\ ~(f.dlc < CF_DATA + 1)
      BY <2>1, IsoTpAssumption, UdsAssumption DEF AcceptsFF
    <2>3. OnCanRx(c, f) = Started(f) /\ ~Completes(c, f)
      BY <2>1, <2>2 DEF OnCanRx, OnFirstFrame, Completes
    <2> QED
      BY <1>1, <2>3, FirstFrameIsVin
  <1>2. CASE \E k \in Nat : f = ConsecutiveFrame(VIN_OK, k, CF_DATA + 1)
    <2>1. f.pci = "CF" /\ f.dlc # 0
      BY <1>2, IsoTpAssumption DEF ConsecutiveFrame
    <2>2. OnCanRx(c, f) = OnConsecutiveFrame(c, f)
      BY <2>1 DEF OnCanRx
    <2>3. Completes(c, f) <=> CompletesCF(c, f)
      BY <2>1 DEF Completes
    <2>4. Completes(c, f) => Payload(c, f).bytes[1][1] = VIN_OK
      BY <2>1, <2>3, AppendedIsVin DEF Payload, CompletesCF
    <2>5. CASE ~c.receiving_multi
      BY <2>2, <2>4, <2>5 DEF OnConsecutiveFrame
    <2>6. CASE c.receiving_multi /\ ~AcceptsCF(c, f)
      BY <2>2, <2>4, <2>6, ClearedIsVin DEF OnConsecutiveFrame, reset_rx_state
    <2>7. CASE CompletesCF(c, f)
      BY <2>2, <2>3, <2>4, <2>7, ClearedIsVin DEF OnConsecutiveFrame, Completed, CompletesCF
    <2>8. CASE c.receiving_multi /\ AcceptsCF(c, f) /\ ~CompletesCF(c, f)
      <3>1. OnCanRx(c, f) = WithFrame(c, f)
        BY <2>2, <2>8 DEF OnConsecutiveFrame
      <3>2. CopyLen(c) \in Int /\ c.rx_offset + CopyLen(c) \in Nat \ {0}
        BY <2>8, IsoTpAssumption DEF CopyLen, Least, VinContext, CompletesCF
      <3>3. DOMAIN c = {"rx_buf", "rx_total_len", "rx_offset", "next_sn", "receiving_multi",
                        "response_complete"}
        BY DEF VinContext, Completed, Cleared
      <3>4. /\ WithFrame(c, f).rx_offset = c.rx_offset + CopyLen(c)
            /\ WithFrame(c, f).rx_buf = CopyInto(c.rx_buf, c.rx_offset, f.data, CopyLen(c))
            /\ WithFrame(c, f).rx_total_len = c.rx_total_len
            /\ WithFrame(c, f).response_complete = c.response_complete
            /\ DOMAIN WithFrame(c, f) = DOMAIN c
        BY <3>3 DEF WithFrame
      <3>5. DOMAIN WithFrame(c, f).rx_buf = Index
        BY <3>4 DEF CopyInto
      <3>6. WithFrame(c, f).rx_buf[1] = <<VIN_OK, 1>>
        BY <2>8, AppendedIsVin
      <3>7. VinContext(WithFrame(c, f))
        BY <2>8, <3>2, <3>4, <3>5, <3>6 DEF VinContext
      <3> QED
        BY <2>4, <3>1, <3>4, <3>7
    <2> QED
      BY <2>5, <2>6, <2>7, <2>8
  <1> QED
    BY <1>1, <1>2 DEF VinFrames

LEMMA VinStep ==
    ASSUME VinInv, OnlyVin, [Next]_vars
    PROVE  VinInv'
  <1> USE DEF VinInv, Traffic, Waiting, VinShown
  <1>a. Servers = {"cluster"} /\ "cluster" \in Servers /\ "gateway" \notin Servers
    BY DEF OnlyVin, Servers
  <1>b. ASSUME NEW r \in {"vin", "FC"}, Transmit(r)
        PROVE  /\ DOMAIN requests' = {"cluster"}
               /\ requests'["cluster"] \in Seq({"vin", "FC"})
    <2>1. CASE requests' = [s \in Servers |-> Append(requests[s], r)]
      <3>1. DOMAIN requests' = {"cluster"}
            /\ requests'["cluster"] = Append(requests["cluster"], r)
        BY <1>a, <2>1
      <3>2. Append(requests["cluster"], r) \in Seq({"vin", "FC"})
        BY <1>b
      <3> QED
        BY <3>1, <3>2
    <2>2. CASE UNCHANGED requests
      BY <2>2
    <2> QED
      BY <1>b, <2>1, <2>2 DEF Transmit
  <1>c. ASSUME NEW f \in VinFrames, Answer(f)
        PROVE  can_rx_q' \in Seq(Entries)
    <2>1. [id |-> "resp", frame |-> f] \in Entries
      BY DEF Entries
    <2> QED
      BY <1>c, <2>1 DEF Answer
  <1>s. setup' = setup /\ setup' \in Setups
    BY SetupStays
  <1>d. can_rx_q # <<>> => Head(can_rx_q) \in Entries /\ Tail(can_rx_q) \in Seq(Entries)
    OBVIOUS
  <1>e. requests["cluster"] # <<>> =>
            /\ Head(requests["cluster"]) \in {"vin", "FC"}
            /\ Tail(requests["cluster"]) \in Seq({"vin", "FC"})
    OBVIOUS
  <1>1. ASSUME NEW c \in setup.commands, Start(c)
        PROVE  VinInv'
    BY <1>s, <1>1 DEF Start, server, OnlyVin
  <1>2. ASSUME NEW c \in setup.commands, ClRead(c)
        PROVE  VinInv'
    <2>1. c = "vin" /\ Transmit(c)
      BY <1>2 DEF ClRead, OnlyVin
    <2>2. g_client' = Cleared(FALSE)
      BY <1>2 DEF ClRead, reset_rx_state
    <2>3. /\ DOMAIN requests' = {"cluster"} /\ requests'["cluster"] \in Seq({"vin", "FC"})
      BY <1>b, <2>1
    <2>4. UNCHANGED <<pc, cmd, shown, can_rx_q, vin_next, decoded>> /\ pc = "idle"
      BY <1>2 DEF ClRead, server
    <2> QED
      BY <1>s, <2>2, <2>3, <2>4, ClearedIsVin
  <1>3. ASSUME Round
        PROVE  VinInv'
    <2>1. /\ DOMAIN requests' = {"cluster"} /\ requests'["cluster"] \in Seq({"vin", "FC"})
      BY <1>3, <1>b DEF Round, SendRequest
    <2>2. g_client' = Cleared(FALSE)
      BY <1>3 DEF Round, reset_rx_state
    <2>3. UNCHANGED <<cmd, shown, can_rx_q, vin_next, decoded>> /\ pc = "round" /\ pc' = "wait"
      BY <1>3 DEF Round, server
    <2> QED
      BY <1>s, <2>1, <2>2, <2>3, ClearedIsVin
  <1>4. ASSUME Receive
        PROVE  VinInv'
    <2> DEFINE f == Head(can_rx_q).frame
    <2>1. f \in VinFrames /\ can_rx_q' \in Seq(Entries)
      BY <1>4, <1>d DEF Receive, Entries, Passive
    <2>2. g_client' = OnCanRx(g_client, f)
      BY <1>4 DEF Receive
    <2>3. /\ VinContext(g_client')
          /\ g_client'.response_complete => g_client.response_complete \/ Completes(g_client, f)
          /\ Completes(g_client, f) => Payload(g_client, f).bytes[1][1] = VIN_OK
      BY <2>1, <2>2, OnVinFrame
    <2>4. /\ DOMAIN requests' = {"cluster"} /\ requests'["cluster"] \in Seq({"vin", "FC"})
      BY <1>4, <1>b DEF Receive
    <2>5. decoded' = IF Completes(g_client, f) THEN VIN_OK ELSE decoded
      BY <1>4, <2>3 DEF Receive
    <2>6. /\ UNCHANGED <<cmd, vin_next>>
          /\ pc = "idle" \/ (pc = "wait" /\ cmd \notin Passive)
          /\ IF pc = "wait" /\ g_client'.response_complete
             THEN pc' = "idle" /\ shown' = cmd
             ELSE UNCHANGED <<pc, shown>>
      BY <1>4 DEF Receive, server
    <2> QED
      BY <1>s, <2>1, <2>3, <2>4, <2>5, <2>6
  <1>5. ASSUME Listen
        PROVE  VinInv'
    BY <1>s, <1>5, <1>d DEF Listen, server, Passive
  <1>6. ASSUME Ignore
        PROVE  VinInv'
    BY <1>s, <1>6, <1>d DEF Ignore, client, server
  <1>7. ASSUME KeyStop
        PROVE  VinInv'
    BY <1>s, <1>7 DEF KeyStop, server
  <1>8. ASSUME Retry
        PROVE  VinInv'
    BY <1>s, <1>8 DEF Retry, server
  <1>9. ASSUME Fault \/ GatewayServe
        PROVE  FALSE
    BY <1>9, <1>a DEF Fault, GatewayServe
  <1>10. ASSUME ClusterServe
         PROVE  VinInv'
    <2>1. requests'["cluster"] \in Seq({"vin", "FC"}) /\ DOMAIN requests' = {"cluster"}
      BY <1>10, <1>e DEF ClusterServe
    <2>2. can_rx_q' \in Seq(Entries) /\ vin_next' \in Nat
      BY <1>10, <1>c, <1>e DEF ClusterServe, VinFrames
    <2> QED
      BY <1>s, <1>10, <2>1, <2>2 DEF ClusterServe, client
  <1>11. ASSUME ClusterSendCF
         PROVE  VinInv'
    <2>1. can_rx_q' \in Seq(Entries) /\ vin_next' \in Nat
      BY <1>11, <1>c DEF ClusterSendCF, VinFrames
    <2> QED
      BY <1>s, <1>11, <2>1 DEF ClusterSendCF, client
  <1>12. ASSUME NEW id \in setup.signals, Signal(id)
         PROVE  VinInv'
    <2>1. id \in Passive
      <3>1. setup \in SetupType
        BY UdsAssumption
      <3> QED
        BY <1>12, <3>1 DEF SetupType
    <2>2. can_rx_q' \in Seq(Entries)
      BY <1>12, <2>1 DEF Signal, Entries
    <2> QED
      BY <1>s, <1>12, <2>2 DEF Signal, client, server
  <1>13. ASSUME UNCHANGED vars
         PROVE  VinInv'
    BY <1>s, <1>13 DEF vars, client, server, counts, users
  <1> QED
    BY <1>1, <1>2, <1>3, <1>4, <1>5, <1>6, <1>7, <1>8, <1>9, <1>10, <1>11, <1>12, <1>13
       DEF Next, Client

\* uds_client.c:460: each round begins with an empty receive context.  With the cluster
\* alone on the bus, read vin reported as done has decoded a whole VIN since it was given, whatever
\* earlier responses were abandoned half way, by a key or by cl_read, and whatever was lost.
THEOREM VinReportIsTrue == Spec => [](OnlyVin => VinShown)
  <1> DEFINE Inv == OnlyVin => VinInv
  <1>1. Init => Inv
    BY VinInit
  <1>2. ASSUME Inv, [Next]_vars
        PROVE  Inv'
    <2>1. setup' = setup
      BY <1>2, SetupStays
    <2> QED
      BY <1>2, <2>1, VinStep DEF OnlyVin
  <1>3. Inv => (OnlyVin => VinShown)
    BY DEF VinInv
  <1> QED
    BY <1>1, <1>2, <1>3, PTL DEF Spec

-----------------------------------------------------------------------------
(* Nothing but the gateway breaks a reassembly: with the cluster alone, and    *)
(* while no frame has been lost, every consecutive frame the client takes in   *)
(* a reassembly is the one it expects.                                         *)

\* The number of the consecutive frame that comes after the frame f.
Succ(f) == IF f.pci = "FF" THEN 1 ELSE NextSN(f.arg)

Resp(q, i) == q[i].id = "resp"

\* A consecutive frame at the place n of the queue q may have the number sn: it goes
\* on with the response in front of it, or else with the reassembly of the context c.
Continues(q, c, n, sn) ==
    /\ \A i \in 1 .. n - 1 :
          Resp(q, i) /\ (\A j \in i + 1 .. n - 1 : ~Resp(q, j)) => sn = Succ(q[i].frame)
    /\ (\A i \in 1 .. n - 1 : ~Resp(q, i)) /\ c.receiving_multi => sn = c.next_sn

\* So do all consecutive frames in the queue, and the one the cluster sends next.
QueueInSequence(q, c) ==
    \A n \in 1 .. Len(q) :
        Resp(q, n) /\ q[n].frame.pci = "CF" => Continues(q, c, n, q[n].frame.arg)

NextInSequence(q, c, k) == k # 0 => Continues(q, c, Len(q) + 1, k % SN_MOD)

InSequence ==
    QueueInSequence(can_rx_q, g_client) /\ NextInSequence(can_rx_q, g_client, vin_next)

\* A passive read, which forgets responses, has dropped every reassembly before.
SequenceInv ==
    /\ lost \in Nat /\ cl_reads \in Nat
    /\ pc = "wait" /\ cmd \in Passive => ~g_client.receiving_multi
    /\ lost = 0 => InSequence

LEMMA SequenceInit == Init => SequenceInv
  BY DEF Init, SequenceInv, InSequence, QueueInSequence, NextInSequence, Cleared

LEMMA Remainder ==
    ASSUME NEW n \in Nat \ {0}, NEW a \in Int, NEW d \in Int, NEW r \in 0 .. n - 1,
           a = n * d + r
    PROVE  a % n = r
  <1> DEFINE s == a % n
             e == a \div n - d
  <1>1. s \in 0 .. n - 1 /\ a \div n \in Int /\ a = n * (a \div n) + s
    OBVIOUS
  <1>2. e \in Int /\ n * e = r - s
    BY <1>1
  <1>3. CASE e >= 1
    <2>1. n * e >= n
      BY <1>2, <1>3
    <2> QED
      BY <1>1, <1>2, <2>1
  <1>4. CASE e <= -1
    <2>1. n * e <= 0 - n
      BY <1>2, <1>4
    <2> QED
      BY <1>1, <1>2, <2>1
  <1>5. CASE e = 0
    BY <1>1, <1>2, <1>5
  <1> QED
    BY <1>2, <1>3, <1>4, <1>5

\* The sequence number is the count of the frames modulo SN_MOD.
LEMMA NextNumber ==
    ASSUME NEW k \in Nat
    PROVE  (k + 1) % SN_MOD = NextSN(k % SN_MOD)
  <1> DEFINE r == k % SN_MOD
             d == k \div SN_MOD
  <1>1. SN_MOD \in Nat \ {0}
    BY IsoTpAssumption
  <1>2. r \in 0 .. SN_MOD - 1 /\ d \in Int /\ k = SN_MOD * d + r
    BY <1>1
  <1>3. k + 1 \in Int /\ k % SN_MOD = r
    OBVIOUS
  <1> HIDE DEF r, d
  <1>4. CASE r + 1 < SN_MOD
    <2>1. k + 1 = SN_MOD * d + (r + 1) /\ r + 1 \in 0 .. SN_MOD - 1
      BY <1>1, <1>2, <1>4
    <2>2. (k + 1) % SN_MOD = r + 1
      BY <1>1, <1>2, <1>3, <2>1, Remainder, Zenon
    <2> QED
      BY <1>3, <1>4, <2>2 DEF NextSN
  <1>5. CASE ~(r + 1 < SN_MOD)
    <2>1. r + 1 = SN_MOD
      BY <1>1, <1>2, <1>5
    <2>2. SN_MOD * (d + 1) = SN_MOD * d + SN_MOD
      BY <1>1, <1>2
    <2>3. k + 1 = SN_MOD * (d + 1) + 0 /\ d + 1 \in Int /\ 0 \in 0 .. SN_MOD - 1
      BY <1>1, <1>2, <2>1, <2>2
    <2>4. (k + 1) % SN_MOD = 0
      BY <1>1, <1>3, <2>3, Remainder, Zenon
    <2> QED
      BY <1>3, <1>5, <2>4 DEF NextSN
  <1> QED
    BY <1>4, <1>5

\* An entry is appended: a signal, or a response that continues the queue.
LEMMA AppendInSequence ==
    ASSUME NEW q \in Seq(Entries), NEW c, NEW e \in Entries, QueueInSequence(q, c),
           e.id = "resp" /\ e.frame.pci = "CF" => Continues(q, c, Len(q) + 1, e.frame.arg)
    PROVE  QueueInSequence(Append(q, e), c)
  <1> DEFINE s == Append(q, e)
  <1>1. /\ Len(q) \in Nat /\ Len(s) = Len(q) + 1 /\ s[Len(q) + 1] = e
        /\ \A i \in 1 .. Len(q) : s[i] = q[i]
    OBVIOUS
  <1>2. ASSUME NEW n \in 1 .. Len(q) + 1, NEW sn, Continues(q, c, n, sn)
        PROVE  Continues(s, c, n, sn)
    BY <1>1, <1>2 DEF Continues, Resp
  <1>3. ASSUME NEW n \in 1 .. Len(s), Resp(s, n), s[n].frame.pci = "CF"
        PROVE  Continues(s, c, n, s[n].frame.arg)
    <2>1. CASE n \in 1 .. Len(q)
      BY <1>1, <1>2, <1>3, <2>1 DEF QueueInSequence, Resp
    <2>2. CASE n = Len(q) + 1
      BY <1>1, <1>2, <1>3, <2>2 DEF Resp
    <2> QED
      BY <1>1, <2>1, <2>2
  <1> QED
    BY <1>3 DEF QueueInSequence

\* What comes next then continues the response, or what the signal stands behind.
LEMMA NextAfterAppend ==
    ASSUME NEW q \in Seq(Entries), NEW c, NEW e \in Entries, NEW sn,
           IF e.id = "resp" THEN sn = Succ(e.frame) ELSE Continues(q, c, Len(q) + 1, sn)
    PROVE  Continues(Append(q, e), c, Len(Append(q, e)) + 1, sn)
  <1> DEFINE s == Append(q, e)
             m == Len(q) + 1
  <1>1. /\ Len(q) \in Nat /\ Len(s) = m /\ s[m] = e /\ (m + 1) - 1 = m
        /\ \A i \in 1 .. Len(q) : s[i] = q[i]
    OBVIOUS
  <1>2. CASE e.id = "resp"
    <2>1. Resp(s, m)
      BY <1>1, <1>2 DEF Resp
    <2>2. \A i \in 1 .. m : (\A j \in i + 1 .. m : ~Resp(s, j)) => i = m
      BY <1>1, <2>1
    <2> QED
      BY <1>1, <1>2, <2>1, <2>2 DEF Continues
  <1>3. CASE e.id # "resp"
    <2>1. ~Resp(s, m) /\ \A i \in 1 .. Len(q) : Resp(s, i) <=> Resp(q, i)
      BY <1>1, <1>3 DEF Resp
    <2>2. ASSUME NEW i \in 1 .. m, Resp(s, i), \A j \in i + 1 .. m : ~Resp(s, j)
          PROVE  sn = Succ(s[i].frame)
      <3>1. i \in 1 .. m - 1 /\ Resp(q, i) /\ \A j \in i + 1 .. m - 1 : ~Resp(q, j)
        BY <1>1, <2>1, <2>2
      <3> QED
        BY <1>1, <1>3, <3>1 DEF Continues
    <2>3. (\A i \in 1 .. m : ~Resp(s, i)) /\ c.receiving_multi => sn = c.next_sn
      BY <1>1, <1>3, <2>1 DEF Continues
    <2> QED
      BY <1>1, <2>2, <2>3 DEF Continues
  <1> QED
    BY <1>2, <1>3

\* The first entry is taken out.  If it is a response, the reassembly that goes on expects
\* the number that comes after it; if it is a signal, the reassembly is as before.
LEMMA TailContinues ==
    ASSUME NEW q \in Seq(Entries), q # <<>>, NEW c, NEW d, NEW sn,
           NEW n \in 1 .. Len(Tail(q)) + 1, Continues(q, c, n + 1, sn),
           d.receiving_multi =>
               IF Resp(q, 1) THEN d.next_sn = Succ(q[1].frame)
                             ELSE c.receiving_multi /\ d.next_sn = c.next_sn
    PROVE  Continues(Tail(q), d, n, sn)
  <1> DEFINE t == Tail(q)
  <1>1. /\ Len(q) \in Nat \ {0} /\ Len(t) = Len(q) - 1 /\ n \in Nat \ {0}
        /\ (n + 1) - 1 = n
        /\ \A i \in 1 .. Len(t) : t[i] = q[i + 1]
    OBVIOUS
  <1>2. \A i \in 1 .. n - 1 : Resp(t, i) <=> Resp(q, i + 1)
    BY <1>1 DEF Resp
  <1>3. ASSUME NEW i \in 1 .. n - 1, Resp(t, i), \A j \in i + 1 .. n - 1 : ~Resp(t, j)
        PROVE  sn = Succ(t[i].frame)
    <2>1. i + 1 \in 1 .. n /\ Resp(q, i + 1)
      BY <1>1, <1>2, <1>3
    <2>2. ASSUME NEW j \in (i + 1) + 1 .. n
          PROVE  ~Resp(q, j)
      <3>1. j - 1 \in i + 1 .. n - 1 /\ j - 1 \in 1 .. n - 1 /\ (j - 1) + 1 = j
        BY <1>1, <2>2
      <3> QED
        BY <1>2, <1>3, <3>1
    <2>3. sn = Succ(q[i + 1].frame)
      BY <1>1, <2>1, <2>2 DEF Continues
    <2> QED
      BY <1>1, <2>3
  <1>4. ASSUME \A i \in 1 .. n - 1 : ~Resp(t, i), d.receiving_multi
        PROVE  sn = d.next_sn
    <2>1. ASSUME NEW j \in 1 + 1 .. n
          PROVE  ~Resp(q, j)
      <3>1. j - 1 \in 1 .. n - 1 /\ (j - 1) + 1 = j
        BY <1>1, <2>1
      <3> QED
        BY <1>2, <1>4, <3>1
    <2>2. CASE Resp(q, 1)
      <3>1. sn = Succ(q[1].frame)
        BY <1>1, <2>1, <2>2 DEF Continues
      <3> QED
        BY <1>4, <2>2, <3>1
    <2>3. CASE ~Resp(q, 1)
      <3>1. \A i \in 1 .. n : ~Resp(q, i)
        BY <1>1, <2>1, <2>3
      <3> QED
        BY <1>1, <1>4, <2>3, <3>1 DEF Continues
    <2> QED
      BY <2>2, <2>3
  <1> QED
    BY <1>3, <1>4 DEF Continues

LEMMA TailInSequence ==
    ASSUME NEW q \in Seq(Entries), q # <<>>, NEW c, NEW d, NEW k,
           QueueInSequence(q, c), NextInSequence(q, c, k),
           d.receiving_multi =>
               IF Resp(q, 1) THEN d.next_sn = Succ(q[1].frame)
                             ELSE c.receiving_multi /\ d.next_sn = c.next_sn
    PROVE  QueueInSequence(Tail(q), d) /\ NextInSequence(Tail(q), d, k)
  <1> DEFINE t == Tail(q)
  <1>1. /\ Len(q) \in Nat \ {0} /\ Len(t) = Len(q) - 1
        /\ \A i \in 1 .. Len(t) : t[i] = q[i + 1]
    OBVIOUS
  <1>2. ASSUME NEW n \in 1 .. Len(t), Resp(t, n), t[n].frame.pci = "CF"
        PROVE  Continues(t, d, n, t[n].frame.arg)
    <2>1. n + 1 \in 1 .. Len(q) /\ Resp(q, n + 1) /\ q[n + 1].frame = t[n].frame
      BY <1>1, <1>2 DEF Resp
    <2>2. Continues(q, c, n + 1, t[n].frame.arg)
      BY <1>2, <2>1 DEF QueueInSequence
    <2>3. n \in 1 .. Len(t) + 1
      BY <1>1
    <2> QED
      BY <2>2, <2>3, TailContinues
  <1>3. ASSUME k # 0
        PROVE  Continues(t, d, Len(t) + 1, k % SN_MOD)
    <2>1. Continues(q, c, (Len(t) + 1) + 1, k % SN_MOD)
      BY <1>1, <1>3 DEF NextInSequence
    <2>2. Len(t) + 1 \in 1 .. Len(t) + 1
      BY <1>1
    <2> QED
      BY <2>1, <2>2, TailContinues
  <1> QED
    BY <1>2, <1>3 DEF QueueInSequence, NextInSequence

\* A context that receives nothing contradicts no frame.
LEMMA IdleInSequence ==
    ASSUME NEW q, NEW c, NEW d, NEW k, QueueInSequence(q, c), NextInSequence(q, c, k),
           ~d.receiving_multi
    PROVE  QueueInSequence(q, d) /\ NextInSequence(q, d, k)
  BY DEF QueueInSequence, NextInSequence, Continues

\* What a frame of an answer to read vin leaves of the context: as long as it is the one
\* expected, only a complete response ends a reassembly.
LEMMA ExpectedFrame ==
    ASSUME NEW c, NEW f \in VinFrames, VinContext(c),
           f.pci = "CF" /\ c.receiving_multi => f.arg = c.next_sn
    PROVE  LET d == OnCanRx(c, f) IN
           /\ d.receiving_multi => d.next_sn = Succ(f)
           /\ c.receiving_multi /\ ~d.receiving_multi => d.response_complete /\ f.pci = "CF"
  <1> DEFINE d == OnCanRx(c, f)
  <1>1. CASE f = FirstFrame(VIN_OK, VIN_LEN)
    <2>1. f.pci = "FF" /\ f.arg = VIN_LEN /\ f.dlc = CF_DATA + 1
      BY <1>1 DEF FirstFrame
    <2>2. AcceptsFF(f) /\ f.dlc # 0 /\ ~(f.dlc < CF_DATA + 1)
      BY <2>1, IsoTpAssumption, UdsAssumption DEF AcceptsFF
    <2>3. d = Started(f)
      BY <2>1, <2>2 DEF OnCanRx, OnFirstFrame
    <2>4. d.receiving_multi /\ d.next_sn = 1
      BY <2>3 DEF Started
    <2> QED
      BY <2>1, <2>4 DEF Succ
  <1>2. CASE \E k \in Nat : f = ConsecutiveFrame(VIN_OK, k, CF_DATA + 1)
    <2>1. f.pci = "CF" /\ f.dlc = CF_DATA + 1 /\ f.dlc # 0
      BY <1>2, IsoTpAssumption DEF ConsecutiveFrame
    <2>2. d = OnConsecutiveFrame(c, f)
      BY <2>1 DEF OnCanRx
    <2>3. CASE ~c.receiving_multi
      BY <2>2, <2>3 DEF OnConsecutiveFrame
    <2>4. CASE c.receiving_multi
      <3>1. CopyLen(c) <= f.dlc - 1
        BY <2>1, <2>4, IsoTpAssumption DEF CopyLen, Least, VinContext
      <3>2. AcceptsCF(c, f)
        BY <2>1, <2>4, <3>1 DEF AcceptsCF
      <3>3. CASE CompletesCF(c, f)
        <4>1. d = Completed
          BY <2>2, <2>4, <3>2, <3>3 DEF OnConsecutiveFrame
        <4> QED
          BY <2>1, <4>1 DEF Completed, Cleared
      <3>4. CASE ~CompletesCF(c, f)
        <4>1. d = WithFrame(c, f)
          BY <2>2, <2>4, <3>2, <3>4 DEF OnConsecutiveFrame
        <4>2. DOMAIN c = {"rx_buf", "rx_total_len", "rx_offset", "next_sn",
                          "receiving_multi", "response_complete"}
          BY DEF VinContext, Completed, Cleared
        <4>3. d.receiving_multi = c.receiving_multi /\ d.next_sn = NextSN(c.next_sn)
          BY <4>1, <4>2 DEF WithFrame
        <4> QED
          BY <2>1, <2>4, <4>3 DEF Succ
      <3> QED
        BY <3>3, <3>4
    <2> QED
      BY <2>3, <2>4
  <1> QED
    BY <1>1, <1>2 DEF VinFrames

\* Where a reassembly ends.
ReassemblyEnds ==
    g_client.receiving_multi /\ ~g_client'.receiving_multi
    /\ lost' = 0 /\ pc # "round" /\ cl_reads' = cl_reads

ByLastFrame == g_client'.response_complete /\ Head(can_rx_q).frame.pci = "CF"

\* The frame that Receive takes: nothing is in front of it, so it is the one expected.
LEMMA ReceiveInSequence ==
    ASSUME VinInv, SequenceInv, Receive
    PROVE  SequenceInv' /\ (ReassemblyEnds => ByLastFrame)
  <1> DEFINE f == Head(can_rx_q).frame
  <1>1. /\ can_rx_q \in Seq(Entries) /\ can_rx_q # <<>> /\ can_rx_q' = Tail(can_rx_q)
        /\ Resp(can_rx_q, 1) /\ f = can_rx_q[1].frame /\ Len(can_rx_q) \in Nat \ {0}
    BY DEF VinInv, Traffic, Receive, Resp
  <1>2. f \in VinFrames
    <2>1. can_rx_q[1] \in Entries
      BY <1>1
    <2> QED
      BY <1>1, <2>1 DEF Entries, Resp, Passive
  <1>3. g_client' = OnCanRx(g_client, f)
    BY DEF Receive
  <1>4. lost' \in Nat /\ (lost' = 0 => lost = 0)
    BY DEF Receive, Transmit, MayLose, SequenceInv
  <1>5. UNCHANGED <<cmd, vin_next, cl_reads>>
    BY DEF Receive, server, users
  <1>6. pc' = "wait" /\ cmd' \in Passive => FALSE
    BY <1>5 DEF Receive
  <1>7. ASSUME lost' = 0
        PROVE  InSequence' /\ (ReassemblyEnds => ByLastFrame)
    <2>1. InSequence
      BY <1>4, <1>7 DEF SequenceInv
    <2>2. f.pci = "CF" /\ g_client.receiving_multi => f.arg = g_client.next_sn
      <3>1. f.pci = "CF" => Continues(can_rx_q, g_client, 1, f.arg)
        BY <1>1, <2>1 DEF InSequence, QueueInSequence
      <3> QED
        BY <3>1 DEF Continues
    <2>3. /\ g_client'.receiving_multi => g_client'.next_sn = Succ(f)
          /\ g_client.receiving_multi /\ ~g_client'.receiving_multi
               => g_client'.response_complete /\ f.pci = "CF"
      BY <1>2, <1>3, <2>2, ExpectedFrame DEF VinInv
    <2>4. QueueInSequence(Tail(can_rx_q), g_client')
          /\ NextInSequence(Tail(can_rx_q), g_client', vin_next)
      BY <1>1, <2>1, <2>3, TailInSequence DEF InSequence
    <2> QED
      BY <1>1, <1>5, <2>3, <2>4 DEF InSequence, ReassemblyEnds, ByLastFrame
  <1> QED
    BY <1>4, <1>5, <1>6, <1>7 DEF SequenceInv, ReassemblyEnds

\* A signal, or a response that a passive read forgets, leaves the queue.
LEMMA ForgetInSequence ==
    ASSUME VinInv, SequenceInv, can_rx_q # <<>>, can_rx_q' = Tail(can_rx_q),
           UNCHANGED <<g_client, vin_next>>,
           Head(can_rx_q).id = "resp" => ~g_client.receiving_multi, lost = 0
    PROVE  InSequence'
  <1>1. can_rx_q \in Seq(Entries) /\ InSequence /\ Head(can_rx_q) = can_rx_q[1]
    BY DEF VinInv, Traffic, SequenceInv
  <1>2. QueueInSequence(Tail(can_rx_q), g_client)
        /\ NextInSequence(Tail(can_rx_q), g_client, vin_next)
    BY <1>1, TailInSequence DEF InSequence, Resp
  <1> QED
    BY <1>2 DEF InSequence

\* A new entry is what the queue and the cluster's place in its answer call for.
LEMMA PutInSequence ==
    ASSUME VinInv, InSequence, NEW e \in Entries, can_rx_q' = Append(can_rx_q, e),
           UNCHANGED g_client,
           e.id = "resp" /\ e.frame.pci = "CF"
             => vin_next # 0 /\ e.frame.arg = vin_next % SN_MOD,
           IF e.id = "resp" THEN vin_next' # 0 => vin_next' % SN_MOD = Succ(e.frame)
                            ELSE vin_next' = vin_next
    PROVE  InSequence'
  <1>1. can_rx_q \in Seq(Entries)
    BY DEF VinInv, Traffic
  <1>2. QueueInSequence(Append(can_rx_q, e), g_client)
    BY <1>1, AppendInSequence DEF InSequence, NextInSequence
  <1>3. ASSUME vin_next' # 0
        PROVE  Continues(Append(can_rx_q, e), g_client, Len(Append(can_rx_q, e)) + 1,
                         vin_next' % SN_MOD)
    BY <1>1, <1>3, NextAfterAppend DEF InSequence, NextInSequence
  <1> QED
    BY <1>2, <1>3 DEF InSequence, NextInSequence

LEMMA SequenceStep ==
    ASSUME VinInv, OnlyVin, SequenceInv, [Next]_vars
    PROVE  SequenceInv' /\ (ReassemblyEnds => ByLastFrame)
  <1>a. Servers = {"cluster"} /\ lost \in Nat /\ cl_reads \in Nat
    BY DEF OnlyVin, Servers, SequenceInv
  <1>b. ASSUME NEW r, Transmit(r)
        PROVE  lost' \in Nat /\ (lost' = 0 => lost = 0)
    BY <1>a, <1>b DEF Transmit, MayLose
  <1>c. ASSUME NEW f, Answer(f)
        PROVE  /\ lost' \in Nat
               /\ lost' = 0 => lost = 0 /\ can_rx_q' = Append(can_rx_q, [id |-> "resp", frame |-> f])
    BY <1>a, <1>c DEF Answer, MayLose
  <1>k. vin_next \in Nat
    BY DEF VinInv, Traffic
  <1>1. ASSUME NEW c \in setup.commands, Start(c)
        PROVE  SequenceInv' /\ ~ReassemblyEnds
    BY <1>1, <1>a DEF Start, server, SequenceInv, InSequence, ReassemblyEnds
  <1>2. ASSUME NEW c \in setup.commands, ClRead(c)
        PROVE  SequenceInv' /\ ~ReassemblyEnds
    <2>1. ~g_client'.receiving_multi /\ cl_reads' = cl_reads + 1
          /\ UNCHANGED <<pc, cmd, can_rx_q, vin_next>> /\ pc = "idle"
      BY <1>2 DEF ClRead, reset_rx_state, Cleared, server
    <2>2. lost' \in Nat /\ (lost' = 0 => lost = 0)
      BY <1>2, <1>b DEF ClRead
    <2> QED
      BY <1>a, <2>1, <2>2, IdleInSequence DEF SequenceInv, InSequence, ReassemblyEnds
  <1>3. ASSUME Round
        PROVE  SequenceInv' /\ ~ReassemblyEnds
    <2>1. ~g_client'.receiving_multi /\ pc = "round" /\ UNCHANGED <<can_rx_q, vin_next, cl_reads>>
      BY <1>3 DEF Round, reset_rx_state, Cleared, server, users
    <2>2. lost' \in Nat /\ (lost' = 0 => lost = 0)
      BY <1>3, <1>a, <1>b DEF Round, SendRequest
    <2> QED
      BY <1>a, <2>1, <2>2, IdleInSequence DEF SequenceInv, InSequence, ReassemblyEnds
  <1>4. ASSUME Receive
        PROVE  SequenceInv' /\ (ReassemblyEnds => ByLastFrame)
    BY <1>4, ReceiveInSequence
  <1>5. ASSUME Listen \/ Ignore
        PROVE  SequenceInv' /\ ~ReassemblyEnds
    <2>1. /\ can_rx_q # <<>> /\ can_rx_q' = Tail(can_rx_q)
          /\ UNCHANGED <<g_client, vin_next, lost, cl_reads>>
          /\ pc' = "wait" => pc = "wait" /\ cmd' = cmd
      BY <1>5 DEF Listen, Ignore, client, server, counts, users
    <2>2. Head(can_rx_q).id = "resp" => ~g_client.receiving_multi
      BY <1>5 DEF Listen, Ignore, Wanted, SequenceInv, Passive
    <2>3. lost = 0 => InSequence'
      BY <2>1, <2>2, ForgetInSequence
    <2> QED
      BY <1>a, <2>1, <2>3 DEF SequenceInv, ReassemblyEnds
  <1>6. ASSUME KeyStop \/ Retry
        PROVE  SequenceInv' /\ ~ReassemblyEnds
    BY <1>6, <1>a DEF KeyStop, Retry, server, counts, users, SequenceInv, InSequence, ReassemblyEnds
  <1>7. ASSUME Fault \/ GatewayServe
        PROVE  FALSE
    BY <1>7, <1>a DEF Fault, GatewayServe
  <1>8. ASSUME ClusterServe
        PROVE  SequenceInv' /\ ~ReassemblyEnds
    <2>1. UNCHANGED <<pc, cmd, g_client, cl_reads>>
      BY <1>8 DEF ClusterServe, client, users
    <2>2. CASE /\ vin_next' = 1 /\ Answer(FirstFrame(VIN_OK, VIN_LEN))
      <3> DEFINE e == [id |-> "resp", frame |-> FirstFrame(VIN_OK, VIN_LEN)]
      <3>1. e \in Entries /\ e.frame.pci = "FF" /\ e.id = "resp"
        BY DEF Entries, VinFrames, FirstFrame
      <3>2. 1 % SN_MOD = 1
        BY IsoTpAssumption
      <3>3. lost' \in Nat /\ (lost' = 0 => lost = 0 /\ can_rx_q' = Append(can_rx_q, e))
        BY <1>c, <2>2
      <3>4. Succ(e.frame) = 1
        BY <3>1 DEF Succ
      <3>5. ASSUME lost' = 0
            PROVE  InSequence'
        BY <2>1, <2>2, <3>1, <3>2, <3>3, <3>4, <3>5, PutInSequence DEF SequenceInv
      <3> QED
        BY <1>a, <2>1, <3>3, <3>5 DEF SequenceInv, ReassemblyEnds
    <2>3. CASE UNCHANGED <<vin_next, can_rx_q, lost>>
      BY <1>a, <2>1, <2>3 DEF SequenceInv, InSequence, ReassemblyEnds
    <2>4. Head(requests["cluster"]) \in {"vin", "FC"}
      BY <1>8 DEF ClusterServe, VinInv, Traffic
    <2> QED
      BY <1>8, <2>2, <2>3, <2>4 DEF ClusterServe
  <1>9. ASSUME ClusterSendCF
        PROVE  SequenceInv' /\ ~ReassemblyEnds
    <2> DEFINE g == ConsecutiveFrame(VIN_OK, vin_next, CF_DATA + 1)
               e == [id |-> "resp", frame |-> g]
    <2>1. UNCHANGED <<pc, cmd, g_client, cl_reads>> /\ vin_next # 0
          /\ vin_next' \in {0, vin_next + 1}
      BY <1>9 DEF ClusterSendCF, client, users
    <2>2. g.pci = "CF" /\ g.arg = vin_next % SN_MOD /\ g \in VinFrames
      BY <1>k DEF ConsecutiveFrame, VinFrames
    <2>3. e \in Entries /\ e.id = "resp" /\ e.frame = g
      BY <2>2 DEF Entries
    <2>4. lost' \in Nat /\ (lost' = 0 => lost = 0 /\ can_rx_q' = Append(can_rx_q, e))
      BY <1>9, <1>c DEF ClusterSendCF
    <2>5. vin_next' # 0 => vin_next' % SN_MOD = Succ(g)
      BY <1>k, <2>1, <2>2, NextNumber DEF Succ
    <2>6. ASSUME lost' = 0
          PROVE  InSequence'
      <3> HIDE DEF e, g
      <3>1. lost = 0 /\ InSequence /\ can_rx_q' = Append(can_rx_q, e) /\ UNCHANGED g_client
        BY <2>1, <2>4, <2>6 DEF SequenceInv
      <3> QED
        BY <2>1, <2>2, <2>3, <2>5, <3>1, PutInSequence
    <2> QED
      BY <1>a, <2>1, <2>4, <2>6 DEF SequenceInv, ReassemblyEnds
  <1>10. ASSUME NEW id \in setup.signals, Signal(id)
         PROVE  SequenceInv' /\ ~ReassemblyEnds
    <2> DEFINE e == [id |-> id]
    <2>1. id \in Passive
      <3>1. setup \in SetupType
        BY UdsAssumption DEF VinInv
      <3> QED
        BY <1>10, <3>1 DEF SetupType
    <2>2. e \in Entries /\ e.id # "resp"
      BY <2>1 DEF Entries, Passive
    <2>3. /\ can_rx_q' = Append(can_rx_q, e)
          /\ UNCHANGED <<pc, cmd, g_client, vin_next, lost, cl_reads>>
      BY <1>10 DEF Signal, client, server, counts, users
    <2>4. ASSUME lost = 0
          PROVE  InSequence'
      <3> HIDE DEF e
      <3> QED
        BY <2>2, <2>3, <2>4, PutInSequence DEF SequenceInv
    <2> QED
      BY <1>a, <2>3, <2>4 DEF SequenceInv, ReassemblyEnds
  <1>11. ASSUME UNCHANGED vars
         PROVE  SequenceInv' /\ ~ReassemblyEnds
    BY <1>11, <1>a DEF vars, client, server, counts, users, SequenceInv, InSequence, ReassemblyEnds
  <1> QED
    BY <1>1, <1>2, <1>3, <1>4, <1>5, <1>6, <1>7, <1>8, <1>9, <1>10, <1>11 DEF Next, Client

\* README_AUTO_FLOW_CONTROL.txt:25-37 holds when the cluster alone answers: a reassembly ends
\* by its last consecutive frame only, whatever keys, cl_read and passive reads come between the
\* commands.  It is the gateway's answer to the flow control frame that breaks it.
THEOREM ReassemblyCompletes == Spec /\ OnlyVin => MultiFrameCompletes
  <1>1. Init /\ OnlyVin => OnlyVin /\ VinInv /\ SequenceInv
    BY VinInit, SequenceInit
  <1>2. ASSUME OnlyVin, VinInv, SequenceInv, [Next]_vars
        PROVE  (OnlyVin /\ VinInv /\ SequenceInv)'
    <2>1. OnlyVin'
      BY <1>2, SetupStays DEF OnlyVin
    <2> QED
      BY <1>2, <2>1, VinStep, SequenceStep
  <1>3. ASSUME OnlyVin, VinInv, SequenceInv, [Next]_vars
        PROVE  [ReassemblyEnds => ByLastFrame]_vars
    BY <1>3, SequenceStep
  <1>4. MultiFrameCompletes <=> [][ReassemblyEnds => ByLastFrame]_vars
    BY DEF MultiFrameCompletes, ReassemblyEnds, ByLastFrame
  <1> QED
    BY <1>1, <1>2, <1>3, <1>4, PTL DEF Spec
=============================================================================
