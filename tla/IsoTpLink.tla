----------------------------- MODULE IsoTpLink -----------------------------
(***************************************************************************)
(* The receiver of IsoTp on the other end of a CAN line: the instrument    *)
(* cluster (external) answers requests with single frames or with a first  *)
(* frame and, once flow control has come, consecutive frames.  Frames wait *)
(* in the client's can_rx_q in the order of the bus; CAN retransmission is *)
(* off and a full queue drops (common/can_bsp.c:147), so any frame may be  *)
(* lost.  The client may start a new request at any moment (a key, the 3   *)
(* second retry), which abandons what it was receiving.                    *)
(***************************************************************************)
EXTENDS IsoTpFrames, Sequences

CONSTANTS
    Lengths,     \* the lengths of the cluster's responses
    MaxMsgs,     \* bound: how many responses the cluster starts
    MaxLost,     \* bound: how many frames are lost
    MaxResets,   \* bound: how many requests the client starts
    MaxQueue     \* bound: how many frames are under way at a time

ASSUME LinkAssumption ==
    /\ Lengths \subseteq Nat \ {0}
    /\ MaxMsgs \in Nat /\ MaxLost \in Nat /\ MaxResets \in Nat /\ MaxQueue \in Nat

NoPayload == [len |-> 0, bytes |-> [i \in Index |-> NoByte]]

VARIABLES
    g_client,    \* the receive context of the client
    decoded,     \* the payload decode_uds_payload got last
    net,         \* the frames under way to the client
    msg, len,    \* the cluster: the number of its response and its length
    next,        \* the cluster: the next consecutive frame, 0 when it is not sending
    cts,         \* the cluster: flow control has come
    lost, resets \* how many frames were lost and requests started

client  == <<g_client, decoded>>
cluster == <<msg, len, next, cts>>
vars    == <<client, net, cluster, lost, resets>>

-----------------------------------------------------------------------------
(* The cluster, which sends the frames of IsoTpFrames. *)

Put(f) == Len(net) < MaxQueue /\ net' = Append(net, f)

\* The cluster starts on a response, also when the last one was never completed.
Respond(n) ==
    /\ msg < MaxMsgs
    /\ msg' = msg + 1 /\ len' = n /\ cts' = FALSE
    /\ IF n <= CF_DATA
       THEN next' = 0 /\ \E dlc \in Dlcs(n) : Put(SingleFrame(msg + 1, n, dlc))
       ELSE next' = 1 /\ Put(FirstFrame(msg + 1, n))
    /\ UNCHANGED <<client, lost, resets>>

SendCF ==
    /\ next # 0 /\ cts
    /\ \E dlc \in Dlcs(len - Sent(next)) : Put(ConsecutiveFrame(msg, next, dlc))
    /\ next' = IF Sent(next + 1) >= len THEN 0 ELSE next + 1
    /\ UNCHANGED <<client, msg, len, cts, lost, resets>>

-----------------------------------------------------------------------------
(* The line and the client. *)

Lose ==
    /\ net # <<>> /\ lost < MaxLost
    /\ net' = Tail(net) /\ lost' = lost + 1
    /\ UNCHANGED <<client, cluster, resets>>

\* send_flow_control_cts answers an accepted first frame; what CAN_BSP_Send
\* returns is ignored, so the flow control frame may also be lost.
FlowControl(f) ==
    IF ~WantsFlowControl(f) \/ next = 0 THEN UNCHANGED <<cts, lost>>
    ELSE \/ cts' = TRUE /\ UNCHANGED lost
         \/ lost < MaxLost /\ lost' = lost + 1 /\ UNCHANGED cts

Receive ==
    /\ net # <<>>
    /\ LET f == Head(net) IN
       /\ g_client' = OnCanRx(g_client, f)
       /\ decoded' = IF Completes(g_client, f) THEN Payload(g_client, f) ELSE decoded
       /\ FlowControl(f)
    /\ net' = Tail(net)
    /\ UNCHANGED <<msg, len, next, resets>>

\* UDS_Client_ReadDID, UDS_Client_ClearDtc, the top of a diagnostic round, or
\* UDS_Client_SetTarget.
Reset ==
    /\ resets < MaxResets
    /\ g_client' = reset_rx_state(g_client)
    /\ resets' = resets + 1
    /\ UNCHANGED <<decoded, net, cluster, lost>>

Init ==
    /\ g_client = Cleared(FALSE)
    /\ decoded = NoPayload
    /\ net = <<>>
    /\ msg = 0 /\ len = 0 /\ next = 0 /\ cts = FALSE
    /\ lost = 0 /\ resets = 0

Next == (\E n \in Lengths : Respond(n)) \/ SendCF \/ Lose \/ Receive \/ Reset

Spec == Init /\ [][Next]_vars

\* The cluster goes on sending and the client's command loop goes on reading its
\* queue (ap_main.c:50, uds_client.c:479); nothing obliges the line to lose a
\* frame, the cluster to answer or the user to ask again.
FairSpec == Spec /\ WF_vars(SendCF) /\ WF_vars(Receive)

-----------------------------------------------------------------------------
(* Properties. *)

\* Between two frames the receive context is consistent: offset, buffer and
\* sequence number describe the same prefix of a payload that fits rx_buf, and
\* nothing is left over from a finished or abandoned response.
ContextConsistent == ContextOK(g_client)

\* A payload that is decoded has each byte in its place, whatever was lost: the
\* sequence numbers let no gap through as long as no response of the cluster has
\* enough consecutive frames to wrap them.
BytesInPlace == \A i \in 1 .. decoded.len : decoded.bytes[i][2] = i

\* While no frame was lost a decoded payload is one response of the cluster and
\* no mixture of two, although a response is given up when the next one starts.
\* (When the first frame of a response is lost its consecutive frames can go on
\* with the reassembly of the one before.)
NoMixtureWithoutLoss ==
    lost = 0 => \A i, j \in 1 .. decoded.len : decoded.bytes[i][1] = decoded.bytes[j][1]

\* Nothing lost and no new request: the last response the cluster starts, if it
\* fits rx_buf, is received completely in the end.
LastResponseDecoded ==
    \A m \in 1 .. MaxMsgs :
        (msg = m /\ len <= MAX_LEN /\ lost = 0 /\ resets = 0)
            ~> \/ decoded.len = len /\ decoded.bytes[1][1] = msg
               \/ msg # m \/ lost # 0 \/ resets # 0

=============================================================================
