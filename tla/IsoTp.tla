------------------------------- MODULE IsoTp -------------------------------
(***************************************************************************)
(* Board C, uds_client.c: the receiving half of ISO-TP, as operators on    *)
(* the client's receive context.  UDS_Client_OnCanRx takes one frame of    *)
(* the response id and reassembles single frames (SF) and first frames     *)
(* with their consecutive frames (FF, CF) into a payload.                  *)
(*                                                                         *)
(* The sizes are parameters.  In the code a frame carries CF_DATA = 7      *)
(* bytes after its PCI byte, a first frame FF_DATA = 6, the sequence       *)
(* number is a nibble (SN_MOD = 16) and rx_buf has MAX_LEN = 64 bytes.     *)
(***************************************************************************)
EXTENDS Integers

CONSTANTS MAX_LEN, FF_DATA, CF_DATA, SN_MOD

ASSUME IsoTpAssumption ==
    /\ MAX_LEN \in Nat /\ FF_DATA \in Nat \ {0} /\ CF_DATA \in Nat \ {0}
    /\ SN_MOD \in Nat \ {0, 1}
    /\ FF_DATA <= CF_DATA /\ FF_DATA <= MAX_LEN

\* A byte is a position in a message; 0 is the zero of memset.
Byte == Nat \X Nat
NoByte == <<0, 0>>
Index == 1 .. MAX_LEN

\* A frame of the response id: its type, what the low bits of the PCI say (the
\* length of a SF or FF, the sequence number of a CF), its DLC, and its data.
Frame == [pci : {"SF", "FF", "CF", "FC", "unknown"}, arg : Nat,
          dlc : 0 .. CF_DATA + 1, data : [1 .. CF_DATA -> Byte]]

\* The part of UDS_ClientContext_t that OnCanRx works on.
Context == [rx_buf : [Index -> Byte], rx_total_len : 0 .. MAX_LEN,
            rx_offset : 0 .. MAX_LEN, next_sn : 0 .. SN_MOD - 1,
            receiving_multi : BOOLEAN, response_complete : BOOLEAN]

Least(a, b) == IF a <= b THEN a ELSE b

\* The bytes of a long payload that come before its k-th consecutive frame.
Sent(k) == FF_DATA + CF_DATA * (k - 1)

\* The payloads that fit the buffer need fewer consecutive frames than there are
\* sequence numbers (64 <= 6 + 7 * 15 in the code).
FramesFit == MAX_LEN <= Sent(SN_MOD)

-----------------------------------------------------------------------------

\* The context with no reassembly going on.
Cleared(complete) ==
    [rx_buf |-> [i \in Index |-> NoByte], rx_total_len |-> 0, rx_offset |-> 0,
     next_sn |-> 1, receiving_multi |-> FALSE, response_complete |-> complete]

reset_isotp_rx_state(c) == Cleared(c.response_complete)

reset_rx_state(c) == Cleared(FALSE)

\* The end of a response: response_complete is set, then reset_isotp_rx_state.
Completed == Cleared(TRUE)

\* memcpy(&rx_buf[offset], data, len).
CopyInto(buf, offset, data, len) ==
    [i \in Index |-> IF offset < i /\ i <= offset + len THEN data[i - offset] ELSE buf[i]]

ValidSF(f) == f.arg # 0 /\ f.arg <= CF_DATA /\ f.arg <= f.dlc - 1

OnSingleFrame(c, f) ==
    IF ValidSF(f) THEN Completed ELSE c

\* A first frame restarts the reassembly, whatever was going on.
AcceptsFFTooLong(f) == f.dlc = CF_DATA + 1 /\ f.arg # 0
AcceptsFF(f) == f.dlc = CF_DATA + 1 /\ f.arg # 0 /\ f.arg <= MAX_LEN

\* The reassembly after an accepted first frame.
Started(f) ==
    LET copy_len == Least(f.arg, FF_DATA)
    IN  [rx_buf |-> CopyInto([i \in Index |-> NoByte], 0, f.data, copy_len),
         rx_total_len |-> f.arg, rx_offset |-> copy_len, next_sn |-> 1,
         receiving_multi |-> TRUE, response_complete |-> FALSE]

OnFirstFrameWhenIdle(c, f) ==
    IF c.receiving_multi \/ ~AcceptsFF(f) THEN c ELSE Started(f)

OnFirstFrame(c, f) ==
    IF f.dlc < CF_DATA + 1 THEN c
    ELSE IF AcceptsFF(f) THEN Started(f)
    ELSE reset_rx_state(c)

NextSN(sn) == IF sn + 1 < SN_MOD THEN sn + 1 ELSE 0

CopyLen(c) == Least(c.rx_total_len - c.rx_offset, CF_DATA)

AcceptsCFAtLeastSN(c, f) == f.arg >= c.next_sn /\ CopyLen(c) <= f.dlc - 1
AcceptsCF(c, f) == f.arg = c.next_sn /\ CopyLen(c) <= f.dlc - 1

\* The bytes of the consecutive frame f appended to those received so far.
WithFrame(c, f) ==
    [c EXCEPT !.rx_buf = CopyInto(@, c.rx_offset, f.data, CopyLen(c)),
              !.rx_offset = @ + CopyLen(c),
              !.next_sn = NextSN(@)]

CompletesCF(c, f) ==
    c.receiving_multi /\ AcceptsCF(c, f) /\ c.rx_offset + CopyLen(c) >= c.rx_total_len

\* Outside a reassembly the frame is ignored; one that does not fit ends it.
OnConsecutiveFrame(c, f) ==
    IF ~c.receiving_multi THEN c
    ELSE IF ~AcceptsCF(c, f) THEN reset_rx_state(c)
    ELSE IF CompletesCF(c, f) THEN Completed
    ELSE WithFrame(c, f)

\* UDS_Client_OnCanRx, for a frame of the response id.  A flow control frame and
\* an unknown PCI type change nothing, and so does an empty frame.
OnCanRx(c, f) ==
    IF f.dlc = 0 THEN c
    ELSE CASE f.pci = "SF" -> OnSingleFrame(c, f)
           [] f.pci = "FF" -> OnFirstFrame(c, f)
           [] f.pci = "CF" -> OnConsecutiveFrame(c, f)
           [] OTHER -> c

\* Whether the frame makes the client send a flow control frame.
WantsFlowControl(f) == f.pci = "FF" /\ AcceptsFF(f)

\* Whether the frame completes a response, and the payload then given to
\* decode_uds_payload: its bytes and their number.
Completes(c, f) ==
    /\ f.dlc # 0
    /\ \/ f.pci = "SF" /\ ValidSF(f)
       \/ f.pci = "CF" /\ CompletesCF(c, f)

Payload(c, f) ==
    IF f.pci = "SF"
    THEN [len |-> f.arg, bytes |-> CopyInto([i \in Index |-> NoByte], 0, f.data, f.arg)]
    ELSE [len |-> c.rx_total_len, bytes |-> WithFrame(c, f).rx_buf]

-----------------------------------------------------------------------------

\* What holds of the context between two frames.  While a payload is being
\* received the offset is the one the expected sequence number stands for, the
\* buffer holds what was copied and zeroes behind it, and the sequence number has
\* not wrapped; otherwise the context is cleared.
ContextOK(c) ==
    /\ c \in Context
    /\ c.receiving_multi =>
         /\ c.rx_total_len # 0 /\ c.next_sn # 0
         /\ c.rx_offset = Least(c.rx_total_len, Sent(c.next_sn))
         /\ \A i \in Index : i > c.rx_offset => c.rx_buf[i] = NoByte
         /\ c.next_sn = 1 \/ c.rx_offset < c.rx_total_len
    /\ ~c.receiving_multi => c = Cleared(c.response_complete)

=============================================================================
