-------------------------- MODULE IsoTpLink_proofs --------------------------
(***************************************************************************)
(* Theorems about the ISO-TP receiver of Board C (IsoTp) on a lossy line   *)
(* (IsoTpLink), for every size of frame, buffer and sequence number.       *)
(***************************************************************************)
EXTENDS IsoTpLink, TLAPS

-----------------------------------------------------------------------------
(* Arithmetic. *)

LEMMA LeastType ==
    ASSUME NEW a \in Int, NEW b \in Int
    PROVE  /\ Least(a, b) \in Int /\ Least(a, b) <= a /\ Least(a, b) <= b
           /\ Least(a, b) = a \/ Least(a, b) = b
  BY DEF Least

\* The bytes before the k-th consecutive frame.
LEMMA SentFacts ==
    ASSUME NEW k \in Nat \ {0}
    PROVE  /\ Sent(k) \in Nat /\ Sent(k) >= FF_DATA
           /\ Sent(1) = FF_DATA
           /\ Sent(k + 1) = Sent(k) + CF_DATA
  <1>1. CF_DATA * (k - 1) \in Nat
    BY IsoTpAssumption
  <1>2. CF_DATA * ((k + 1) - 1) = CF_DATA * (k - 1) + CF_DATA
    BY IsoTpAssumption
  <1>3. CF_DATA * (1 - 1) = 0
    BY IsoTpAssumption
  <1> QED
    BY <1>1, <1>2, <1>3, IsoTpAssumption DEF Sent

-----------------------------------------------------------------------------
(* The operators of the receiver keep the context consistent. *)

LEMMA CopyIntoType ==
    ASSUME NEW buf \in [Index -> Byte], NEW data \in [1 .. CF_DATA -> Byte],
           NEW offset \in Nat, NEW n \in Nat, n <= CF_DATA
    PROVE  CopyInto(buf, offset, data, n) \in [Index -> Byte]
  <1>1. ASSUME NEW i \in Index, offset < i, i <= offset + n
        PROVE  data[i - offset] \in Byte
    <2>1. i - offset \in 1 .. CF_DATA
      BY <1>1, IsoTpAssumption DEF Index
    <2> QED BY <2>1
  <1> QED BY <1>1 DEF CopyInto

LEMMA ClearedOK ==
    ASSUME NEW complete \in BOOLEAN
    PROVE  ContextOK(Cleared(complete))
  <1>1. NoByte \in Byte
    BY DEF NoByte, Byte
  <1> QED
    BY <1>1, IsoTpAssumption DEF ContextOK, Context, Cleared

LEMMA SingleFrameOK ==
    ASSUME NEW c, ContextOK(c), NEW f \in Frame
    PROVE  ContextOK(OnSingleFrame(c, f))
  BY ClearedOK DEF OnSingleFrame, Completed

LEMMA FirstFrameOK ==
    ASSUME NEW c, ContextOK(c), NEW f \in Frame
    PROVE  ContextOK(OnFirstFrame(c, f))
  <1>1. CASE ~(~(f.dlc < CF_DATA + 1) /\ AcceptsFF(f))
    BY <1>1, ClearedOK DEF OnFirstFrame, reset_rx_state
  <1>2. CASE ~(f.dlc < CF_DATA + 1) /\ AcceptsFF(f)
    <2> DEFINE n == Least(f.arg, FF_DATA)
               zero == [i \in Index |-> NoByte]
               buf == CopyInto(zero, 0, f.data, n)
               d == [rx_buf |-> buf, rx_total_len |-> f.arg, rx_offset |-> n, next_sn |-> 1,
                     receiving_multi |-> TRUE, response_complete |-> FALSE]
    <2>1. OnFirstFrame(c, f) = d
      BY <1>2 DEF OnFirstFrame, Started
    <2>2. f.arg \in 1 .. MAX_LEN /\ f.data \in [1 .. CF_DATA -> Byte]
      BY <1>2, IsoTpAssumption DEF AcceptsFF, Frame
    <2>3. n \in 0 .. MAX_LEN /\ n <= CF_DATA
      BY <2>2, IsoTpAssumption DEF Least
    <2>4. zero \in [Index -> Byte]
      BY DEF NoByte, Byte
    <2>5. buf \in [Index -> Byte]
      BY <2>2, <2>3, <2>4, CopyIntoType
    <2>6. n = Least(f.arg, Sent(1))
      BY SentFacts
    <2>7. ASSUME NEW i \in Index, i > n
          PROVE  buf[i] = NoByte
      BY <2>3, <2>7 DEF CopyInto, Index
    <2> HIDE DEF n, buf
    <2>8. d \in Context
      BY <2>2, <2>3, <2>5, IsoTpAssumption DEF Context
    <2>9. ContextOK(d)
      BY <2>2, <2>6, <2>7, <2>8 DEF ContextOK
    <2> QED
      BY <2>1, <2>9
  <1> QED BY <1>1, <1>2

LEMMA ConsecutiveFrameOK ==
    ASSUME FramesFit, NEW c, ContextOK(c), NEW f \in Frame
    PROVE  ContextOK(OnConsecutiveFrame(c, f))
  <1> DEFINE n == CopyLen(c)
             off == c.rx_offset
             sn == c.next_sn
             buf == CopyInto(c.rx_buf, off, f.data, n)
             d == WithFrame(c, f)
  <1>1. CASE ~(c.receiving_multi /\ AcceptsCF(c, f) /\ ~CompletesCF(c, f))
    BY <1>1, ClearedOK DEF OnConsecutiveFrame, reset_rx_state, Completed
  <1>2. CASE c.receiving_multi /\ AcceptsCF(c, f) /\ ~CompletesCF(c, f)
    <2>1. OnConsecutiveFrame(c, f) = d
      BY <1>2 DEF OnConsecutiveFrame
    <2>2. /\ c \in Context /\ c.rx_total_len # 0 /\ sn # 0
          /\ off = Least(c.rx_total_len, Sent(sn))
          /\ \A i \in Index : i > off => c.rx_buf[i] = NoByte
      BY <1>2 DEF ContextOK
    <2>3. /\ c.rx_total_len \in 1 .. MAX_LEN /\ off \in 0 .. MAX_LEN
          /\ sn \in 1 .. SN_MOD - 1
      BY <2>2, IsoTpAssumption DEF Context
    <2>4. n \in Int /\ n = Least(c.rx_total_len - off, CF_DATA)
      BY <2>3, IsoTpAssumption DEF CopyLen, Least
    <2>5. off + n < c.rx_total_len
      BY <1>2, <2>3, <2>4 DEF CompletesCF
    <2>6. n = CF_DATA
      BY <2>3, <2>4, <2>5, IsoTpAssumption DEF Least
    <2>7. Sent(sn) \in Nat /\ Sent(sn + 1) = Sent(sn) + CF_DATA
      BY <2>3, SentFacts
    <2>8. off = Sent(sn)
      BY <2>2, <2>3, <2>5, <2>6, <2>7, IsoTpAssumption DEF Least
    <2>9. off + n = Sent(sn + 1)
      BY <2>6, <2>7, <2>8
    <2>10. sn + 1 \in 2 .. SN_MOD - 1
      <3>1. SUFFICES sn + 1 # SN_MOD
        BY <2>3, IsoTpAssumption
      <3>2. SUFFICES ASSUME sn + 1 = SN_MOD PROVE FALSE
        OBVIOUS
      <3>3. MAX_LEN <= off + n
        BY <2>9, <3>2 DEF FramesFit
      <3> QED
        BY <2>3, <2>4, <2>5, <3>3, IsoTpAssumption
    <2>11. buf \in [Index -> Byte]
      BY <2>2, <2>3, <2>6, IsoTpAssumption, CopyIntoType DEF Context, Frame
    <2>12. d = [c EXCEPT !.rx_buf = buf, !.rx_offset = off + n, !.next_sn = sn + 1]
      <3>1. NextSN(c.next_sn) = sn + 1
        BY <2>3, <2>10, IsoTpAssumption DEF NextSN
      <3> QED
        BY <3>1 DEF WithFrame
    <2>13. ASSUME NEW i \in Index, i > off + n
           PROVE  buf[i] = NoByte
      BY <2>2, <2>3, <2>6, <2>13, IsoTpAssumption DEF CopyInto, Index
    <2> HIDE DEF n, off, sn, buf, d
    <2>14. off + n \in 0 .. MAX_LEN
      BY <2>3, <2>4, <2>5, <2>6, IsoTpAssumption
    <2>15. sn + 1 \in 0 .. SN_MOD - 1
      BY <2>10
    <2>16. /\ d \in Context /\ d.rx_buf = buf /\ d.rx_offset = off + n /\ d.next_sn = sn + 1
           /\ d.rx_total_len = c.rx_total_len /\ d.receiving_multi = c.receiving_multi
      <3>1. c \in Context
        BY <2>2
      <3> QED
        BY <3>1, <2>11, <2>12, <2>14, <2>15 DEF Context
    <2>17. off + n = Least(c.rx_total_len, Sent(sn + 1))
      BY <2>3, <2>5, <2>9, <2>14 DEF Least
    <2> QED
      BY <1>2, <2>1, <2>2, <2>5, <2>10, <2>13, <2>16, <2>17 DEF ContextOK
  <1> QED BY <1>1, <1>2

LEMMA OnCanRxOK ==
    ASSUME FramesFit, NEW c, ContextOK(c), NEW f \in Frame
    PROVE  ContextOK(OnCanRx(c, f))
  BY SingleFrameOK, FirstFrameOK, ConsecutiveFrameOK DEF OnCanRx

-----------------------------------------------------------------------------
(* The frames of the sender. *)

\* While the cluster has consecutive frames to send the next one is not empty.
NextFrameOK == next # 0 => Sent(next) < len

LEMMA DataType ==
    ASSUME NEW m \in Nat, NEW from \in Nat
    PROVE  Data(m, from) \in [1 .. CF_DATA -> Byte]
  BY IsoTpAssumption DEF Data, Byte

LEMMA DlcsType ==
    ASSUME NEW n \in Nat \ {0}
    PROVE  Dlcs(n) \subseteq 0 .. CF_DATA + 1
  <1>1. Least(CF_DATA, n) \in 0 .. CF_DATA
    BY IsoTpAssumption DEF Least
  <1> QED
    BY <1>1, IsoTpAssumption DEF Dlcs

LEMMA SenderFrames ==
    ASSUME NEW m \in Nat, NEW n \in Nat \ {0}
    PROVE  /\ \A dlc \in Dlcs(n) : SingleFrame(m, n, dlc) \in Frame
           /\ FirstFrame(m, n) \in Frame
  <1>1. Data(m, 0) \in [1 .. CF_DATA -> Byte]
    BY DataType
  <1>2. CF_DATA + 1 \in 0 .. CF_DATA + 1
    BY IsoTpAssumption
  <1> QED
    BY <1>1, <1>2, DlcsType DEF SingleFrame, FirstFrame, Frame

LEMMA SenderConsecutiveFrames ==
    ASSUME NEW m \in Nat, NEW k \in Nat \ {0}, NEW dlc \in 0 .. CF_DATA + 1
    PROVE  ConsecutiveFrame(m, k, dlc) \in Frame
  <1>1. Sent(k) \in Nat
    BY SentFacts
  <1>2. Data(m, Sent(k)) \in [1 .. CF_DATA -> Byte]
    BY <1>1, DataType
  <1>3. k % SN_MOD \in Nat
    BY IsoTpAssumption
  <1> QED
    BY <1>2, <1>3 DEF ConsecutiveFrame, Frame

-----------------------------------------------------------------------------
(* The inductive invariant: the context is consistent, and what is under way *)
(* are frames.                                                               *)

LinkInv ==
    /\ net \in Seq(Frame)
    /\ msg \in Nat /\ len \in Nat /\ next \in Nat
    /\ NextFrameOK
    /\ ContextConsistent

LEMMA LinkInit == Init => LinkInv
  <1> SUFFICES ASSUME Init PROVE LinkInv
    OBVIOUS
  <1>1. ContextConsistent
    BY ClearedOK DEF Init, ContextConsistent
  <1>2. net \in Seq(Frame) /\ NextFrameOK
    BY DEF Init, NextFrameOK
  <1> QED
    BY <1>1, <1>2 DEF Init, LinkInv

LEMMA PutType ==
    ASSUME net \in Seq(Frame), NEW f \in Frame, Put(f)
    PROVE  net' \in Seq(Frame)
  BY DEF Put

LEMMA LinkStep ==
    ASSUME FramesFit, LinkInv, [Next]_vars
    PROVE  LinkInv'
  <1> USE DEF LinkInv, NextFrameOK, ContextConsistent
  <1>1. ASSUME NEW n \in Lengths, Respond(n)
        PROVE  LinkInv'
    <2>1. n \in Nat \ {0} /\ msg + 1 \in Nat
      BY LinkAssumption
    <2>2. net' \in Seq(Frame)
      BY <1>1, <2>1, SenderFrames, PutType DEF Respond
    <2>3. msg' \in Nat /\ len' \in Nat /\ next' \in Nat
      BY <1>1, <2>1 DEF Respond
    <2>4. NextFrameOK'
      BY <1>1, <2>1, SentFacts, IsoTpAssumption DEF Respond
    <2> QED
      BY <1>1, <2>2, <2>3, <2>4 DEF Respond, client
  <1>2. ASSUME SendCF
        PROVE  LinkInv'
    <2>1. next \in Nat \ {0} /\ Sent(next) \in Nat /\ Sent(next) < len
      BY <1>2, SentFacts DEF SendCF
    <2>2. len - Sent(next) \in Nat \ {0}
      BY <2>1
    <2>3. net' \in Seq(Frame)
      BY <1>2, <2>1, <2>2, DlcsType, SenderConsecutiveFrames, PutType DEF SendCF
    <2>4. next' \in Nat /\ NextFrameOK'
      BY <1>2, <2>1, SentFacts DEF SendCF
    <2> QED
      BY <1>2, <2>3, <2>4 DEF SendCF, client
  <1>3. ASSUME Lose
        PROVE  LinkInv'
    BY <1>3 DEF Lose, client, cluster
  <1>4. ASSUME Receive
        PROVE  LinkInv'
    <2>1. Head(net) \in Frame /\ net' \in Seq(Frame)
      BY <1>4 DEF Receive
    <2>2. ContextOK(g_client')
      BY <1>4, <2>1, OnCanRxOK DEF Receive
    <2> QED
      BY <1>4, <2>1, <2>2 DEF Receive
  <1>5. ASSUME Reset
        PROVE  LinkInv'
    BY <1>5, ClearedOK DEF Reset, reset_rx_state, cluster
  <1>6. ASSUME UNCHANGED vars
        PROVE  LinkInv'
    BY <1>6 DEF vars, client, cluster
  <1> QED
    BY <1>1, <1>2, <1>3, <1>4, <1>5, <1>6 DEF Next

\* The receive context is consistent between any two frames, whatever was lost,
\* given up or asked again, when a payload that fits rx_buf needs fewer
\* consecutive frames than there are sequence numbers, as 64 <= 6 + 7 * 15 in
\* UDS_Client_OnCanRx.
THEOREM ContextIsConsistent ==
    ASSUME FramesFit
    PROVE  Spec => []ContextConsistent
  <1>1. LinkInv => ContextConsistent
    BY DEF LinkInv
  <1> QED
    BY <1>1, LinkInit, LinkStep, PTL DEF Spec

-----------------------------------------------------------------------------
(* The bytes of a decoded payload.  A consecutive frame names its place by its *)
(* sequence number alone, so no response may have enough of them to wrap it.   *)

\* A single frame fits the buffer, and no response has more than SN_MOD consecutive
\* frames, the last of which has number 0, which is never expected: 7 <= 64, and a
\* response has at most 6 + 7 * 16 = 118 bytes.
NumbersNamePlaces ==
    CF_DATA <= MAX_LEN /\ \A n \in Lengths : n <= Sent(SN_MOD + 1)

\* The bytes of a frame have the positions its type and sequence number say.
FrameInPlace(f) ==
    /\ f.pci \in {"SF", "FF"} => \A j \in 1 .. CF_DATA : f.data[j][2] = j
    /\ f.pci = "CF" /\ f.arg # 0 =>
         \A j \in 1 .. CF_DATA : f.data[j][2] = Sent(f.arg) + j

PrefixInPlace(c) ==
    c.receiving_multi => \A i \in Index : i <= c.rx_offset => c.rx_buf[i][2] = i

InPlaceInv ==
    /\ \A i \in 1 .. Len(net) : FrameInPlace(net[i])
    /\ next # 0 => len <= Sent(SN_MOD + 1)
    /\ PrefixInPlace(g_client)
    /\ BytesInPlace

\* Copying behind a prefix that is in place makes the prefix longer.
LEMMA CopyInPlace ==
    ASSUME NEW buf, NEW data, NEW offset \in Nat, NEW n \in Nat, n <= CF_DATA,
           \A i \in Index : i <= offset => buf[i][2] = i,
           \A j \in 1 .. CF_DATA : data[j][2] = offset + j
    PROVE  \A i \in Index :
               i <= offset + n => CopyInto(buf, offset, data, n)[i][2] = i
  <1> SUFFICES ASSUME NEW i \in Index, i <= offset + n
               PROVE  CopyInto(buf, offset, data, n)[i][2] = i
    OBVIOUS
  <1>1. i \in Nat \ {0}
    BY IsoTpAssumption DEF Index
  <1>2. CASE i <= offset
    <2>1. CopyInto(buf, offset, data, n)[i] = buf[i]
      BY <1>1, <1>2 DEF CopyInto
    <2> QED BY <1>2, <2>1
  <1>3. CASE i > offset
    <2>1. i - offset \in 1 .. CF_DATA
      BY <1>1, <1>3, IsoTpAssumption
    <2>2. CopyInto(buf, offset, data, n)[i] = data[i - offset]
      BY <1>1, <1>3 DEF CopyInto
    <2>3. data[i - offset][2] = offset + (i - offset)
      BY <2>1
    <2> QED BY <1>1, <2>2, <2>3
  <1> QED BY <1>1, <1>2, <1>3

\* An accepted consecutive frame goes where its sequence number says.
LEMMA FrameContinues ==
    ASSUME NEW c, ContextOK(c), PrefixInPlace(c), NEW f \in Frame, FrameInPlace(f),
           f.pci = "CF", c.receiving_multi, AcceptsCF(c, f)
    PROVE  /\ c.rx_offset \in Nat /\ CopyLen(c) \in Nat
           /\ \A i \in Index :
                i <= c.rx_offset + CopyLen(c) => WithFrame(c, f).rx_buf[i][2] = i
  <1> DEFINE n == CopyLen(c)
             off == c.rx_offset
             buf == CopyInto(c.rx_buf, off, f.data, n)
  <1>1. /\ c.rx_total_len \in 0 .. MAX_LEN /\ off \in 0 .. MAX_LEN
        /\ c.next_sn \in 1 .. SN_MOD - 1 /\ off = Least(c.rx_total_len, Sent(c.next_sn))
    BY IsoTpAssumption DEF ContextOK, Context
  <1>2. Sent(c.next_sn) \in Nat
    BY <1>1, SentFacts
  <1>3. n \in Nat /\ n <= CF_DATA /\ n <= c.rx_total_len - off
    BY <1>1, <1>2, IsoTpAssumption DEF CopyLen, Least
  <1>4. WithFrame(c, f).rx_buf = buf
    BY DEF WithFrame, ContextOK, Context
  <1>5. \A i \in Index : i <= off => c.rx_buf[i][2] = i
    BY DEF PrefixInPlace
  <1>6. CASE off = c.rx_total_len
    <2>1. n = 0
      BY <1>1, <1>3, <1>6
    <2>2. ASSUME NEW i \in Index, i <= off + n
          PROVE  buf[i][2] = i
      <3>1. i \in Nat /\ i <= off
        BY <1>1, <2>1, <2>2 DEF Index
      <3>2. buf[i] = c.rx_buf[i]
        BY <1>1, <3>1 DEF CopyInto
      <3> QED BY <1>5, <3>1, <3>2
    <2> QED BY <1>1, <1>3, <1>4, <2>2
  <1>7. CASE off # c.rx_total_len
    <2>1. off = Sent(c.next_sn) /\ f.arg = c.next_sn
      BY <1>1, <1>2, <1>7 DEF Least, AcceptsCF
    <2>2. \A j \in 1 .. CF_DATA : f.data[j][2] = off + j
      BY <1>1, <2>1 DEF FrameInPlace
    <2>3. off \in Nat
      BY <1>1
    <2> HIDE DEF n, off
    <2>4. \A i \in Index : i <= off + n => buf[i][2] = i
      BY <1>3, <1>5, <2>2, <2>3, CopyInPlace
    <2> QED BY <1>3, <1>4, <2>3, <2>4 DEF n, off
  <1> QED BY <1>6, <1>7

LEMMA ReceiveInPlace ==
    ASSUME NEW c, ContextOK(c), PrefixInPlace(c), NEW f \in Frame, FrameInPlace(f)
    PROVE  PrefixInPlace(OnCanRx(c, f))
  <1>1. ASSUME NEW complete
        PROVE  PrefixInPlace(Cleared(complete))
    BY DEF PrefixInPlace, Cleared
  <1>2. ASSUME f.pci = "SF"
        PROVE  PrefixInPlace(OnSingleFrame(c, f))
    BY <1>1 DEF OnSingleFrame, Completed
  <1>3. ASSUME f.pci = "FF"
        PROVE  PrefixInPlace(OnFirstFrame(c, f))
    <2>1. CASE ~(~(f.dlc < CF_DATA + 1) /\ AcceptsFF(f))
      BY <1>1, <2>1 DEF OnFirstFrame, reset_rx_state
    <2>2. CASE ~(f.dlc < CF_DATA + 1) /\ AcceptsFF(f)
      <3> DEFINE n == Least(f.arg, FF_DATA)
                 zero == [i \in Index |-> NoByte]
                 buf == CopyInto(zero, 0, f.data, n)
      <3>1. /\ OnFirstFrame(c, f).rx_buf = buf
            /\ OnFirstFrame(c, f).rx_offset = n
        BY <2>2 DEF OnFirstFrame, Started
      <3>2. n \in Nat /\ n <= CF_DATA
        BY <2>2, IsoTpAssumption DEF Least, AcceptsFF, Frame
      <3>3. \A j \in 1 .. CF_DATA : f.data[j][2] = 0 + j
        BY <1>3, IsoTpAssumption DEF FrameInPlace
      <3>4. \A i \in Index : i <= 0 => zero[i][2] = i
        BY DEF Index
      <3> HIDE DEF n, zero
      <3>5. \A i \in Index : i <= 0 + n => buf[i][2] = i
        BY <3>2, <3>3, <3>4, CopyInPlace
      <3>6. 0 + n = n
        BY <3>2
      <3> QED BY <3>1, <3>5, <3>6 DEF PrefixInPlace
    <2> QED BY <2>1, <2>2
  <1>4. ASSUME f.pci = "CF"
        PROVE  PrefixInPlace(OnConsecutiveFrame(c, f))
    <2>1. CASE ~(c.receiving_multi /\ AcceptsCF(c, f) /\ ~CompletesCF(c, f))
      BY <1>1, <2>1 DEF OnConsecutiveFrame, reset_rx_state, Completed
    <2>2. CASE c.receiving_multi /\ AcceptsCF(c, f) /\ ~CompletesCF(c, f)
      <3>1. OnConsecutiveFrame(c, f) = WithFrame(c, f)
        BY <2>2 DEF OnConsecutiveFrame
      <3>2. WithFrame(c, f).rx_offset = c.rx_offset + CopyLen(c)
        BY DEF WithFrame, ContextOK, Context
      <3> QED BY <1>4, <2>2, <3>1, <3>2, FrameContinues DEF PrefixInPlace
    <2> QED BY <2>1, <2>2
  <1> QED
    BY <1>2, <1>3, <1>4 DEF OnCanRx

\* What a completing frame hands to the decoder.
LEMMA PayloadInPlace ==
    ASSUME CF_DATA <= MAX_LEN, NEW c, ContextOK(c), PrefixInPlace(c),
           NEW f \in Frame, FrameInPlace(f), Completes(c, f)
    PROVE  \A i \in 1 .. Payload(c, f).len : Payload(c, f).bytes[i][2] = i
  <1>1. CASE f.pci = "SF"
    <2> DEFINE zero == [i \in Index |-> NoByte]
               buf == CopyInto(zero, 0, f.data, f.arg)
    <2>1. Payload(c, f).len = f.arg /\ Payload(c, f).bytes = buf
      BY <1>1 DEF Payload
    <2>2. f.arg \in Nat /\ f.arg <= CF_DATA
      BY <1>1 DEF Completes, ValidSF, Frame
    <2>3. \A j \in 1 .. CF_DATA : f.data[j][2] = 0 + j
      BY <1>1, IsoTpAssumption DEF FrameInPlace
    <2>4. \A i \in Index : i <= 0 => zero[i][2] = i
      BY DEF Index
    <2> HIDE DEF zero
    <2>5. \A i \in Index : i <= 0 + f.arg => buf[i][2] = i
      BY <2>2, <2>3, <2>4, CopyInPlace
    <2>6. \A i \in 1 .. f.arg : i \in Index /\ i <= 0 + f.arg
      BY <2>2, IsoTpAssumption DEF Index
    <2> QED BY <2>1, <2>5, <2>6
  <1>2. CASE f.pci # "SF"
    <2>1. f.pci = "CF" /\ c.receiving_multi /\ AcceptsCF(c, f)
          /\ c.rx_offset + CopyLen(c) >= c.rx_total_len
      BY <1>2 DEF Completes, CompletesCF
    <2>2. c.rx_total_len \in 0 .. MAX_LEN
      BY DEF ContextOK, Context
    <2>3. /\ c.rx_offset \in Nat /\ CopyLen(c) \in Nat
          /\ \A i \in Index :
               i <= c.rx_offset + CopyLen(c) => WithFrame(c, f).rx_buf[i][2] = i
      BY <2>1, FrameContinues
    <2>4. \A i \in 1 .. c.rx_total_len : i \in Index /\ i <= c.rx_offset + CopyLen(c)
      BY <2>1, <2>2, <2>3, IsoTpAssumption DEF Index
    <2>5. Payload(c, f).len = c.rx_total_len /\ Payload(c, f).bytes = WithFrame(c, f).rx_buf
      BY <1>2 DEF Payload
    <2> QED BY <2>3, <2>4, <2>5
  <1> QED BY <1>1, <1>2

LEMMA SentIsMonotone ==
    ASSUME NEW k \in Nat \ {0}, Sent(k) < Sent(SN_MOD + 1)
    PROVE  k <= SN_MOD
  <1> DEFINE m == SN_MOD + 1
  <1> SUFFICES ASSUME k >= m PROVE FALSE
    BY IsoTpAssumption
  <1>1. CF_DATA * (k - m) >= 0
    BY IsoTpAssumption
  <1>2. CF_DATA * (k - 1) = CF_DATA * (k - m) + CF_DATA * (m - 1)
    BY IsoTpAssumption
  <1>3. CF_DATA * (k - 1) \in Int /\ CF_DATA * (m - 1) \in Int /\ CF_DATA * (k - m) \in Int
    BY IsoTpAssumption
  <1> QED
    BY <1>1, <1>2, <1>3, IsoTpAssumption DEF Sent

\* The frames of the sender are in place.
LEMMA SenderInPlace ==
    ASSUME NEW m \in Nat, NEW n
    PROVE  /\ \A dlc : FrameInPlace(SingleFrame(m, n, dlc))
           /\ FrameInPlace(FirstFrame(m, n))
  BY IsoTpAssumption DEF FrameInPlace, SingleFrame, FirstFrame, Data

LEMMA SenderConsecutiveInPlace ==
    ASSUME NEW m \in Nat, NEW k \in 1 .. SN_MOD, NEW dlc
    PROVE  FrameInPlace(ConsecutiveFrame(m, k, dlc))
  <1>1. k % SN_MOD = IF k = SN_MOD THEN 0 ELSE k
    BY IsoTpAssumption
  <1> QED
    BY <1>1, IsoTpAssumption DEF FrameInPlace, ConsecutiveFrame, Data

LEMMA PutInPlace ==
    ASSUME net \in Seq(Frame), \A i \in 1 .. Len(net) : FrameInPlace(net[i]),
           NEW f \in Frame, FrameInPlace(f), Put(f)
    PROVE  \A i \in 1 .. Len(net') : FrameInPlace(net'[i])
  <1>1. net' = Append(net, f)
    BY DEF Put
  <1>2. Len(net') = Len(net) + 1
    BY <1>1
  <1>3. ASSUME NEW i \in 1 .. Len(net) + 1
        PROVE  net'[i] = IF i = Len(net) + 1 THEN f ELSE net[i]
    BY <1>1
  <1> QED
    BY <1>2, <1>3

LEMMA TailInPlace ==
    ASSUME net \in Seq(Frame), \A i \in 1 .. Len(net) : FrameInPlace(net[i]),
           net # <<>>, net' = Tail(net)
    PROVE  \A i \in 1 .. Len(net') : FrameInPlace(net'[i])
  <1>1. Len(net') = Len(net) - 1 /\ Len(net) \in Nat
    OBVIOUS
  <1>2. \A i \in 1 .. Len(net) - 1 : net'[i] = net[i + 1]
    OBVIOUS
  <1>3. \A i \in 1 .. Len(net) - 1 : i + 1 \in 1 .. Len(net)
    BY <1>1
  <1> QED
    BY <1>1, <1>2, <1>3

LEMMA InPlaceInit == Init => InPlaceInv
  <1> SUFFICES ASSUME Init PROVE InPlaceInv
    OBVIOUS
  <1>1. BytesInPlace
    BY DEF Init, BytesInPlace, NoPayload
  <1> QED
    BY <1>1 DEF Init, InPlaceInv, PrefixInPlace, Cleared

LEMMA InPlaceStep ==
    ASSUME FramesFit, NumbersNamePlaces, LinkInv, InPlaceInv, [Next]_vars
    PROVE  InPlaceInv'
  <1> USE DEF InPlaceInv
  <1>1. ASSUME NEW n \in Lengths, Respond(n)
        PROVE  InPlaceInv'
    <2>1. n \in Nat \ {0} /\ msg + 1 \in Nat /\ net \in Seq(Frame)
      BY LinkAssumption DEF LinkInv
    <2>2. \A i \in 1 .. Len(net') : FrameInPlace(net'[i])
      BY <1>1, <2>1, SenderFrames, SenderInPlace, PutInPlace DEF Respond
    <2>3. len' <= Sent(SN_MOD + 1)
      BY <1>1 DEF Respond, NumbersNamePlaces
    <2>4. UNCHANGED <<g_client, decoded>>
      BY <1>1 DEF Respond, client
    <2> QED
      BY <2>2, <2>3, <2>4 DEF BytesInPlace, PrefixInPlace
  <1>2. ASSUME SendCF
        PROVE  InPlaceInv'
    <2>1. /\ next \in Nat \ {0} /\ Sent(next) \in Nat /\ Sent(next) < len
          /\ msg \in Nat /\ len \in Nat /\ net \in Seq(Frame)
      BY <1>2, SentFacts DEF SendCF, LinkInv, NextFrameOK
    <2>2. next \in 1 .. SN_MOD
      <3>1. Sent(SN_MOD + 1) \in Nat
        BY SentFacts, IsoTpAssumption
      <3> QED
        BY <2>1, <3>1, SentIsMonotone, IsoTpAssumption
    <2>3. PICK dlc \in Dlcs(len - Sent(next)) : Put(ConsecutiveFrame(msg, next, dlc))
      BY <1>2 DEF SendCF
    <2>4. dlc \in 0 .. CF_DATA + 1
      BY <2>1, <2>3, DlcsType
    <2>5. ConsecutiveFrame(msg, next, dlc) \in Frame
      BY <2>1, <2>4, SenderConsecutiveFrames
    <2>6. \A i \in 1 .. Len(net') : FrameInPlace(net'[i])
      BY <2>1, <2>2, <2>3, <2>5, SenderConsecutiveInPlace, PutInPlace
    <2>7. UNCHANGED <<g_client, decoded, len>>
      BY <1>2 DEF SendCF, client
    <2> QED
      BY <2>1, <2>6, <2>7 DEF BytesInPlace, PrefixInPlace
  <1>3. ASSUME Lose
        PROVE  InPlaceInv'
    <2>1. \A i \in 1 .. Len(net') : FrameInPlace(net'[i])
      BY <1>3, TailInPlace DEF Lose, LinkInv
    <2> QED
      BY <1>3, <2>1 DEF Lose, client, cluster, BytesInPlace, PrefixInPlace
  <1>4. ASSUME Receive
        PROVE  InPlaceInv'
    <2> DEFINE f == Head(net)
    <2>1. \A i \in 1 .. Len(net') : FrameInPlace(net'[i])
      BY <1>4, TailInPlace DEF Receive, LinkInv
    <2>2. f \in Frame /\ FrameInPlace(f)
      <3>1. net \in Seq(Frame) /\ net # <<>>
        BY <1>4 DEF Receive, LinkInv
      <3>2. f = net[1] /\ 1 \in 1 .. Len(net) /\ f \in Frame
        BY <3>1
      <3> QED
        BY <3>2
    <2>3. ContextOK(g_client)
      BY DEF LinkInv, ContextConsistent
    <2>4. PrefixInPlace(g_client)'
      <3>1. PrefixInPlace(OnCanRx(g_client, f))
        BY <2>2, <2>3, ReceiveInPlace
      <3>2. g_client' = OnCanRx(g_client, f)
        BY <1>4 DEF Receive
      <3> QED
        BY <3>1, <3>2 DEF PrefixInPlace
    <2>5. BytesInPlace'
      <3>1. CASE Completes(g_client, f)
        <4>1. decoded' = Payload(g_client, f)
          BY <1>4, <3>1 DEF Receive
        <4> QED
          BY <2>2, <2>3, <3>1, <4>1, PayloadInPlace DEF BytesInPlace, NumbersNamePlaces
      <3>2. CASE ~Completes(g_client, f)
        BY <1>4, <3>2 DEF Receive, BytesInPlace
      <3> QED BY <3>1, <3>2
    <2> QED
      BY <1>4, <2>1, <2>4, <2>5 DEF Receive
  <1>5. ASSUME Reset
        PROVE  InPlaceInv'
    BY <1>5 DEF Reset, reset_rx_state, Cleared, cluster, BytesInPlace, PrefixInPlace
  <1>6. ASSUME UNCHANGED vars
        PROVE  InPlaceInv'
    BY <1>6 DEF vars, client, cluster, BytesInPlace, PrefixInPlace
  <1> QED
    BY <1>1, <1>2, <1>3, <1>4, <1>5, <1>6 DEF Next

\* Each byte of a decoded payload is in its place, whatever frames were lost and
\* whatever responses were given up, as long as no response has enough
\* consecutive frames to use a sequence number twice: UDS_Client_OnCanRx checks
\* the sequence number only.
THEOREM PayloadsAreInPlace ==
    ASSUME FramesFit, NumbersNamePlaces
    PROVE  Spec => []BytesInPlace
  <1>1. LinkInv /\ InPlaceInv => BytesInPlace
    BY DEF InPlaceInv
  <1>2. Init => LinkInv /\ InPlaceInv
    BY LinkInit, InPlaceInit
  <1>3. LinkInv /\ InPlaceInv /\ [Next]_vars => (LinkInv /\ InPlaceInv)'
    BY LinkStep, InPlaceStep
  <1> QED
    BY <1>1, <1>2, <1>3, PTL DEF Spec

-----------------------------------------------------------------------------
(* While no frame is lost a decoded payload is one response.  The frames under *)
(* way are in the order of their responses, and a consecutive frame is either  *)
(* behind the first frame of its response or next in line with the reassembly. *)

\* The response a frame belongs to.
ResponseOf(f) == f.data[1][1]

WholeFrame(f) ==
    /\ \A j \in 1 .. CF_DATA : f.data[j][1] = ResponseOf(f)
    /\ f.pci = "FF" => f.dlc = CF_DATA + 1
    /\ ResponseOf(f) \in Nat

\* What comes i-th on the line, as a consecutive frame of response m, does not go
\* on with the reassembly of another response.
Announced(c, q, m, i) ==
    \/ \E j \in 1 .. i - 1 : q[j].pci = "FF" /\ ResponseOf(q[j]) = m
    \/ /\ \A j \in 1 .. i - 1 : ResponseOf(q[j]) = m
       /\ c.receiving_multi => c.rx_buf[1][1] = m

\* Nothing on the line is from a later response than what follows it.
LineOrdered(q) ==
    \A i, j \in 1 .. Len(q) : i <= j => ResponseOf(q[i]) <= ResponseOf(q[j])

LineAnnounced(c, q) ==
    \A i \in 1 .. Len(q) : q[i].pci = "CF" => Announced(c, q, ResponseOf(q[i]), i)

PrefixOfOne(c) ==
    c.receiving_multi =>
        \A i \in Index : i <= c.rx_offset => c.rx_buf[i][1] = c.rx_buf[1][1]

NoLossInv ==
    /\ LineOrdered(net)
    /\ \A i \in 1 .. Len(net) : ResponseOf(net[i]) <= msg
    /\ LineAnnounced(g_client, net)
    /\ next # 0 => Announced(g_client, net, msg, Len(net) + 1)
    /\ PrefixOfOne(g_client)

ResponsesInv ==
    /\ lost \in Nat
    /\ \A i \in 1 .. Len(net) : WholeFrame(net[i])
    /\ lost = 0 => NoLossInv
    /\ NoMixtureWithoutLoss

\* Copying bytes of the same response behind a prefix of it.
LEMMA CopyOfOne ==
    ASSUME NEW buf, NEW data, NEW offset \in Nat, NEW n \in Nat, n <= CF_DATA,
           \A i \in Index : i <= offset => buf[i][1] = data[1][1],
           \A j \in 1 .. CF_DATA : data[j][1] = data[1][1]
    PROVE  \A i \in Index :
               i <= offset + n => CopyInto(buf, offset, data, n)[i][1] = data[1][1]
  <1> SUFFICES ASSUME NEW i \in Index, i <= offset + n
               PROVE  CopyInto(buf, offset, data, n)[i][1] = data[1][1]
    OBVIOUS
  <1>1. i \in Nat \ {0}
    BY IsoTpAssumption DEF Index
  <1>2. CASE i <= offset
    <2>1. CopyInto(buf, offset, data, n)[i] = buf[i]
      BY <1>1, <1>2 DEF CopyInto
    <2> QED BY <1>2, <2>1
  <1>3. CASE i > offset
    <2>1. i - offset \in 1 .. CF_DATA
      BY <1>1, <1>3, IsoTpAssumption
    <2>2. CopyInto(buf, offset, data, n)[i] = data[i - offset]
      BY <1>1, <1>3 DEF CopyInto
    <2> QED BY <2>1, <2>2
  <1> QED BY <1>1, <1>2, <1>3

\* An accepted consecutive frame of the response under reassembly.
LEMMA FrameContinuesOne ==
    ASSUME NEW c, ContextOK(c), PrefixOfOne(c), NEW f \in Frame, WholeFrame(f),
           c.receiving_multi, c.rx_buf[1][1] = ResponseOf(f)
    PROVE  /\ 1 \in Index /\ c.rx_offset \in Nat \ {0} /\ CopyLen(c) \in Nat
           /\ WithFrame(c, f).rx_offset = c.rx_offset + CopyLen(c)
           /\ \A i \in Index :
                i <= c.rx_offset + CopyLen(c) => WithFrame(c, f).rx_buf[i][1] = ResponseOf(f)
  <1>1. /\ c.rx_total_len \in 1 .. MAX_LEN /\ c.rx_offset \in 0 .. MAX_LEN
        /\ c.next_sn \in 1 .. SN_MOD - 1 /\ c.rx_offset = Least(c.rx_total_len, Sent(c.next_sn))
    BY IsoTpAssumption DEF ContextOK, Context
  <1>2. Sent(c.next_sn) \in Nat /\ Sent(c.next_sn) >= FF_DATA
    BY <1>1, SentFacts
  <1>3. 1 \in Index /\ c.rx_offset \in Nat \ {0}
    BY <1>1, <1>2, IsoTpAssumption DEF Least, Index
  <1>4. CopyLen(c) \in Nat /\ CopyLen(c) <= CF_DATA
    BY <1>1, <1>2, IsoTpAssumption DEF CopyLen, Least
  <1>5. /\ WithFrame(c, f).rx_buf = CopyInto(c.rx_buf, c.rx_offset, f.data, CopyLen(c))
        /\ WithFrame(c, f).rx_offset = c.rx_offset + CopyLen(c)
    BY DEF WithFrame, ContextOK, Context
  <1>6. \A i \in Index : i <= c.rx_offset => c.rx_buf[i][1] = ResponseOf(f)
    BY DEF PrefixOfOne
  <1>7. \A j \in 1 .. CF_DATA : f.data[j][1] = ResponseOf(f)
    BY DEF WholeFrame
  <1>8. ASSUME NEW i \in Index, i <= c.rx_offset + CopyLen(c)
        PROVE  WithFrame(c, f).rx_buf[i][1] = ResponseOf(f)
    <2>1. i \in Nat \ {0} /\ c.rx_offset \in Nat
      BY <1>3, IsoTpAssumption DEF Index
    <2>2. CASE i <= c.rx_offset
      <3>1. WithFrame(c, f).rx_buf[i] = c.rx_buf[i]
        BY <1>5, <2>1, <2>2 DEF CopyInto
      <3> QED BY <1>6, <2>2, <3>1
    <2>3. CASE i > c.rx_offset
      <3>1. i - c.rx_offset \in 1 .. CF_DATA
        BY <1>4, <1>8, <2>1, <2>3, IsoTpAssumption
      <3>2. WithFrame(c, f).rx_buf[i] = f.data[i - c.rx_offset]
        BY <1>5, <1>8, <2>1, <2>3 DEF CopyInto
      <3> QED BY <1>7, <3>1, <3>2
    <2> QED BY <1>3, <2>1, <2>2, <2>3
  <1> QED
    BY <1>3, <1>4, <1>5, <1>8

\* What a frame makes of a reassembly of one response: the bytes are of one
\* response still, that of a first frame or the one they were of.
LEMMA ReceiveOne ==
    ASSUME NEW c, ContextOK(c), PrefixOfOne(c), NEW f \in Frame, WholeFrame(f),
           f.pci = "CF" /\ c.receiving_multi => c.rx_buf[1][1] = ResponseOf(f)
    PROVE  /\ PrefixOfOne(OnCanRx(c, f))
           /\ OnCanRx(c, f).receiving_multi =>
                IF f.pci = "FF" THEN OnCanRx(c, f).rx_buf[1][1] = ResponseOf(f)
                ELSE /\ c.receiving_multi
                     /\ OnCanRx(c, f).rx_buf[1][1] = c.rx_buf[1][1]
  <1> DEFINE Goal(d) ==
               /\ PrefixOfOne(d)
               /\ d.receiving_multi =>
                    IF f.pci = "FF" THEN d.rx_buf[1][1] = ResponseOf(f)
                    ELSE c.receiving_multi /\ d.rx_buf[1][1] = c.rx_buf[1][1]
  <1>1. ASSUME NEW complete
        PROVE  Goal(Cleared(complete))
    BY DEF PrefixOfOne, Cleared
  <1>2. ASSUME f.pci # "FF"
        PROVE  Goal(c)
    BY <1>2
  <1>3. ASSUME f.pci = "SF"
        PROVE  Goal(OnSingleFrame(c, f))
    BY <1>1, <1>2, <1>3 DEF OnSingleFrame, Completed
  <1>4. ASSUME f.pci = "FF"
        PROVE  f.dlc # 0 /\ Goal(OnFirstFrame(c, f))
    <2>1. f.dlc = CF_DATA + 1 /\ f.dlc # 0 /\ ~(f.dlc < CF_DATA + 1)
      BY <1>4, IsoTpAssumption DEF WholeFrame
    <2>2. CASE ~AcceptsFF(f)
      BY <1>1, <2>1, <2>2 DEF OnFirstFrame, reset_rx_state
    <2>3. CASE AcceptsFF(f)
      <3> DEFINE n == Least(f.arg, FF_DATA)
                 zero == [i \in Index |-> NoByte]
                 buf == CopyInto(zero, 0, f.data, n)
      <3>1. /\ OnFirstFrame(c, f).rx_buf = buf
            /\ OnFirstFrame(c, f).rx_offset = n
        BY <2>1, <2>3 DEF OnFirstFrame, Started
      <3>2. n \in Nat \ {0} /\ n <= CF_DATA /\ 1 \in Index
        BY <2>3, IsoTpAssumption DEF Least, AcceptsFF, Frame, Index
      <3>3. \A j \in 1 .. CF_DATA : f.data[j][1] = ResponseOf(f)
        BY DEF WholeFrame
      <3>4. \A i \in Index : i <= 0 => zero[i][1] = ResponseOf(f)
        BY DEF Index
      <3>5. n \in Nat
        BY <3>2
      <3> HIDE DEF n, zero
      <3>6. \A i \in Index : i <= 0 + n => buf[i][1] = ResponseOf(f)
        BY <3>2, <3>3, <3>4, <3>5, CopyOfOne DEF ResponseOf
      <3>7. 0 + n = n /\ 1 <= n
        BY <3>2
      <3>8. buf[1][1] = ResponseOf(f)
        BY <3>2, <3>6, <3>7
      <3> QED BY <1>4, <2>1, <3>1, <3>6, <3>7, <3>8 DEF PrefixOfOne
    <2> QED BY <2>1, <2>2, <2>3
  <1>5. ASSUME f.pci = "CF"
        PROVE  Goal(OnConsecutiveFrame(c, f))
    <2>1. CASE ~(c.receiving_multi /\ AcceptsCF(c, f) /\ ~CompletesCF(c, f))
      BY <1>1, <1>2, <1>5, <2>1 DEF OnConsecutiveFrame, reset_rx_state, Completed
    <2>2. CASE c.receiving_multi /\ AcceptsCF(c, f) /\ ~CompletesCF(c, f)
      <3>1. OnConsecutiveFrame(c, f) = WithFrame(c, f)
        BY <2>2 DEF OnConsecutiveFrame
      <3>2. c.rx_buf[1][1] = ResponseOf(f)
        BY <1>5, <2>2
      <3>3. /\ 1 \in Index /\ c.rx_offset \in Nat \ {0} /\ CopyLen(c) \in Nat
            /\ WithFrame(c, f).rx_offset = c.rx_offset + CopyLen(c)
            /\ \A i \in Index : i <= c.rx_offset + CopyLen(c) =>
                 WithFrame(c, f).rx_buf[i][1] = ResponseOf(f)
        BY <2>2, <3>2, FrameContinuesOne
      <3>4. 1 <= c.rx_offset + CopyLen(c)
        BY <3>3
      <3>5. WithFrame(c, f).rx_buf[1][1] = ResponseOf(f)
        BY <3>3, <3>4
      <3> QED
        BY <1>5, <2>2, <3>1, <3>2, <3>3, <3>5 DEF PrefixOfOne
    <2> QED BY <2>1, <2>2
  <1>6. Goal(OnCanRx(c, f))
    <2>1. CASE f.dlc = 0
      BY <1>2, <1>4, <2>1 DEF OnCanRx
    <2>2. CASE f.dlc # 0
      BY <1>2, <1>3, <1>4, <1>5, <2>2 DEF OnCanRx
    <2> QED BY <2>1, <2>2
  <1> QED
    BY <1>6

\* What a completing frame hands to the decoder is of the frame's response.
LEMMA PayloadOfOne ==
    ASSUME CF_DATA <= MAX_LEN, NEW c, ContextOK(c), PrefixOfOne(c), NEW f \in Frame,
           WholeFrame(f), Completes(c, f),
           f.pci = "CF" /\ c.receiving_multi => c.rx_buf[1][1] = ResponseOf(f)
    PROVE  \A i \in 1 .. Payload(c, f).len : Payload(c, f).bytes[i][1] = ResponseOf(f)
  <1>1. CASE f.pci = "SF"
    <2> DEFINE zero == [i \in Index |-> NoByte]
               buf == CopyInto(zero, 0, f.data, f.arg)
    <2>1. Payload(c, f).len = f.arg /\ Payload(c, f).bytes = buf
      BY <1>1 DEF Payload
    <2>2. f.arg \in Nat /\ f.arg <= CF_DATA
      BY <1>1 DEF Completes, ValidSF, Frame
    <2>3. \A j \in 1 .. CF_DATA : f.data[j][1] = ResponseOf(f)
      BY DEF WholeFrame
    <2>4. \A i \in Index : i <= 0 => zero[i][1] = ResponseOf(f)
      BY DEF Index
    <2> HIDE DEF zero
    <2>5. \A i \in Index : i <= 0 + f.arg => buf[i][1] = ResponseOf(f)
      BY <2>2, <2>3, <2>4, CopyOfOne DEF ResponseOf
    <2>6. \A i \in 1 .. f.arg : i \in Index /\ i <= 0 + f.arg
      BY <2>2, IsoTpAssumption DEF Index
    <2> QED BY <2>1, <2>5, <2>6
  <1>2. CASE f.pci # "SF"
    <2>1. f.pci = "CF" /\ c.receiving_multi
          /\ c.rx_offset + CopyLen(c) >= c.rx_total_len
      BY <1>2 DEF Completes, CompletesCF
    <2>2. c.rx_total_len \in 0 .. MAX_LEN
      BY DEF ContextOK, Context
    <2>3. /\ c.rx_offset \in Nat /\ CopyLen(c) \in Nat
          /\ \A i \in Index : i <= c.rx_offset + CopyLen(c) =>
               WithFrame(c, f).rx_buf[i][1] = ResponseOf(f)
      BY <2>1, FrameContinuesOne
    <2>4. \A i \in 1 .. c.rx_total_len : i \in Index /\ i <= c.rx_offset + CopyLen(c)
      BY <2>1, <2>2, <2>3, IsoTpAssumption DEF Index
    <2>5. Payload(c, f).len = c.rx_total_len /\ Payload(c, f).bytes = WithFrame(c, f).rx_buf
      BY <1>2 DEF Payload
    <2> QED BY <2>3, <2>4, <2>5
  <1> QED BY <1>1, <1>2

\* A consecutive frame at the head of the line goes on with its own response.
LEMMA HeadContinues ==
    ASSUME NEW c, NEW q \in Seq(Frame), q # <<>>, LineAnnounced(c, q)
    PROVE  Head(q).pci = "CF" /\ c.receiving_multi => c.rx_buf[1][1] = ResponseOf(Head(q))
  <1>1. 1 \in 1 .. Len(q) /\ Head(q) = q[1]
    OBVIOUS
  <1>2. \A j \in 1 .. 1 - 1 : FALSE
    OBVIOUS
  <1> QED
    BY <1>1, <1>2 DEF LineAnnounced, Announced

\* What was announced behind the head of the line still is when the head has
\* been received.
LEMMA TailAnnounced ==
    ASSUME NEW c, ContextOK(c), PrefixOfOne(c),
           NEW q \in Seq(Frame), q # <<>>, LineOrdered(q), LineAnnounced(c, q),
           \A i \in 1 .. Len(q) : WholeFrame(q[i]),
           NEW m \in Nat, NEW k \in 2 .. Len(q) + 1, Announced(c, q, m, k),
           \A i \in 1 .. k - 1 : ResponseOf(q[i]) <= m
    PROVE  Announced(OnCanRx(c, Head(q)), Tail(q), m, k - 1)
  <1> DEFINE f == Head(q)
             d == OnCanRx(c, f)
  <1>1. /\ f = q[1] /\ f \in Frame /\ Len(q) \in Nat /\ 1 \in 1 .. Len(q) /\ 1 \in 1 .. k - 1
        /\ \A i \in 1 .. k - 2 : Tail(q)[i] = q[i + 1] /\ i + 1 \in 1 .. k - 1
        /\ \A i \in 1 .. k - 1 : i \in 1 .. Len(q)
        /\ (k - 1) - 1 = k - 2
    OBVIOUS
  <1>2. WholeFrame(f)
    BY <1>1
  <1>3. d.receiving_multi =>
            IF f.pci = "FF" THEN d.rx_buf[1][1] = ResponseOf(f)
            ELSE c.receiving_multi /\ d.rx_buf[1][1] = c.rx_buf[1][1]
    BY <1>1, <1>2, HeadContinues, ReceiveOne
  <1> HIDE DEF d, f
  <1>4. CASE \E j \in 1 .. k - 1 : q[j].pci = "FF" /\ ResponseOf(q[j]) = m
    <2>1. PICK j \in 1 .. k - 1 : q[j].pci = "FF" /\ ResponseOf(q[j]) = m
      BY <1>4
    <2>2. CASE j = 1
      <3>1. f.pci = "FF" /\ ResponseOf(f) = m
        BY <1>1, <2>1, <2>2
      <3>2. ASSUME NEW i \in 1 .. k - 2
            PROVE  ResponseOf(Tail(q)[i]) = m
        <4>1. i + 1 \in 1 .. Len(q) /\ 1 <= i + 1 /\ Tail(q)[i] = q[i + 1]
          BY <1>1
        <4>2. ResponseOf(q[1]) <= ResponseOf(q[i + 1])
          BY <1>1, <4>1 DEF LineOrdered
        <4>3. ResponseOf(q[i + 1]) <= m /\ ResponseOf(q[i + 1]) \in Nat
          BY <1>1, <4>1 DEF WholeFrame
        <4> QED
          BY <1>1, <3>1, <4>1, <4>2, <4>3
      <3> QED
        BY <1>1, <1>3, <3>1, <3>2 DEF Announced, d, f
    <2>3. CASE j # 1
      <3>1. j - 1 \in 1 .. k - 2 /\ Tail(q)[j - 1] = q[j]
        <4>1. j - 1 \in 1 .. k - 2 /\ (j - 1) + 1 = j
          BY <2>3
        <4> QED BY <1>1, <4>1
      <3> QED
        BY <1>1, <2>1, <3>1 DEF Announced
    <2> QED BY <2>2, <2>3
  <1>5. CASE /\ \A j \in 1 .. k - 1 : ResponseOf(q[j]) = m
             /\ c.receiving_multi => c.rx_buf[1][1] = m
    <2>1. \A i \in 1 .. k - 2 : ResponseOf(Tail(q)[i]) = m
      BY <1>1, <1>5
    <2>2. ResponseOf(f) = m
      BY <1>1, <1>5
    <2>3. d.receiving_multi => d.rx_buf[1][1] = m
      BY <1>3, <1>5, <2>2
    <2> QED
      BY <1>1, <2>1, <2>3 DEF Announced, d, f
  <1> QED
    BY <1>4, <1>5 DEF Announced

\* Receiving the head keeps the line in order and its frames announced.
LEMMA ReceiveKeepsLine ==
    ASSUME NEW c, ContextOK(c), PrefixOfOne(c),
           NEW q \in Seq(Frame), q # <<>>, LineOrdered(q), LineAnnounced(c, q),
           \A i \in 1 .. Len(q) : WholeFrame(q[i])
    PROVE  /\ LineOrdered(Tail(q))
           /\ LineAnnounced(OnCanRx(c, Head(q)), Tail(q))
  <1>1. /\ Len(Tail(q)) = Len(q) - 1 /\ Len(q) \in Nat
        /\ \A i \in 1 .. Len(q) - 1 : Tail(q)[i] = q[i + 1] /\ i + 1 \in 2 .. Len(q)
    OBVIOUS
  <1>2. LineOrdered(Tail(q))
    <2> SUFFICES ASSUME NEW i \in 1 .. Len(q) - 1, NEW j \in 1 .. Len(q) - 1, i <= j
                 PROVE  ResponseOf(Tail(q)[i]) <= ResponseOf(Tail(q)[j])
      BY <1>1 DEF LineOrdered
    <2>1. i + 1 \in 1 .. Len(q) /\ j + 1 \in 1 .. Len(q) /\ i + 1 <= j + 1
      BY <1>1
    <2> QED
      BY <1>1, <2>1 DEF LineOrdered
  <1>3. ASSUME NEW i \in 1 .. Len(q) - 1, Tail(q)[i].pci = "CF"
        PROVE  Announced(OnCanRx(c, Head(q)), Tail(q), ResponseOf(Tail(q)[i]), i)
    <2> DEFINE k == i + 1
               m == ResponseOf(q[k])
    <2>1. k \in 2 .. Len(q) + 1 /\ k \in 1 .. Len(q) /\ k - 1 = i /\ Tail(q)[i] = q[k]
      BY <1>1
    <2>2. m \in Nat /\ Announced(c, q, m, k)
      BY <1>3, <2>1 DEF WholeFrame, LineAnnounced
    <2>3. ASSUME NEW j \in 1 .. k - 1
          PROVE  ResponseOf(q[j]) <= m
      <3>1. j \in 1 .. Len(q) /\ j <= k
        BY <2>1
      <3> QED
        BY <2>1, <3>1 DEF LineOrdered
    <2> HIDE DEF k, m
    <2>4. Announced(OnCanRx(c, Head(q)), Tail(q), m, k - 1)
      BY <2>1, <2>2, <2>3, TailAnnounced
    <2> QED
      BY <2>1, <2>4 DEF m
  <1> QED
    BY <1>1, <1>2, <1>3 DEF LineAnnounced

\* A frame put behind the others.
LEMMA PutKeepsLine ==
    ASSUME NEW c, NEW q \in Seq(Frame), LineOrdered(q), LineAnnounced(c, q),
           \A i \in 1 .. Len(q) : WholeFrame(q[i]),
           NEW f \in Frame, WholeFrame(f),
           \A i \in 1 .. Len(q) : ResponseOf(q[i]) <= ResponseOf(f),
           f.pci = "CF" => Announced(c, q, ResponseOf(f), Len(q) + 1)
    PROVE  /\ LineOrdered(Append(q, f))
           /\ LineAnnounced(c, Append(q, f))
  <1> DEFINE r == Append(q, f)
  <1>1. /\ Len(r) = Len(q) + 1 /\ Len(q) \in Nat
        /\ \A i \in 1 .. Len(q) : r[i] = q[i]
        /\ r[Len(q) + 1] = f
    OBVIOUS
  <1> HIDE DEF r
  <1>2. LineOrdered(r)
    <2> SUFFICES ASSUME NEW i \in 1 .. Len(q) + 1, NEW j \in 1 .. Len(q) + 1, i <= j
                 PROVE  ResponseOf(r[i]) <= ResponseOf(r[j])
      BY <1>1 DEF LineOrdered
    <2>1. CASE j \in 1 .. Len(q)
      BY <1>1, <2>1 DEF LineOrdered
    <2>2. CASE j = Len(q) + 1 /\ i \in 1 .. Len(q)
      BY <1>1, <2>2
    <2>3. CASE j = Len(q) + 1 /\ i = j
      BY <1>1, <2>3 DEF WholeFrame
    <2> QED
      BY <1>1, <2>1, <2>2, <2>3
  <1>3. ASSUME NEW i \in 1 .. Len(q) + 1, NEW m, Announced(c, q, m, i)
        PROVE  Announced(c, r, m, i)
    <2>1. \A j \in 1 .. i - 1 : j \in 1 .. Len(q) /\ r[j] = q[j]
      BY <1>1
    <2> QED
      BY <1>3, <2>1 DEF Announced
  <1>4. ASSUME NEW i \in 1 .. Len(q) + 1, r[i].pci = "CF"
        PROVE  Announced(c, r, ResponseOf(r[i]), i)
    <2>1. CASE i \in 1 .. Len(q)
      BY <1>1, <1>3, <1>4, <2>1 DEF LineAnnounced
    <2>2. CASE i = Len(q) + 1
      BY <1>1, <1>3, <1>4, <2>2
    <2> QED
      BY <1>1, <2>1, <2>2
  <1> QED
    BY <1>1, <1>2, <1>4 DEF LineAnnounced, r

\* The frames of the sender are of the response they are sent for.
LEMMA SenderWhole ==
    ASSUME NEW m \in Nat, NEW n, NEW k, NEW dlc
    PROVE  /\ WholeFrame(SingleFrame(m, n, dlc)) /\ ResponseOf(SingleFrame(m, n, dlc)) = m
           /\ WholeFrame(FirstFrame(m, n)) /\ ResponseOf(FirstFrame(m, n)) = m
           /\ WholeFrame(ConsecutiveFrame(m, k, dlc))
           /\ ResponseOf(ConsecutiveFrame(m, k, dlc)) = m
  BY IsoTpAssumption
     DEF WholeFrame, ResponseOf, SingleFrame, FirstFrame, ConsecutiveFrame, Data

LEMMA PutWhole ==
    ASSUME net \in Seq(Frame), \A i \in 1 .. Len(net) : WholeFrame(net[i]),
           NEW f \in Frame, WholeFrame(f), Put(f)
    PROVE  \A i \in 1 .. Len(net') : WholeFrame(net'[i])
  <1>1. net' = Append(net, f) /\ Len(net') = Len(net) + 1
    BY DEF Put
  <1>2. \A i \in 1 .. Len(net) + 1 : net'[i] = IF i = Len(net) + 1 THEN f ELSE net[i]
    BY <1>1
  <1>3. Len(net) \in Nat
    OBVIOUS
  <1> QED
    BY <1>1, <1>2, <1>3

LEMMA TailWhole ==
    ASSUME net \in Seq(Frame), net # <<>>, \A i \in 1 .. Len(net) : WholeFrame(net[i]),
           net' = Tail(net)
    PROVE  \A i \in 1 .. Len(net') : WholeFrame(net'[i])
  <1>1. Len(net') = Len(net) - 1 /\ Len(net) \in Nat
    OBVIOUS
  <1>2. \A i \in 1 .. Len(net) - 1 : net'[i] = net[i + 1] /\ i + 1 \in 1 .. Len(net)
    OBVIOUS
  <1> QED
    BY <1>1, <1>2

LEMMA ResponsesInit == Init => ResponsesInv
  <1> SUFFICES ASSUME Init PROVE ResponsesInv
    OBVIOUS
  <1>1. NoMixtureWithoutLoss
    BY DEF Init, NoMixtureWithoutLoss, NoPayload
  <1>2. NoLossInv
    BY DEF Init, NoLossInv, LineOrdered, LineAnnounced, PrefixOfOne, Cleared
  <1> QED
    BY <1>1, <1>2 DEF Init, ResponsesInv

LEMMA RespondKeepsResponses ==
    ASSUME LinkInv, ResponsesInv, NEW n \in Lengths, Respond(n)
    PROVE  ResponsesInv'
  <1>1. /\ n \in Nat \ {0} /\ msg \in Nat /\ msg + 1 \in Nat /\ net \in Seq(Frame)
        /\ lost \in Nat /\ \A i \in 1 .. Len(net) : WholeFrame(net[i])
    BY LinkAssumption DEF LinkInv, ResponsesInv
  <1>2. /\ msg' = msg + 1 /\ UNCHANGED <<g_client, decoded, lost>>
        /\ next' \in {0, 1}
    BY DEF Respond, client
  <1>3. PICK f \in Frame : /\ Put(f) /\ WholeFrame(f) /\ ResponseOf(f) = msg + 1 /\ f.pci # "CF"
                           /\ next' # 0 => f.pci = "FF"
    <2>1. CASE n <= CF_DATA
      <3>1. PICK dlc \in Dlcs(n) : Put(SingleFrame(msg + 1, n, dlc))
        BY <2>1 DEF Respond
      <3>2. next' = 0 /\ SingleFrame(msg + 1, n, dlc).pci = "SF"
        BY <2>1 DEF Respond, SingleFrame
      <3> QED
        BY <1>1, <3>1, <3>2, SenderFrames, SenderWhole
    <2>2. CASE ~(n <= CF_DATA)
      <3>1. Put(FirstFrame(msg + 1, n)) /\ FirstFrame(msg + 1, n).pci = "FF"
        BY <2>2 DEF Respond, FirstFrame
      <3> QED
        BY <1>1, <3>1, SenderFrames, SenderWhole
    <2> QED BY <2>1, <2>2
  <1>4. \A i \in 1 .. Len(net') : WholeFrame(net'[i])
    BY <1>1, <1>3, PutWhole
  <1>5. ASSUME lost = 0
        PROVE  NoLossInv'
    <2>1. NoLossInv
      BY <1>5 DEF ResponsesInv
    <2>2. /\ net' = Append(net, f) /\ Len(net') = Len(net) + 1 /\ Len(net) \in Nat
          /\ \A i \in 1 .. Len(net) : net'[i] = net[i]
          /\ net'[Len(net) + 1] = f
      BY <1>1, <1>3 DEF Put
    <2>3. \A i \in 1 .. Len(net) : ResponseOf(net[i]) <= msg + 1
      BY <1>1, <2>1 DEF NoLossInv, WholeFrame
    <2>4. LineOrdered(net') /\ LineAnnounced(g_client, net')
      BY <1>1, <1>3, <2>1, <2>2, <2>3, PutKeepsLine DEF NoLossInv
    <2>5. \A i \in 1 .. Len(net') : ResponseOf(net'[i]) <= msg'
      <3>1. ResponseOf(f) <= msg'
        BY <1>1, <1>2, <1>3
      <3> QED
        BY <1>2, <2>2, <2>3, <3>1
    <2>6. next' # 0 => Announced(g_client, net', msg', Len(net') + 1)
      <3>1. SUFFICES ASSUME next' # 0
                     PROVE  Announced(g_client, net', msg', Len(net') + 1)
        OBVIOUS
      <3>2. Len(net) + 1 \in 1 .. (Len(net') + 1) - 1
        BY <2>2
      <3>3. net'[Len(net) + 1].pci = "FF" /\ ResponseOf(net'[Len(net) + 1]) = msg'
        BY <1>2, <1>3, <2>2, <3>1
      <3> QED
        BY <3>2, <3>3 DEF Announced
    <2> QED
      BY <1>2, <2>1, <2>4, <2>5, <2>6 DEF NoLossInv
  <1> QED
    BY <1>1, <1>2, <1>4, <1>5 DEF ResponsesInv, NoMixtureWithoutLoss

LEMMA SendCFKeepsResponses ==
    ASSUME LinkInv, ResponsesInv, SendCF
    PROVE  ResponsesInv'
  <1>1. /\ next \in Nat \ {0} /\ msg \in Nat /\ len \in Nat /\ net \in Seq(Frame)
        /\ Sent(next) \in Nat /\ Sent(next) < len
        /\ lost \in Nat /\ \A i \in 1 .. Len(net) : WholeFrame(net[i])
    BY SentFacts DEF LinkInv, NextFrameOK, ResponsesInv, SendCF
  <1>2. UNCHANGED <<g_client, decoded, msg, lost>>
    BY DEF SendCF, client
  <1>3. PICK f \in Frame : /\ Put(f) /\ WholeFrame(f) /\ ResponseOf(f) = msg /\ f.pci = "CF"
    <2>1. PICK dlc \in Dlcs(len - Sent(next)) : Put(ConsecutiveFrame(msg, next, dlc))
      BY DEF SendCF
    <2>2. len - Sent(next) \in Nat \ {0}
      BY <1>1
    <2>3. dlc \in 0 .. CF_DATA + 1
      BY <2>2, DlcsType
    <2>4. ConsecutiveFrame(msg, next, dlc) \in Frame
      BY <1>1, <2>3, SenderConsecutiveFrames
    <2>5. ConsecutiveFrame(msg, next, dlc).pci = "CF"
      BY DEF ConsecutiveFrame
    <2> QED
      BY <1>1, <2>1, <2>4, <2>5, SenderWhole
  <1>4. \A i \in 1 .. Len(net') : WholeFrame(net'[i])
    BY <1>1, <1>3, PutWhole
  <1>5. ASSUME lost = 0
        PROVE  NoLossInv'
    <2>1. NoLossInv /\ Announced(g_client, net, msg, Len(net) + 1)
      BY <1>1, <1>5 DEF ResponsesInv, NoLossInv
    <2>2. /\ net' = Append(net, f) /\ Len(net') = Len(net) + 1 /\ Len(net) \in Nat
          /\ \A i \in 1 .. Len(net) : net'[i] = net[i]
          /\ net'[Len(net) + 1] = f
      BY <1>1, <1>3 DEF Put
    <2>3. LineOrdered(net') /\ LineAnnounced(g_client, net')
      BY <1>1, <1>3, <2>1, <2>2, PutKeepsLine DEF NoLossInv
    <2>4. \A i \in 1 .. Len(net') : ResponseOf(net'[i]) <= msg'
      <3>1. ResponseOf(f) <= msg
        BY <1>1, <1>3
      <3> QED
        BY <1>2, <2>1, <2>2, <3>1 DEF NoLossInv
    <2>5. Announced(g_client, net', msg, Len(net') + 1)
      <3>1. \A j \in 1 .. (Len(net') + 1) - 1 : j \in 1 .. Len(net) \/ j = Len(net) + 1
        BY <2>2
      <3>2. \A j \in 1 .. (Len(net) + 1) - 1 :
                j \in 1 .. (Len(net') + 1) - 1 /\ net'[j] = net[j]
        BY <2>2
      <3>3. \A j \in 1 .. Len(net) : j \in 1 .. (Len(net) + 1) - 1
        BY <2>2
      <3> QED
        BY <1>3, <2>1, <2>2, <3>1, <3>2, <3>3 DEF Announced
    <2> QED
      BY <1>2, <2>1, <2>3, <2>4, <2>5 DEF NoLossInv
  <1> QED
    BY <1>1, <1>2, <1>4, <1>5 DEF ResponsesInv, NoMixtureWithoutLoss

LEMMA LoseKeepsResponses ==
    ASSUME LinkInv, ResponsesInv, Lose
    PROVE  ResponsesInv'
  <1>1. /\ net \in Seq(Frame) /\ net # <<>> /\ net' = Tail(net)
        /\ lost \in Nat /\ lost' = lost + 1
        /\ \A i \in 1 .. Len(net) : WholeFrame(net[i])
    BY DEF LinkInv, ResponsesInv, Lose
  <1>2. \A i \in 1 .. Len(net') : WholeFrame(net'[i])
    BY <1>1, TailWhole
  <1>3. lost' \in Nat /\ lost' # 0
    BY <1>1
  <1> QED
    BY <1>2, <1>3 DEF ResponsesInv, NoMixtureWithoutLoss

LEMMA ReceiveKeepsResponses ==
    ASSUME CF_DATA <= MAX_LEN, LinkInv, ResponsesInv, Receive
    PROVE  ResponsesInv'
  <1> DEFINE f == Head(net)
  <1>1. /\ net \in Seq(Frame) /\ net # <<>> /\ net' = Tail(net) /\ f \in Frame
        /\ next \in Nat /\ msg \in Nat
        /\ lost \in Nat /\ \A i \in 1 .. Len(net) : WholeFrame(net[i])
        /\ UNCHANGED <<msg, len, next>>
    BY DEF LinkInv, ResponsesInv, Receive
  <1>2. /\ g_client' = OnCanRx(g_client, f)
        /\ decoded' = IF Completes(g_client, f) THEN Payload(g_client, f) ELSE decoded
        /\ lost' = lost \/ lost' = lost + 1
    BY DEF Receive, FlowControl
  <1>3. ContextOK(g_client)
    BY DEF LinkInv, ContextConsistent
  <1>4. /\ Len(net) \in Nat \ {0} /\ Len(net') = Len(net) - 1
        /\ \A i \in 1 .. Len(net') : net'[i] = net[i + 1] /\ i + 1 \in 1 .. Len(net)
        /\ f = net[1] /\ 1 \in 1 .. Len(net)
    BY <1>1
  <1>5. WholeFrame(f)
    BY <1>1, <1>4
  <1>6. \A i \in 1 .. Len(net') : WholeFrame(net'[i])
    BY <1>1, TailWhole
  <1>7. lost' \in Nat /\ (lost' = 0 => lost = 0)
    BY <1>1, <1>2
  <1> HIDE DEF f
  <1>8. ASSUME lost = 0
        PROVE  NoLossInv'
    <2>1. NoLossInv
      BY <1>8 DEF ResponsesInv
    <2>2. f.pci = "CF" /\ g_client.receiving_multi => g_client.rx_buf[1][1] = ResponseOf(f)
      BY <1>1, <2>1, HeadContinues DEF NoLossInv, f
    <2>3. PrefixOfOne(g_client')
      BY <1>1, <1>2, <1>3, <1>5, <2>1, <2>2, ReceiveOne DEF NoLossInv
    <2>4. LineOrdered(net') /\ LineAnnounced(g_client', net')
      BY <1>1, <1>2, <1>3, <2>1, ReceiveKeepsLine DEF NoLossInv, f
    <2>5. \A i \in 1 .. Len(net') : ResponseOf(net'[i]) <= msg'
      BY <1>1, <1>4, <2>1 DEF NoLossInv
    <2>6. next' # 0 => Announced(g_client', net', msg', Len(net') + 1)
      <3>1. SUFFICES ASSUME next # 0
                     PROVE  Announced(g_client', net', msg, Len(net') + 1)
        BY <1>1
      <3> DEFINE k == Len(net) + 1
      <3>2. /\ k \in 2 .. Len(net) + 1 /\ k - 1 = Len(net') + 1
            /\ \A i \in 1 .. k - 1 : i \in 1 .. Len(net)
        BY <1>4
      <3>3. Announced(g_client, net, msg, k) /\ \A i \in 1 .. k - 1 : ResponseOf(net[i]) <= msg
        BY <2>1, <3>1, <3>2 DEF NoLossInv
      <3> HIDE DEF k
      <3>4. Announced(OnCanRx(g_client, Head(net)), Tail(net), msg, k - 1)
        BY <1>1, <1>3, <2>1, <3>2, <3>3, TailAnnounced DEF NoLossInv
      <3> QED
        BY <1>1, <1>2, <3>2, <3>4 DEF f
    <2> QED
      BY <2>3, <2>4, <2>5, <2>6 DEF NoLossInv
  <1>9. ASSUME lost = 0
        PROVE  \A i, j \in 1 .. decoded'.len : decoded'.bytes[i][1] = decoded'.bytes[j][1]
    <2>1. CASE Completes(g_client, f)
      <3>1. NoLossInv /\ decoded' = Payload(g_client, f)
        BY <1>2, <1>9, <2>1 DEF ResponsesInv
      <3>2. f.pci = "CF" /\ g_client.receiving_multi => g_client.rx_buf[1][1] = ResponseOf(f)
        BY <1>1, <3>1, HeadContinues DEF NoLossInv, f
      <3>3. \A i \in 1 .. decoded'.len : decoded'.bytes[i][1] = ResponseOf(f)
        BY <1>1, <1>3, <1>5, <2>1, <3>1, <3>2, PayloadOfOne DEF NoLossInv
      <3> QED
        BY <3>3
    <2>2. CASE ~Completes(g_client, f)
      BY <1>2, <1>9, <2>2 DEF ResponsesInv, NoMixtureWithoutLoss
    <2> QED BY <2>1, <2>2
  <1> QED
    BY <1>6, <1>7, <1>8, <1>9 DEF ResponsesInv, NoMixtureWithoutLoss

LEMMA ResetKeepsResponses ==
    ASSUME ResponsesInv, Reset
    PROVE  ResponsesInv'
  <1>1. /\ g_client' = Cleared(FALSE)
        /\ UNCHANGED <<decoded, net, msg, next, lost>>
    BY DEF Reset, reset_rx_state, cluster
  <1>2. ~g_client'.receiving_multi
    BY <1>1 DEF Cleared
  <1>3. \A m, i : Announced(g_client, net, m, i) => Announced(g_client', net', m, i)
    BY <1>1, <1>2 DEF Announced
  <1>4. lost = 0 => NoLossInv'
    BY <1>1, <1>2, <1>3 DEF ResponsesInv, NoLossInv, LineAnnounced, PrefixOfOne
  <1> QED
    BY <1>1, <1>4 DEF ResponsesInv, NoMixtureWithoutLoss

LEMMA ResponsesStep ==
    ASSUME CF_DATA <= MAX_LEN, LinkInv, ResponsesInv, [Next]_vars
    PROVE  ResponsesInv'
  <1>1. ASSUME UNCHANGED vars
        PROVE  ResponsesInv'
    BY <1>1 DEF ResponsesInv, NoLossInv, NoMixtureWithoutLoss, vars, client, cluster
  <1> QED
    BY <1>1, RespondKeepsResponses, SendCFKeepsResponses, LoseKeepsResponses,
       ReceiveKeepsResponses, ResetKeepsResponses DEF Next

\* As long as no frame is lost a decoded payload is of one response, although the
\* cluster may start on the next one before the last is complete and the client
\* may ask again at any moment: UDS_Client_OnCanRx has nothing but the order of the
\* frames to tell the responses apart, for every size with a frame that fits rx_buf.
THEOREM ResponsesAreNotMixed ==
    ASSUME FramesFit, CF_DATA <= MAX_LEN
    PROVE  Spec => []NoMixtureWithoutLoss
  <1>1. LinkInv /\ ResponsesInv => NoMixtureWithoutLoss
    BY DEF ResponsesInv
  <1>2. Init => LinkInv /\ ResponsesInv
    BY LinkInit, ResponsesInit
  <1>3. LinkInv /\ ResponsesInv /\ [Next]_vars => (LinkInv /\ ResponsesInv)'
    BY LinkStep, ResponsesStep
  <1> QED
    BY <1>1, <1>2, <1>3, PTL DEF Spec

=============================================================================
