------------------------ MODULE GatewayTasks_proofs ------------------------
(***************************************************************************)
(* Theorems about the start of Board B and its tasks (GatewayTasks), for   *)
(* every size of queue, FIFO and mailboxes, every rpm, and all bounds.     *)
(***************************************************************************)
EXTENDS GatewayTasks, SequenceTheorems, FiniteSetTheorems, TLAPS

\* No task handles a frame before the safety bridge has been initialised, and only a
\* handled frame leaves a status.
StartOrder ==
    /\ boot \in {"can", "bridge", "ready", "done"}
    /\ s_gateway_ready \/ s_diag # 0 => boot = "done"

-----------------------------------------------------------------------------
(* The frames under way are numbered from 1, so that 0 means no status.        *)

Numbered ==
    [bus : {1}, id : {"ENGINE_DATA", "ADAS_STATUS"}, rpm : Nat, n : Nat \ {0}]
        \cup [bus : {2}, id : {"UDS_REQUEST"}, rpm : Nat, n : Nat \ {0}]

FramesNumbered ==
    /\ fifo \in [Buses -> Seq(Numbered)] /\ can_rx_q \in Seq(Numbered)
    /\ arrived \in [Buses -> Nat]

StartInv == StartOrder /\ FramesNumbered

LEMMA StartInit == Init => StartInv
  BY DEF Init, CanBspInit, StartInv, StartOrder, FramesNumbered

LEMMA SourcesNumbered ==
    ASSUME NEW s \in Sources, NEW k \in Nat \ {0}
    PROVE  s[1] \in Buses /\ [bus |-> s[1], id |-> s[2], rpm |-> s[3], n |-> k] \in Numbered
  <1>1. CASE s \in {1} \X {"ENGINE_DATA"} \X Rpms
    <2>1. s[1] = 1 /\ s[2] = "ENGINE_DATA" /\ s[3] \in Nat
      BY <1>1, GatewayAssumption
    <2> QED
      BY <2>1 DEF Buses, Numbered
  <1>2. CASE s = <<1, "ADAS_STATUS", 0>>
    BY <1>2 DEF Buses, Numbered
  <1>3. CASE s = <<2, "UDS_REQUEST", 0>>
    BY <1>3 DEF Buses, Numbered
  <1> QED
    BY <1>1, <1>2, <1>3 DEF Sources

LEMMA AppendNumbered ==
    ASSUME NEW q \in Seq(Numbered), NEW f \in Numbered
    PROVE  /\ Append(q, f) \in Seq(Numbered)
           /\ q # <<>> => Front(q) \in Seq(Numbered) /\ Append(Front(q), f) \in Seq(Numbered)
  BY DEF Front

LEMMA TakeNumbered ==
    ASSUME NEW q \in Seq(Numbered), q # <<>>
    PROVE  Head(q) \in Numbered /\ Tail(q) \in Seq(Numbered)
  OBVIOUS

LEMMA FramesStep ==
    ASSUME FramesNumbered, [Next]_vars
    PROVE  FramesNumbered'
  <1> USE DEF FramesNumbered
  <1>1. CASE StartDefaultTask
    BY <1>1 DEF StartDefaultTask, StartCan, StartBridge, StartTasks, CAN_BSP_Init, can, inbound
  <1>2. CASE GatewayTask
    BY <1>2, TakeNumbered DEF GatewayTask
  <1>3. CASE ClusterTask
    BY <1>3 DEF ClusterTask, TestMailboxes, ChooseMailbox, FillId, FillData, LoadTir,
                StoreTir, Others, inbound
  <1>4. ASSUME NEW s \in Sources, FrameOnBus(s)
        PROVE  FramesNumbered'
    <2> DEFINE f == [bus |-> s[1], id |-> s[2], rpm |-> s[3], n |-> arrived[s[1]] + 1]
    <2>1. s[1] \in Buses /\ arrived' \in [Buses -> Nat] /\ arrived'[s[1]] = arrived[s[1]] + 1
      <3>1. 1 \in Nat \ {0}
        OBVIOUS
      <3>2. s[1] \in Buses
        BY <3>1, SourcesNumbered
      <3>3. arrived' = [arrived EXCEPT ![s[1]] = @ + 1]
        BY <1>4 DEF FrameOnBus
      <3> QED
        BY <3>2, <3>3
    <2>2. f \in Numbered
      BY <2>1, SourcesNumbered
    <2>3. Arrive(f) /\ f.bus = s[1]
      BY <1>4, <2>1 DEF FrameOnBus
    <2> HIDE DEF f
    <2>4. fifo[s[1]] \in Seq(Numbered) /\ (Len(fifo[s[1]]) < FIFO_DEPTH \/ fifo[s[1]] # <<>>)
      BY <2>1, CanBspAssumption
    <2>5. fifo' \in [Buses -> Seq(Numbered)] /\ can_rx_q' = can_rx_q
      BY <2>1, <2>2, <2>3, <2>4, AppendNumbered DEF Arrive
    <2> QED
      BY <2>1, <2>5
  <1>5. ASSUME NEW b \in Buses, Interrupt(b)
        PROVE  FramesNumbered'
    <2>1. Head(fifo[b]) \in Numbered /\ Tail(fifo[b]) \in Seq(Numbered)
      BY <1>5, TakeNumbered DEF Interrupt, RxFifo0MsgPendingCallback
    <2> QED
      BY <1>5, <2>1, AppendNumbered DEF Interrupt, RxFifo0MsgPendingCallback
  <1>6. ASSUME NEW m \in Mailbox, Transmit(m)
        PROVE  FramesNumbered'
    BY <1>6 DEF Transmit, Leave, inbound
  <1>7. CASE UNCHANGED vars
    BY <1>7 DEF vars, can, inbound
  <1> QED
    BY <1>1, <1>2, <1>3, <1>4, <1>5, <1>6, <1>7 DEF Next

-----------------------------------------------------------------------------
(* The order of the start. *)

LEMMA StartOrderStep ==
    ASSUME StartOrder, [Next]_vars
    PROVE  StartOrder' /\ (GatewayTask \/ s_diag' = s_diag \/ s_diag = 0)
  <1> USE DEF StartOrder
  <1>1. CASE StartCan
    BY <1>1 DEF StartCan
  <1>2. CASE StartBridge
    BY <1>2 DEF StartBridge
  <1>3. CASE StartTasks
    BY <1>3 DEF StartTasks
  <1>4. CASE GatewayTask
    <2>1. boot = "done" /\ boot' = boot
      BY <1>4 DEF GatewayTask, Ready
    <2> QED
      BY <1>4, <2>1
  <1>5. ASSUME UNCHANGED flags
        PROVE  StartOrder' /\ s_diag' = s_diag
    BY <1>5 DEF flags
  <1>6. CASE ClusterTask
    BY <1>5, <1>6 DEF ClusterTask, TestMailboxes, ChooseMailbox, FillId, FillData, LoadTir,
                      StoreTir, Others
  <1>7. ASSUME NEW s \in Sources, FrameOnBus(s)
        PROVE  StartOrder' /\ s_diag' = s_diag
    BY <1>5, <1>7 DEF FrameOnBus
  <1>8. ASSUME NEW b \in Buses, Interrupt(b)
        PROVE  StartOrder' /\ s_diag' = s_diag
    BY <1>5, <1>8 DEF Interrupt
  <1>9. ASSUME NEW m \in Mailbox, Transmit(m)
        PROVE  StartOrder' /\ s_diag' = s_diag
    BY <1>5, <1>9 DEF Transmit
  <1>10. CASE UNCHANGED vars
    BY <1>5, <1>10 DEF vars
  <1> QED
    BY <1>1, <1>2, <1>3, <1>4, <1>6, <1>7, <1>8, <1>9, <1>10 DEF Next, StartDefaultTask

\* gateway_tasks.c:72-74: the queue fills before the safety bridge is initialised, but no
\* status is stored and then wiped by its memset, however the start, the interrupts and
\* the tasks interleave and whichever step of the start fails.
THEOREM StatusIsKept == Spec => StatusSurvivesStart
  <1>1. ASSUME StartInv, [Next]_vars
        PROVE  StartInv' /\ (s_diag # 0 => s_diag' # 0)
    <2>1. StartInv' /\ (GatewayTask \/ s_diag' = s_diag \/ s_diag = 0)
      BY <1>1, FramesStep, StartOrderStep DEF StartInv
    <2>2. ASSUME GatewayTask, s_diag # 0
          PROVE  s_diag' # 0
      <3>1. Head(can_rx_q).n # 0
        BY <1>1, <2>2, TakeNumbered DEF GatewayTask, StartInv, FramesNumbered, Numbered
      <3> QED
        BY <2>2, <3>1 DEF GatewayTask
    <2> QED
      BY <2>1, <2>2
  <1>2. StartInv /\ [Next]_vars => [s_diag # 0 => s_diag' # 0]_vars
    BY <1>1
  <1> QED
    BY <1>1, <1>2, StartInit, PTL DEF Spec, StatusSurvivesStart

-----------------------------------------------------------------------------
(* The order of the frames of a bus.                                           *)

Ascending(q, b) ==
    \A i, j \in 1..Len(q) : i < j /\ q[i].bus = b /\ q[j].bus = b => q[i].n < q[j].n

LEMMA NumbersFacts ==
    ASSUME NEW q \in Seq(Numbered), NEW b \in Buses
    PROVE  /\ Numbers(q, b) \subseteq Nat
           /\ \A i \in 1..Len(q) : q[i].bus = b => q[i].n \in Numbers(q, b)
           /\ \A x \in Numbers(q, b) : \E i \in 1..Len(q) : q[i].bus = b /\ x = q[i].n
  <1>1. DOMAIN q = 1..Len(q) /\ \A i \in 1..Len(q) : q[i] \in Numbered
    OBVIOUS
  <1> QED
    BY <1>1 DEF Numbers, Numbered

LEMMA NumbersOfAppend ==
    ASSUME NEW q \in Seq(Numbered), NEW f \in Numbered, NEW b \in Buses
    PROVE  /\ Numbers(Append(q, f), b) = Numbers(q, b) \cup (IF f.bus = b THEN {f.n} ELSE {})
           /\ Ascending(q, b) /\ (f.bus = b => \A x \in Numbers(q, b) : x < f.n)
                => Ascending(Append(q, f), b)
  <1> DEFINE r == Append(q, f)
  <1>1. /\ r \in Seq(Numbered) /\ Len(r) = Len(q) + 1 /\ r[Len(q) + 1] = f /\ Len(q) \in Nat
        /\ \A i \in 1..Len(q) : r[i] = q[i]
    OBVIOUS
  <1> HIDE DEF r
  <1>2. Numbers(r, b) = Numbers(q, b) \cup (IF f.bus = b THEN {f.n} ELSE {})
    <2>1. ASSUME NEW x \in Numbers(r, b)
          PROVE  x \in Numbers(q, b) \cup (IF f.bus = b THEN {f.n} ELSE {})
      <3>1. PICK i \in 1..Len(r) : r[i].bus = b /\ x = r[i].n
        BY <1>1, NumbersFacts
      <3>2. CASE i = Len(q) + 1
        BY <1>1, <3>1, <3>2
      <3>3. CASE i \in 1..Len(q)
        BY <1>1, <3>1, <3>3, NumbersFacts
      <3> QED
        BY <1>1, <3>2, <3>3
    <2>2. ASSUME NEW x \in Numbers(q, b)
          PROVE  x \in Numbers(r, b)
      <3>1. PICK i \in 1..Len(q) : q[i].bus = b /\ x = q[i].n
        BY NumbersFacts
      <3>2. i \in 1..Len(r) /\ r[i] = q[i]
        BY <1>1
      <3> QED
        BY <1>1, <3>1, <3>2, NumbersFacts
    <2>3. f.bus = b => f.n \in Numbers(r, b)
      <3>1. Len(q) + 1 \in 1..Len(r)
        BY <1>1
      <3> QED
        BY <1>1, <3>1, NumbersFacts
    <2> QED
      BY <2>1, <2>2, <2>3
  <1>3. ASSUME Ascending(q, b), f.bus = b => \A x \in Numbers(q, b) : x < f.n
        PROVE  Ascending(r, b)
    <2> SUFFICES ASSUME NEW i \in 1..Len(r), NEW j \in 1..Len(r),
                        i < j, r[i].bus = b, r[j].bus = b
                 PROVE  r[i].n < r[j].n
      BY DEF Ascending
    <2>1. i \in 1..Len(q) /\ r[i] = q[i]
      BY <1>1
    <2>2. CASE j \in 1..Len(q)
      BY <1>1, <1>3, <2>1, <2>2 DEF Ascending
    <2>3. CASE j = Len(q) + 1
      BY <1>1, <1>3, <2>1, <2>3, NumbersFacts
    <2> QED
      BY <1>1, <2>2, <2>3
  <1> QED
    BY <1>2, <1>3 DEF r

\* The head is the oldest frame of its bus.
LEMMA NumbersOfTail ==
    ASSUME NEW q \in Seq(Numbered), q # <<>>, NEW b \in Buses, Ascending(q, b)
    PROVE  /\ Ascending(Tail(q), b)
           /\ Head(q).bus # b => Numbers(Tail(q), b) = Numbers(q, b)
           /\ Head(q).bus = b => /\ Head(q).n \in Numbers(q, b)
                                 /\ Numbers(Tail(q), b) = Numbers(q, b) \ {Head(q).n}
                                 /\ \A x \in Numbers(q, b) : Head(q).n <= x
  <1> DEFINE r == Tail(q)
  <1>1. /\ r \in Seq(Numbered) /\ Len(q) \in Nat /\ Len(q) >= 1 /\ Len(r) = Len(q) - 1
        /\ Head(q) = q[1] /\ \A i \in 1..Len(r) : r[i] = q[i + 1]
        /\ \A i \in 1..Len(q) : q[i] \in Numbered
    OBVIOUS
  <1> HIDE DEF r
  <1>2. ASSUME NEW i \in 1..Len(r), NEW j \in 1..Len(r), i < j, r[i].bus = b, r[j].bus = b
        PROVE  r[i].n < r[j].n
    <2>1. i + 1 \in 1..Len(q) /\ j + 1 \in 1..Len(q) /\ i + 1 < j + 1
      BY <1>1, <1>2
    <2> QED
      BY <1>1, <1>2, <2>1 DEF Ascending
  <1>3. ASSUME NEW x \in Numbers(r, b)
        PROVE  x \in Numbers(q, b) /\ (q[1].bus = b => q[1].n < x)
    <2>1. PICK i \in 1..Len(r) : r[i].bus = b /\ x = r[i].n
      BY <1>1, NumbersFacts
    <2>2. i + 1 \in 1..Len(q) /\ 1 \in 1..Len(q) /\ 1 < i + 1 /\ r[i] = q[i + 1]
      BY <1>1
    <2>3. x \in Numbers(q, b)
      BY <2>1, <2>2, NumbersFacts
    <2> QED
      BY <2>1, <2>2, <2>3 DEF Ascending
  <1>4. ASSUME NEW x \in Numbers(q, b)
        PROVE  x \in Numbers(r, b) \/ (q[1].bus = b /\ x = q[1].n)
    <2>1. PICK i \in 1..Len(q) : q[i].bus = b /\ x = q[i].n
      BY NumbersFacts
    <2>2. CASE i = 1
      BY <2>1, <2>2
    <2>3. CASE i # 1
      <3>1. i - 1 \in 1..Len(r) /\ r[i - 1] = q[i]
        BY <1>1, <2>3
      <3> QED
        BY <1>1, <2>1, <3>1, NumbersFacts
    <2> QED
      BY <2>2, <2>3
  <1>5. Numbers(q, b) \subseteq Nat /\ Numbers(r, b) \subseteq Nat /\ q[1].n \in Nat
    BY <1>1, NumbersFacts DEF Numbered
  <1>6. ASSUME q[1].bus = b
        PROVE  /\ q[1].n \in Numbers(q, b)
               /\ Numbers(r, b) = Numbers(q, b) \ {q[1].n}
               /\ \A x \in Numbers(q, b) : q[1].n <= x
    <2>1. 1 \in 1..Len(q)
      BY <1>1
    <2>2. q[1].n \in Numbers(q, b)
      BY <1>6, <2>1, NumbersFacts
    <2>3. q[1].n \notin Numbers(r, b)
      BY <1>3, <1>5, <1>6
    <2>4. \A x \in Numbers(q, b) : q[1].n <= x
      BY <1>3, <1>4, <1>5, <1>6
    <2> QED
      BY <1>3, <1>4, <2>2, <2>3, <2>4
  <1>7. q[1].bus # b => Numbers(r, b) = Numbers(q, b)
    BY <1>3, <1>4
  <1>8. Ascending(r, b)
    BY <1>2 DEF Ascending
  <1> QED
    BY <1>1, <1>6, <1>7, <1>8 DEF r

LEMMA FrontFacts ==
    ASSUME NEW q \in Seq(Numbered), q # <<>>
    PROVE  /\ Front(q) \in Seq(Numbered) /\ Len(Front(q)) = Len(q) - 1
           /\ \A i \in 1..Len(Front(q)) : Front(q)[i] = q[i]
  <1> DEFINE n == Len(q) - 1
             r == SubSeq(q, 1, n)
  <1>1. Len(q) \in Nat /\ Len(q) >= 1 /\ 1 \in Int
    OBVIOUS
  <1>2. n \in Int /\ n >= 0 /\ \A i \in 1..n : q[i] \in Numbered
    BY <1>1
  <1> HIDE DEF n
  <1>3. /\ r \in Seq(Numbered) /\ Len(r) = (IF 1 <= n THEN n - 1 + 1 ELSE 0)
        /\ \A i \in 1..n - 1 + 1 : r[i] = q[1 + i - 1]
    BY <1>1, <1>2, SubSeqProperties
  <1>4. Len(r) = n
    BY <1>2, <1>3
  <1>5. ASSUME NEW i \in 1..n
        PROVE  r[i] = q[i]
    <2>1. 1 + i - 1 = i /\ i \in 1..n - 1 + 1
      BY <1>2
    <2> QED
      BY <1>3, <2>1
  <1>6. Front(q) = r
    BY DEF Front, n
  <1> QED
    BY <1>3, <1>4, <1>5, <1>6 DEF n

\* The last frame of a FIFO, all of one bus, is the newest.
LEMMA NumbersOfFront ==
    ASSUME NEW q \in Seq(Numbered), q # <<>>, NEW b \in Buses, Ascending(q, b),
           \A i \in 1..Len(q) : q[i].bus = b
    PROVE  /\ Ascending(Front(q), b) /\ \A i \in 1..Len(Front(q)) : Front(q)[i].bus = b
           /\ q[Len(q)].n \in Numbers(q, b)
           /\ Numbers(Front(q), b) = Numbers(q, b) \ {q[Len(q)].n}
           /\ \A x \in Numbers(q, b) : x <= q[Len(q)].n
  <1> DEFINE r == Front(q)
  <1>1. /\ Len(q) \in Nat /\ Len(q) >= 1 /\ q[Len(q)].bus = b
        /\ \A i \in 1..Len(q) : q[i] \in Numbered
    OBVIOUS
  <1>2. r \in Seq(Numbered) /\ Len(r) = Len(q) - 1 /\ \A i \in 1..Len(r) : r[i] = q[i]
    BY FrontFacts
  <1> HIDE DEF r
  <1>3. \A i \in 1..Len(r) : i \in 1..Len(q) /\ r[i] = q[i] /\ r[i].bus = b
    BY <1>1, <1>2
  <1>10. Ascending(r, b)
    BY <1>2, <1>3 DEF Ascending
  <1>4. ASSUME NEW x \in Numbers(r, b)
        PROVE  x \in Numbers(q, b) /\ x < q[Len(q)].n
    <2>1. PICK i \in 1..Len(r) : r[i].bus = b /\ x = r[i].n
      BY <1>2, NumbersFacts
    <2>2. i \in 1..Len(q) /\ Len(q) \in 1..Len(q) /\ i < Len(q) /\ r[i] = q[i]
      BY <1>1, <1>2
    <2>3. x \in Numbers(q, b)
      BY <2>1, <2>2, NumbersFacts
    <2> QED
      BY <2>1, <2>2, <2>3 DEF Ascending
  <1>5. ASSUME NEW x \in Numbers(q, b)
        PROVE  x \in Numbers(r, b) \/ x = q[Len(q)].n
    <2>1. PICK i \in 1..Len(q) : q[i].bus = b /\ x = q[i].n
      BY NumbersFacts
    <2>2. CASE i = Len(q)
      BY <2>1, <2>2
    <2>3. CASE i # Len(q)
      <3>1. i \in 1..Len(r) /\ r[i] = q[i]
        BY <1>1, <1>2, <2>3
      <3> QED
        BY <1>2, <2>1, <3>1, NumbersFacts
    <2> QED
      BY <2>2, <2>3
  <1>6. Numbers(q, b) \subseteq Nat /\ Numbers(r, b) \subseteq Nat /\ q[Len(q)].n \in Nat
    BY <1>1, <1>2, NumbersFacts DEF Numbered
  <1>7. q[Len(q)].n \in Numbers(q, b)
    <2>1. Len(q) \in 1..Len(q)
      BY <1>1
    <2> QED
      BY <1>1, <2>1, NumbersFacts
  <1>8. Numbers(r, b) = Numbers(q, b) \ {q[Len(q)].n}
    BY <1>4, <1>5, <1>6
  <1>9. \A x \in Numbers(q, b) : x <= q[Len(q)].n
    BY <1>4, <1>5, <1>6
  <1> QED
    BY <1>3, <1>7, <1>8, <1>9, <1>10 DEF r

LEMMA NumbersFinite ==
    ASSUME NEW q \in Seq(Numbered), NEW b \in Buses
    PROVE  /\ IsFiniteSet(Numbers(q, b)) /\ Cardinality(Numbers(q, b)) \in Nat
           /\ Cardinality(Numbers(q, b)) <= Len(q)
  <1> DEFINE T == {j \in 1..Len(q) : q[j].bus = b}
             N == Numbers(q, b)
             f == [j \in T |-> q[j].n]
  <1>1. Len(q) \in Nat
    OBVIOUS
  <1>2. IsFiniteSet(1..Len(q)) /\ Cardinality(1..Len(q)) = Len(q)
    BY <1>1, FS_Interval
  <1>3. IsFiniteSet(T) /\ Cardinality(T) <= Len(q)
    BY <1>2, FS_Subset
  <1>4. f \in Surjection(T, N)
    BY NumbersFacts DEF Surjection
  <1> HIDE DEF T, N, f
  <1>5. IsFiniteSet(N) /\ Cardinality(N) <= Cardinality(T)
    BY <1>3, <1>4, FS_Surjection
  <1>6. Cardinality(N) \in Nat /\ Cardinality(T) \in Nat
    BY <1>3, <1>5, FS_CardinalityType
  <1> QED
    BY <1>1, <1>3, <1>5, <1>6 DEF N

FifoOf(b) == INSTANCE LossyFifo WITH
    CAPACITY <- RX_Q_SIZE + FIFO_DEPTH,
    sent <- arrived[b], chan <- Channel(b), received <- received[b]

LEMMA SameCardinality == \A b, S : FifoOf(b)!Cardinality(S) = Cardinality(S)
  BY Zenon DEF FifoOf!Cardinality, Cardinality

\* The numbers of a bus ascend from what has been read, through the queue and the FIFO,
\* to what has arrived.
InOrder(b) ==
    /\ Ascending(can_rx_q, b) /\ Ascending(fifo[b], b)
    /\ \A i \in 1..Len(fifo[b]) : fifo[b][i].bus = b
    /\ \A x \in Numbers(can_rx_q, b), y \in Numbers(fifo[b], b) : x < y
    /\ \A x \in Channel(b) : received[b] < x /\ x <= arrived[b]
    /\ received[b] \in Nat /\ received[b] <= arrived[b]
    /\ Len(fifo[b]) <= FIFO_DEPTH

ReceptionInv ==
    /\ FramesNumbered /\ received \in [Buses -> Nat]
    /\ Len(can_rx_q) <= RX_Q_SIZE
    /\ \A b \in Buses : InOrder(b)

FifoStep(b) == FifoOf(b)!Next \/ UNCHANGED FifoOf(b)!vars

LEMMA ChannelFits ==
    ASSUME FramesNumbered, NEW b \in Buses
    PROVE  Cardinality(Channel(b)) \in Nat
             /\ Cardinality(Channel(b)) <= Len(can_rx_q) + Len(fifo[b])
  <1> DEFINE S == Numbers(can_rx_q, b)
             T == Numbers(fifo[b], b)
  <1>1. can_rx_q \in Seq(Numbered) /\ fifo[b] \in Seq(Numbered)
    BY DEF FramesNumbered
  <1>2. /\ IsFiniteSet(S) /\ Cardinality(S) \in Nat /\ Cardinality(S) <= Len(can_rx_q)
        /\ IsFiniteSet(T) /\ Cardinality(T) \in Nat /\ Cardinality(T) <= Len(fifo[b])
    BY <1>1, NumbersFinite
  <1> HIDE DEF S, T
  <1>3. IsFiniteSet(S \cap T) /\ IsFiniteSet(S \cup T)
        /\ Cardinality(S \cup T) = Cardinality(S) + Cardinality(T) - Cardinality(S \cap T)
    BY <1>2, FS_Union, FS_Intersection
  <1>4. Cardinality(S \cap T) \in Nat /\ Cardinality(S \cup T) \in Nat
    BY <1>3, FS_CardinalityType
  <1>5. Len(can_rx_q) \in Nat /\ Len(fifo[b]) \in Nat
    BY <1>1
  <1>6. Channel(b) = S \cup T
    BY DEF Channel, S, T
  <1> QED
    BY <1>2, <1>3, <1>4, <1>5, <1>6

\* The controller: a frame that finds the FIFO full replaces the newest one.
LEMMA ArriveStep ==
    ASSUME ReceptionInv, NEW b \in Buses, NEW f \in Numbered, f.bus = b, f.n = arrived[b] + 1,
           Arrive(f), arrived' = [arrived EXCEPT ![b] = @ + 1], received' = received
    PROVE  InOrder(b)' /\ FifoStep(b)
  <1> DEFINE S == Numbers(can_rx_q, b)
             T == Numbers(fifo[b], b)
             T1 == Numbers(fifo'[b], b)
  <1>1. /\ can_rx_q \in Seq(Numbered) /\ fifo[b] \in Seq(Numbered) /\ arrived[b] \in Nat
        /\ can_rx_q' = can_rx_q /\ arrived'[b] = arrived[b] + 1 /\ received'[b] = received[b]
        /\ S \subseteq Nat /\ T \subseteq Nat
    BY NumbersFacts DEF ReceptionInv, FramesNumbered, Arrive
  <1>2. InOrder(b) /\ Len(can_rx_q) <= RX_Q_SIZE
    BY DEF ReceptionInv
  <1>3. /\ \A x \in S, y \in T : x < y
        /\ \A x \in S \cup T : received[b] < x /\ x <= arrived[b]
        /\ received[b] \in Nat /\ received[b] <= arrived[b]
        /\ Ascending(can_rx_q, b) /\ Ascending(fifo[b], b) /\ Len(fifo[b]) <= FIFO_DEPTH
        /\ \A i \in 1..Len(fifo[b]) : fifo[b][i].bus = b
    BY <1>2 DEF InOrder, Channel
  <1>4. \A x \in S \cup T : x < f.n
    BY <1>1, <1>3
  <1>5. Channel(b) = S \cup T /\ Channel(b)' = S \cup T1
    BY <1>1 DEF Channel
  <1>6. CASE Len(fifo[b]) < FIFO_DEPTH
    <2>1. fifo'[b] = Append(fifo[b], f)
      BY <1>6 DEF Arrive, ReceptionInv, FramesNumbered
    <2>2. T1 = T \cup {f.n} /\ Ascending(fifo'[b], b)
      BY <1>1, <1>3, <1>4, <2>1, NumbersOfAppend
    <2>3. Len(fifo'[b]) <= FIFO_DEPTH /\ \A i \in 1..Len(fifo'[b]) : fifo'[b][i].bus = b
      BY <1>1, <1>3, <1>6, <2>1, CanBspAssumption
    <2> HIDE DEF S, T, T1
    <2>4. InOrder(b)'
      <3>1. \A x \in S, y \in T1 : x < y
        BY <1>3, <1>4, <2>2
      <3>2. \A x \in S \cup T1 : received[b] < x /\ x <= arrived[b] + 1
        BY <1>1, <1>3, <2>2
      <3> QED
        BY <1>1, <1>3, <1>5, <2>2, <2>3, <3>1, <3>2 DEF InOrder, S, T1
    <2>5. FifoOf(b)!Put
      <3>1. Cardinality(Channel(b)) < RX_Q_SIZE + FIFO_DEPTH
        <4>1. Len(can_rx_q) \in Nat /\ Len(fifo[b]) \in Nat
          BY <1>1
        <4> QED
          BY <1>2, <1>6, <4>1, ChannelFits, CanBspAssumption DEF ReceptionInv
      <3>2. FifoOf(b)!Cardinality(Channel(b)) < RX_Q_SIZE + FIFO_DEPTH
        BY <3>1, SameCardinality
      <3>3. Channel(b)' = Channel(b) \cup {arrived'[b]}
        BY <1>1, <1>5, <2>2
      <3> QED
        BY <1>1, <3>2, <3>3 DEF FifoOf!Put
    <2> QED
      BY <2>4, <2>5 DEF FifoStep, FifoOf!Next
  <1>7. CASE ~(Len(fifo[b]) < FIFO_DEPTH)
    <2> DEFINE last == fifo[b][Len(fifo[b])].n
    <2>1. fifo'[b] = Append(Front(fifo[b]), f)
      BY <1>7 DEF Arrive, ReceptionInv, FramesNumbered
    <2>2. fifo[b] # <<>> /\ Len(fifo[b]) \in Nat
      BY <1>1, <1>7, CanBspAssumption
    <2>3. /\ Ascending(Front(fifo[b]), b) /\ last \in T
          /\ \A i \in 1..Len(Front(fifo[b])) : Front(fifo[b])[i].bus = b
          /\ Numbers(Front(fifo[b]), b) = T \ {last} /\ \A x \in T : x <= last
      BY <1>1, <1>3, <2>2, NumbersOfFront
    <2>4. /\ Front(fifo[b]) \in Seq(Numbered) /\ Len(Front(fifo[b])) = Len(fifo[b]) - 1
      BY <1>1, <2>2, FrontFacts
    <2>5. T1 = (T \ {last}) \cup {f.n} /\ Ascending(fifo'[b], b)
      BY <1>4, <2>1, <2>3, <2>4, NumbersOfAppend
    <2>6. Len(fifo'[b]) <= FIFO_DEPTH /\ \A i \in 1..Len(fifo'[b]) : fifo'[b][i].bus = b
      BY <1>3, <2>1, <2>2, <2>3, <2>4, CanBspAssumption
    <2> HIDE DEF S, T, T1, last
    <2>7. InOrder(b)'
      <3>1. \A x \in S, y \in T1 : x < y
        BY <1>3, <1>4, <2>5
      <3>2. \A x \in S \cup T1 : received[b] < x /\ x <= arrived[b] + 1
        BY <1>1, <1>3, <2>5
      <3> QED
        BY <1>1, <1>3, <1>5, <2>5, <2>6, <3>1, <3>2 DEF InOrder, S, T1
    <2>8. FifoOf(b)!Overrun
      <3>1. last \notin S
        <4>1. SUFFICES ASSUME last \in S PROVE FALSE
          OBVIOUS
        <4>2. last < last /\ last \in Nat
          BY <1>1, <1>3, <2>3, <4>1
        <4> QED
          BY <4>2
      <3>2. ASSUME NEW x \in Channel(b)
            PROVE  x <= last
        <4>1. CASE x \in S
          <5>1. x < last /\ x \in Nat /\ last \in Nat
            BY <1>1, <1>3, <2>3, <4>1
          <5> QED
            BY <5>1
        <4>2. CASE x \in T
          BY <2>3, <4>2
        <4> QED
          BY <1>5, <4>1, <4>2
      <3>3. last \in Channel(b) /\ Channel(b)' = (Channel(b) \ {last}) \cup {arrived'[b]}
        BY <1>1, <1>5, <2>3, <2>5, <3>1
      <3> QED
        BY <1>1, <3>2, <3>3 DEF FifoOf!Overrun, FifoOf!Newest
    <2> QED
      BY <2>7, <2>8 DEF FifoStep, FifoOf!Next
  <1> QED
    BY <1>6, <1>7

\* A bus is not concerned.
LEMMA OtherBus ==
    ASSUME NEW b \in Buses, InOrder(b),
           fifo'[b] = fifo[b], arrived'[b] = arrived[b], received'[b] = received[b],
           Ascending(can_rx_q, b) => Ascending(can_rx_q', b),
           Numbers(can_rx_q', b) = Numbers(can_rx_q, b)
    PROVE  InOrder(b)' /\ FifoStep(b)
  <1>1. Channel(b)' = Channel(b)
    BY DEF Channel
  <1>2. InOrder(b)'
    BY <1>1 DEF InOrder
  <1> QED
    BY <1>1, <1>2 DEF FifoStep, FifoOf!vars

\* The interrupt moves the oldest frame of the FIFO to the queue, or drops it.
LEMMA InterruptStep ==
    ASSUME ReceptionInv, NEW b \in Buses, RxFifo0MsgPendingCallback(b),
           UNCHANGED <<arrived, received>>
    PROVE  InOrder(b)' /\ FifoStep(b)
  <1> DEFINE S == Numbers(can_rx_q, b)
             T == Numbers(fifo[b], b)
             h == Head(fifo[b])
             S1 == Numbers(can_rx_q', b)
             T1 == Numbers(fifo'[b], b)
  <1>1. /\ can_rx_q \in Seq(Numbered) /\ fifo[b] \in Seq(Numbered) /\ fifo[b] # <<>>
        /\ S \subseteq Nat /\ T \subseteq Nat /\ arrived[b] \in Nat
        /\ fifo'[b] = Tail(fifo[b])
    BY NumbersFacts DEF ReceptionInv, FramesNumbered, RxFifo0MsgPendingCallback
  <1>2. InOrder(b)
    BY DEF ReceptionInv
  <1>3. /\ \A x \in S, y \in T : x < y
        /\ \A x \in S \cup T : received[b] < x /\ x <= arrived[b]
        /\ received[b] \in Nat /\ received[b] <= arrived[b]
        /\ Ascending(can_rx_q, b) /\ Ascending(fifo[b], b) /\ Len(fifo[b]) <= FIFO_DEPTH
        /\ \A i \in 1..Len(fifo[b]) : fifo[b][i].bus = b
    BY <1>2 DEF InOrder, Channel
  <1>4. h \in Numbered /\ h.bus = b
    BY <1>1, <1>3
  <1>5. /\ Ascending(fifo'[b], b) /\ h.n \in T /\ T1 = T \ {h.n}
        /\ \A x \in T : h.n <= x
    BY <1>1, <1>3, <1>4, NumbersOfTail
  <1>6. Len(fifo'[b]) <= FIFO_DEPTH /\ \A i \in 1..Len(fifo'[b]) : fifo'[b][i].bus = b
    <2>1. /\ Len(Tail(fifo[b])) = Len(fifo[b]) - 1 /\ Len(fifo[b]) \in Nat
          /\ \A i \in 1..Len(Tail(fifo[b])) : Tail(fifo[b])[i] = fifo[b][i + 1]
                                              /\ i + 1 \in 1..Len(fifo[b])
      BY <1>1
    <2> QED
      BY <1>1, <1>3, <2>1, CanBspAssumption
  <1>7. CASE Accepts
    <2>1. can_rx_q' = Append(can_rx_q, h)
      BY <1>7 DEF RxFifo0MsgPendingCallback
    <2>2. \A x \in S : x < h.n
      BY <1>3, <1>5
    <2>3. S1 = S \cup {h.n} /\ Ascending(can_rx_q', b)
      BY <1>1, <1>3, <1>4, <2>1, <2>2, NumbersOfAppend
    <2> HIDE DEF S, T, h, S1, T1
    <2>4. /\ \A x \in S1, y \in T1 : x < y
          /\ S1 \cup T1 = S \cup T
      BY <1>1, <1>3, <1>5, <2>3
    <2>5. Channel(b)' = Channel(b)
      BY <2>4 DEF Channel, S, T, S1, T1
    <2>6. InOrder(b)'
      BY <1>2, <1>5, <1>6, <2>3, <2>4, <2>5 DEF InOrder, S1, T1
    <2> QED
      BY <2>5, <2>6 DEF FifoStep, FifoOf!vars
  <1>8. CASE ~Accepts
    <2>1. can_rx_q' = can_rx_q /\ S1 = S
      BY <1>8 DEF RxFifo0MsgPendingCallback
    <2> HIDE DEF S, T, h, S1, T1
    <2>2. h.n \notin S
      <3>1. SUFFICES ASSUME h.n \in S PROVE FALSE
        OBVIOUS
      <3>2. h.n < h.n /\ h.n \in Nat
        BY <1>1, <1>3, <1>5, <3>1
      <3> QED
        BY <3>2
    <2>3. Channel(b)' = Channel(b) \ {h.n} /\ h.n \in Channel(b)
      BY <1>5, <2>1, <2>2 DEF Channel, S, T, S1, T1
    <2>4. \A x \in S1, y \in T1 : x < y
      BY <1>3, <1>5, <2>1
    <2>5. InOrder(b)'
      BY <1>2, <1>5, <1>6, <2>1, <2>3, <2>4 DEF InOrder, S1, T1
    <2> QED
      BY <2>3, <2>5 DEF FifoStep, FifoOf!Next, FifoOf!Lose
  <1> QED
    BY <1>7, <1>8

\* GatewayTask reads the oldest frame of its bus.
LEMMA ReadStep ==
    ASSUME ReceptionInv, GatewayTask, NEW b \in Buses
    PROVE  InOrder(b)' /\ FifoStep(b)
  <1> DEFINE S == Numbers(can_rx_q, b)
             T == Numbers(fifo[b], b)
             h == Head(can_rx_q)
             S1 == Numbers(can_rx_q', b)
  <1>1. /\ can_rx_q \in Seq(Numbered) /\ fifo[b] \in Seq(Numbered) /\ can_rx_q # <<>>
        /\ S \subseteq Nat /\ T \subseteq Nat /\ arrived[b] \in Nat
        /\ can_rx_q' = Tail(can_rx_q) /\ fifo' = fifo /\ arrived' = arrived
        /\ h \in Numbered /\ received \in [Buses -> Nat]
        /\ received' = [received EXCEPT ![h.bus] = h.n]
    BY NumbersFacts DEF ReceptionInv, FramesNumbered, GatewayTask
  <1>2. InOrder(b)
    BY DEF ReceptionInv
  <1>3. /\ \A x \in S, y \in T : x < y
        /\ \A x \in S \cup T : received[b] < x /\ x <= arrived[b]
        /\ Ascending(can_rx_q, b)
    BY <1>2 DEF InOrder, Channel
  <1>4. /\ Ascending(can_rx_q', b)
        /\ h.bus # b => S1 = S
        /\ h.bus = b => h.n \in S /\ S1 = S \ {h.n} /\ \A x \in S : h.n <= x
    BY <1>1, <1>3, NumbersOfTail
  <1>5. CASE h.bus # b
    <2>1. received'[b] = received[b]
      BY <1>1, <1>5
    <2> QED
      BY <1>1, <1>2, <1>4, <1>5, <2>1, OtherBus
  <1>6. CASE h.bus = b
    <2>1. received'[b] = h.n
      BY <1>1, <1>6
    <2> HIDE DEF S, T, h, S1
    <2>2. /\ \A x \in S1, y \in T : x < y
          /\ \A x \in S1 \cup T : h.n < x /\ x <= arrived[b]
          /\ h.n \in Nat /\ h.n <= arrived[b] /\ h.n \notin T
      <3>1. h.n \in S /\ S1 = S \ {h.n} /\ \A x \in S : h.n <= x
        BY <1>4, <1>6
      <3>2. h.n \in Nat /\ h.n <= arrived[b] /\ \A y \in T : h.n < y
        BY <1>1, <1>3, <3>1
      <3>3. h.n \notin T
        <4>1. SUFFICES ASSUME h.n \in T PROVE FALSE
          OBVIOUS
        <4>2. h.n < h.n
          BY <3>2, <4>1
        <4> QED
          BY <3>2, <4>2
      <3>4. \A x \in S1 : h.n < x /\ x <= arrived[b]
        BY <1>1, <1>3, <3>1, <3>2
      <3>5. \A x \in T : h.n < x /\ x <= arrived[b]
        BY <1>3, <3>2
      <3> QED
        BY <1>3, <3>1, <3>2, <3>3, <3>4, <3>5
    <2>3. /\ Channel(b)' = Channel(b) \ {h.n} /\ h.n \in Channel(b)
          /\ \A x \in Channel(b) : h.n <= x
      <3>1. Channel(b) = S \cup T /\ Channel(b)' = S1 \cup T
        BY <1>1 DEF Channel, S, T, S1
      <3>2. h.n \in S /\ S1 = S \ {h.n} /\ \A x \in S : h.n <= x
        BY <1>4, <1>6
      <3>3. ASSUME NEW x \in T
            PROVE  h.n <= x
        <4>1. h.n < x /\ x \in Nat /\ h.n \in Nat
          BY <1>1, <2>2
        <4> QED
          BY <4>1
      <3> QED
        BY <2>2, <3>1, <3>2, <3>3
    <2>4. InOrder(b)'
      <3>1. Channel(b)' = S1 \cup T
        BY <1>1 DEF Channel, S, T, S1
      <3> QED
        BY <1>1, <1>2, <1>4, <2>1, <2>2, <3>1 DEF InOrder, S1, T
    <2>5. FifoOf(b)!Receive
      BY <1>1, <2>1, <2>3 DEF FifoOf!Receive, FifoOf!Oldest
    <2> QED
      BY <2>4, <2>5 DEF FifoStep, FifoOf!Next
  <1> QED
    BY <1>5, <1>6

LEMMA ReceptionInit == Init => ReceptionInv /\ Bus1!Init /\ Bus2!Init
  <1> SUFFICES ASSUME Init PROVE ReceptionInv /\ Bus1!Init /\ Bus2!Init
    OBVIOUS
  <1>1. FramesNumbered
    BY StartInit DEF StartInv
  <1>2. /\ can_rx_q = <<>> /\ received \in [Buses -> Nat]
        /\ \A b \in Buses : fifo[b] = <<>> /\ arrived[b] = 0 /\ received[b] = 0
    BY DEF Init, CanBspInit
  <1>3. \A b \in Buses : Numbers(<<>>, b) = {}
    BY DEF Numbers
  <1>4. \A b \in Buses : Channel(b) = {}
    BY <1>2, <1>3 DEF Channel
  <1>5. Len(<<>>) = 0 /\ 1..0 = {} /\ \A b \in Buses : Ascending(<<>>, b)
    BY DEF Ascending
  <1>6. \A b \in Buses : InOrder(b)
    BY <1>2, <1>3, <1>4, <1>5, CanBspAssumption DEF InOrder
  <1>7. Bus1!Init /\ Bus2!Init
    BY <1>2, <1>4 DEF Bus1!Init, Bus2!Init, Buses
  <1> QED
    BY <1>1, <1>2, <1>5, <1>6, <1>7, CanBspAssumption DEF ReceptionInv

OrderKept ==
    /\ received' \in [Buses -> Nat] /\ Len(can_rx_q') <= RX_Q_SIZE
    /\ \A b \in Buses : InOrder(b)' /\ FifoStep(b)

LEMMA ReceptionStep ==
    ASSUME ReceptionInv, [Next]_vars
    PROVE  ReceptionInv' /\ \A b \in Buses : FifoStep(b)
  <1>1. FramesNumbered'
    BY FramesStep DEF ReceptionInv
  <1>2. /\ can_rx_q \in Seq(Numbered) /\ fifo \in [Buses -> Seq(Numbered)]
        /\ arrived \in [Buses -> Nat] /\ received \in [Buses -> Nat]
        /\ Len(can_rx_q) <= RX_Q_SIZE /\ \A b \in Buses : InOrder(b)
    BY DEF ReceptionInv, FramesNumbered
  <1> SUFFICES OrderKept
    BY <1>1 DEF ReceptionInv, OrderKept
  <1>3. ASSUME UNCHANGED <<fifo, can_rx_q, arrived, received>>
        PROVE  OrderKept
    BY <1>2, <1>3, OtherBus DEF OrderKept
  <1>4. CASE StartDefaultTask
    <2>1. UNCHANGED <<fifo, can_rx_q, arrived, received>>
      BY <1>4 DEF StartDefaultTask, StartCan, StartBridge, StartTasks, CAN_BSP_Init, can, inbound
    <2> QED
      BY <1>3, <2>1
  <1>5. CASE GatewayTask
    <2>1. \A b \in Buses : InOrder(b)' /\ FifoStep(b)
      BY <1>5, ReadStep
    <2>2. can_rx_q' = Tail(can_rx_q) /\ can_rx_q # <<>> /\ Head(can_rx_q) \in Numbered
      BY <1>2, <1>5 DEF GatewayTask
    <2>3. received' = [received EXCEPT ![Head(can_rx_q).bus] = Head(can_rx_q).n]
      BY <1>5 DEF GatewayTask
    <2>4. received' \in [Buses -> Nat]
      <3>1. Head(can_rx_q).n \in Nat
        BY <2>2 DEF Numbered
      <3> QED
        BY <1>2, <2>3, <3>1
    <2>5. Len(can_rx_q') <= RX_Q_SIZE
      <3>1. Len(Tail(can_rx_q)) = Len(can_rx_q) - 1 /\ Len(can_rx_q) \in Nat
        BY <1>2, <2>2
      <3> QED
        BY <1>2, <2>2, <3>1, CanBspAssumption
    <2> QED
      BY <2>1, <2>4, <2>5 DEF OrderKept
  <1>6. CASE ClusterTask
    <2>1. UNCHANGED <<fifo, can_rx_q, arrived, received>>
      BY <1>6 DEF ClusterTask, TestMailboxes, ChooseMailbox, FillId, FillData, LoadTir,
                  StoreTir, Others, inbound
    <2> QED
      BY <1>3, <2>1
  <1>7. ASSUME NEW s \in Sources, FrameOnBus(s)
        PROVE  OrderKept
    <2> DEFINE c == s[1]
               f == [bus |-> s[1], id |-> s[2], rpm |-> s[3], n |-> arrived[s[1]] + 1]
    <2>1. c \in Buses
      <3>1. 1 \in Nat \ {0}
        OBVIOUS
      <3> QED
        BY <3>1, SourcesNumbered
    <2>2. arrived' = [arrived EXCEPT ![c] = @ + 1] /\ received' = received
      BY <1>7 DEF FrameOnBus
    <2>3. arrived'[c] = arrived[c] + 1 /\ arrived[c] + 1 \in Nat \ {0}
      BY <1>2, <2>1, <2>2
    <2>4. f \in Numbered
      BY <2>3, SourcesNumbered
    <2>5. Arrive(f)
      BY <1>7, <2>3 DEF FrameOnBus
    <2>6. f.bus = c /\ f.n = arrived[c] + 1
      OBVIOUS
    <2> HIDE DEF f, c
    <2>7. InOrder(c)' /\ FifoStep(c)
      BY <2>1, <2>2, <2>4, <2>5, <2>6, ArriveStep
    <2>8. ASSUME NEW b \in Buses, b # c
          PROVE  InOrder(b)' /\ FifoStep(b)
      <3>1. fifo'[b] = fifo[b] /\ can_rx_q' = can_rx_q
        BY <1>2, <2>1, <2>5, <2>6, <2>8 DEF Arrive
      <3>2. arrived'[b] = arrived[b] /\ received'[b] = received[b]
        BY <1>2, <2>1, <2>2, <2>8
      <3> QED
        BY <1>2, <3>1, <3>2, OtherBus
    <2> QED
      BY <1>2, <2>2, <2>5, <2>7, <2>8 DEF Arrive, OrderKept
  <1>8. ASSUME NEW c \in Buses, Interrupt(c)
        PROVE  OrderKept
    <2>1. RxFifo0MsgPendingCallback(c) /\ UNCHANGED <<arrived, received>>
      BY <1>8 DEF Interrupt
    <2>2. InOrder(c)' /\ FifoStep(c)
      BY <2>1, InterruptStep
    <2> DEFINE h == Head(fifo[c])
    <2>3. fifo[c] # <<>> /\ h \in Numbered /\ h.bus = c
      <3>1. fifo[c] # <<>> /\ fifo[c] \in Seq(Numbered)
        BY <1>2, <2>1 DEF RxFifo0MsgPendingCallback
      <3>2. \A i \in 1..Len(fifo[c]) : fifo[c][i].bus = c
        BY <1>2 DEF InOrder
      <3> QED
        BY <3>1, <3>2
    <2> HIDE DEF h
    <2>4. (can_rx_q' = Append(can_rx_q, h) /\ Accepts) \/ can_rx_q' = can_rx_q
      BY <2>1 DEF RxFifo0MsgPendingCallback, h
    <2>5. Len(can_rx_q') <= RX_Q_SIZE
      BY <1>2, <2>4, CanBspAssumption DEF Accepts
    <2>6. ASSUME NEW b \in Buses, b # c
          PROVE  InOrder(b)' /\ FifoStep(b)
      <3>1. fifo'[b] = fifo[b] /\ arrived'[b] = arrived[b] /\ received'[b] = received[b]
        BY <1>2, <2>1, <2>6 DEF RxFifo0MsgPendingCallback
      <3>2. /\ Ascending(can_rx_q, b) => Ascending(can_rx_q', b)
            /\ Numbers(can_rx_q', b) = Numbers(can_rx_q, b)
        <4>1. CASE can_rx_q' = Append(can_rx_q, h)
          <5>1. /\ Numbers(Append(can_rx_q, h), b) = Numbers(can_rx_q, b) \cup {}
                /\ Ascending(can_rx_q, b) => Ascending(Append(can_rx_q, h), b)
            BY <1>2, <2>3, <2>6, NumbersOfAppend
          <5> QED
            BY <4>1, <5>1
        <4>2. CASE can_rx_q' = can_rx_q
          BY <4>2
        <4> QED
          BY <2>4, <4>1, <4>2
      <3> QED
        BY <1>2, <3>1, <3>2, OtherBus
    <2> QED
      BY <1>2, <2>1, <2>2, <2>5, <2>6 DEF OrderKept
  <1>9. ASSUME NEW m \in Mailbox, Transmit(m)
        PROVE  OrderKept
    <2>1. UNCHANGED <<fifo, can_rx_q, arrived, received>>
      BY <1>9 DEF Transmit, Leave, inbound
    <2> QED
      BY <1>3, <2>1
  <1>10. CASE UNCHANGED vars
    <2>1. UNCHANGED <<fifo, can_rx_q, arrived, received>>
      BY <1>10 DEF vars, can, inbound
    <2> QED
      BY <1>3, <2>1
  <1> QED
    BY <1>4, <1>5, <1>6, <1>7, <1>8, <1>9, <1>10 DEF Next

\* Each bus by itself, as the property names it.
LEMMA BusSteps ==
    ASSUME \A b \in Buses : FifoStep(b)
    PROVE  [Bus1!Next]_(Bus1!vars) /\ [Bus2!Next]_(Bus2!vars)
  <1>1. \A S : Bus1!Cardinality(S) = Cardinality(S) /\ Bus2!Cardinality(S) = Cardinality(S)
    BY Zenon DEF Bus1!Cardinality, Bus2!Cardinality, Cardinality
  <1>2. FifoStep(1) /\ FifoStep(2)
    BY DEF Buses
  <1>3. [Bus1!Next]_(Bus1!vars)
    BY <1>1, <1>2, SameCardinality
       DEF FifoStep, FifoOf!vars, FifoOf!Next, FifoOf!Put, FifoOf!Overrun, FifoOf!Newest,
           FifoOf!Lose, FifoOf!Receive, FifoOf!Oldest,
           Bus1!vars, Bus1!Next, Bus1!Put, Bus1!Overrun, Bus1!Newest, Bus1!Lose,
           Bus1!Receive, Bus1!Oldest
  <1>4. [Bus2!Next]_(Bus2!vars)
    BY <1>1, <1>2, SameCardinality
       DEF FifoStep, FifoOf!vars, FifoOf!Next, FifoOf!Put, FifoOf!Overrun, FifoOf!Newest,
           FifoOf!Lose, FifoOf!Receive, FifoOf!Oldest,
           Bus2!vars, Bus2!Next, Bus2!Put, Bus2!Overrun, Bus2!Newest, Bus2!Lose,
           Bus2!Receive, Bus2!Oldest
  <1> QED
    BY <1>3, <1>4

\* can_bsp.c:184-197 and gateway_tasks.c: for every size of FIFO and queue, and whatever
\* the interrupts drop, the frames of each bus reach GatewayTask in order and once.
THEOREM ReceptionIsLossyFifo == Spec => BusesInOrder
  <1>1. ReceptionInv /\ [Next]_vars
          => ReceptionInv' /\ [Bus1!Next]_(Bus1!vars) /\ [Bus2!Next]_(Bus2!vars)
    BY ReceptionStep, BusSteps
  <1> QED
    BY <1>1, ReceptionInit, PTL DEF Spec, BusesInOrder, Bus1!Spec, Bus2!Spec

-----------------------------------------------------------------------------
(* The mailboxes.                                                              *)

Ids == {"none", "ENGINE_DATA", "WARNING", "UDS_RESPONSE", "MOTOR_1", "BODY_STATUS"}

FrameSet == [by : {"nobody", "cluster", "gateway"}, id : Ids, n : Nat]

\* The bus of the frame that an output of GatewayTask goes back to.
BusOf(id) == IF id = "UDS_RESPONSE" THEN 2 ELSE 1

\* No frame is in a mailbox or on the bus before its sender has come to its number.
Known(f) ==
    \/ f = NoFrame
    \/ f.by = "cluster" /\ f.n <= sends
    \/ f.by = "gateway" /\ f.n <= received[BusOf(f.id)]

MailboxType == mailbox \in [Mailbox -> [pending : BOOLEAN, id : Ids, data : FrameSet]]

\* Every frame is put into one mailbox only.
MailboxesOK ==
    /\ MailboxType
    /\ \A m \in Mailbox : Known(mailbox[m].data)
    /\ \A m \in Mailbox : mailbox[m].pending => mailbox[m].data # NoFrame
    /\ \A k, m \in Mailbox :
          k # m /\ mailbox[k].data = mailbox[m].data => mailbox[k].data = NoFrame
    /\ \A f \in on_bus : f \in FrameSet /\ Known(f)

\* What ClusterTask's call may rely on, as long as GatewayTask has not taken its mailbox.
Undisturbed ==
    /\ ~mailbox[chosen].pending
    /\ pc # "chosen" => mailbox[chosen].id = frame.id
    /\ pc \in {"data", "loaded"} => mailbox[chosen].data = frame
    /\ pc = "loaded" => tir = frame.id

CallOK ==
    /\ pc \in {"idle", "tested"} \/ Filling
    /\ clashed \in BOOLEAN /\ (pc \in {"idle", "tested"} => ~clashed)
    /\ pc # "idle" => /\ frame \in FrameSet /\ frame.by = "cluster" /\ frame.n = sends
                      /\ frame \notin on_bus
    /\ pc \in {"tested", "chosen", "id"} => \A m \in Mailbox : mailbox[m].data # frame
    /\ pc \in {"data", "loaded"} =>
          \A m \in Mailbox : mailbox[m].data = frame => m = chosen /\ ~mailbox[m].pending
    /\ Filling => chosen \in Mailbox /\ (clashed => mailbox[chosen].data # NoFrame)
    /\ Filling /\ ~clashed => Undisturbed
    /\ pc = "loaded" => tir \in Ids

\* The mailboxes whose transmission will show that nobody wanted it.
Spoiled == {m \in Pending : mailbox[m].id # mailbox[m].data.id \/ mailbox[m].data \in on_bus}

Counters == accepted \in Nat /\ left \in Nat /\ wrong \in Nat /\ clashes \in Nat /\ sends \in Nat

Accounts ==
    LET gone == left + Cardinality(Pending)
    IN  /\ gone <= accepted
        /\ (accepted - gone) + wrong + Cardinality(Spoiled) <= clashes

MailboxInv == Counters /\ MailboxesOK /\ CallOK /\ Accounts

LEMMA Sizes ==
    /\ IsFiniteSet(Mailbox)
    /\ IsFiniteSet(Pending) /\ Cardinality(Pending) \in Nat
    /\ IsFiniteSet(Spoiled) /\ Cardinality(Spoiled) \in Nat
  <1>1. 0 \in Int /\ MAILBOXES - 1 \in Int
    BY CanBspAssumption
  <1>2. IsFiniteSet(Mailbox)
    BY <1>1, FS_Interval DEF Mailbox
  <1>3. Pending \in SUBSET Mailbox /\ Spoiled \in SUBSET Mailbox
    BY DEF Pending, Spoiled
  <1>4. IsFiniteSet(Pending) /\ IsFiniteSet(Spoiled)
    BY <1>2, <1>3, FS_Subset
  <1> QED
    BY <1>2, <1>4, FS_CardinalityType

\* The mailbox the controller names is free.
LEMMA FirstIsFree ==
    ASSUME Free # {}
    PROVE  FirstOf(Free) \in Mailbox /\ FirstOf(Free) \notin Pending
  <1>1. Free \subseteq Nat
    BY CanBspAssumption DEF Free, Mailbox
  <1> DEFINE less == {ss \in Nat \X Nat : ss[1] < ss[2]}
  <1>2. IsWellFoundedOn(less, Nat)
    <2>1. less = OpToRel(<, Nat)
      BY DEF OpToRel
    <2> QED
      BY <2>1, NatLessThanWellFounded
  <1>3. \E x \in Free : \A y \in Free : x <= y
    <2>1. PICK x \in Free : \A y \in Free : ~(<<y, x>> \in less)
      <3> HIDE DEF less
      <3> QED
        BY <1>1, <1>2, WFMin
    <2>2. ASSUME NEW y \in Free, ~(x <= y)
          PROVE  FALSE
      <3>1. y \in Nat /\ x \in Nat /\ y < x
        BY <1>1, <2>2
      <3>2. <<y, x>> \in Nat \X Nat /\ <<y, x>>[1] = y /\ <<y, x>>[2] = x
        BY <3>1
      <3>3. <<y, x>> \in less
        BY <3>1, <3>2
      <3> QED
        BY <2>1, <3>3
    <2> QED
      BY <2>2
  <1>4. FirstOf(Free) \in Free
    BY <1>3 DEF FirstOf, Min
  <1> QED
    BY <1>4 DEF Free

LEMMA MailboxInit == Init => MailboxInv
  <1> SUFFICES ASSUME Init PROVE MailboxInv
    OBVIOUS
  <1>1. /\ pc = "idle" /\ clashed = FALSE /\ on_bus = {}
        /\ accepted = 0 /\ left = 0 /\ wrong = 0 /\ clashes = 0 /\ sends = 0
        /\ mailbox = [m \in Mailbox |-> [pending |-> FALSE, id |-> "none", data |-> NoFrame]]
    BY DEF Init, CanBspInit
  <1>2. NoFrame \in FrameSet
    BY DEF NoFrame, FrameSet, Ids
  <1>3. MailboxesOK
    BY <1>1, <1>2 DEF MailboxesOK, MailboxType, Known, Ids
  <1>4. Pending = {} /\ Spoiled = {}
    BY <1>1 DEF Pending, Spoiled
  <1>5. Accounts
    BY <1>1, <1>4, FS_EmptySet DEF Accounts
  <1>6. CallOK
    BY <1>1 DEF CallOK, Filling
  <1> QED
    BY <1>1, <1>3, <1>5, <1>6 DEF MailboxInv, Counters

LEMMA KnownStays ==
    ASSUME NEW f \in FrameSet, Known(f), sends \in Nat, sends' \in Nat, sends <= sends',
           \A b \in Buses : /\ received[b] \in Nat /\ received'[b] \in Nat
                            /\ received[b] <= received'[b]
    PROVE  Known(f)'
  <1>1. f.n \in Nat /\ BusOf(f.id) \in Buses
    BY DEF FrameSet, BusOf, Buses
  <1> QED
    BY <1>1 DEF Known

\* As long as the mailboxes that wait are left alone, so are the accounts.
LEMMA WaitingKept ==
    ASSUME on_bus' = on_bus,
           \A m \in Mailbox : /\ mailbox'[m].pending = mailbox[m].pending
                              /\ mailbox[m].pending => mailbox'[m] = mailbox[m]
    PROVE  Pending' = Pending /\ Spoiled' = Spoiled
  <1>1. Pending' = Pending
    BY DEF Pending
  <1> QED
    BY <1>1 DEF Spoiled, Pending

\* Time only moves the numbers on.
Onward ==
    /\ sends \in Nat /\ sends' \in Nat /\ sends <= sends'
    /\ \A b \in Buses : /\ received[b] \in Nat /\ received'[b] \in Nat
                        /\ received[b] <= received'[b]

\* The frames in the mailboxes stay; what goes out comes from one of them.
LEMMA DataKept ==
    ASSUME MailboxesOK, Onward, MailboxType',
           \A m \in Mailbox : /\ mailbox'[m].data = mailbox[m].data
                              /\ mailbox'[m].pending => mailbox[m].data # NoFrame,
           \A f \in on_bus' : f \in on_bus \/ \E m \in Mailbox : f = mailbox[m].data
    PROVE  MailboxesOK'
  <1>1. \A m \in Mailbox : mailbox[m].data \in FrameSet /\ Known(mailbox[m].data)
    BY DEF MailboxesOK, MailboxType
  <1>2. \A f \in FrameSet : Known(f) => Known(f)'
    BY KnownStays DEF Onward
  <1>3. \A m \in Mailbox : Known(mailbox[m].data)'
    <2> SUFFICES ASSUME NEW m \in Mailbox
                 PROVE  Known(mailbox[m].data)'
      OBVIOUS
    <2> DEFINE f == mailbox[m].data
    <2>1. f \in FrameSet /\ Known(f)
      BY <1>1
    <2>2. mailbox'[m].data = f
      OBVIOUS
    <2>3. Known(f)'
      BY <1>2, <2>1
    <2> QED
      BY <2>2, <2>3 DEF Known
  <1>4. \A f \in on_bus' : f \in FrameSet /\ Known(f)'
    BY <1>1, <1>2 DEF MailboxesOK
  <1>5. \A k, m \in Mailbox :
           k # m /\ mailbox'[k].data = mailbox'[m].data => mailbox'[k].data = NoFrame
    BY DEF MailboxesOK
  <1> QED
    BY <1>3, <1>4, <1>5 DEF MailboxesOK

\* A frame that is in no mailbox yet is put into mailbox k.
LEMMA DataPlaced ==
    ASSUME MailboxesOK, Onward, MailboxType', NEW k \in Mailbox, NEW f \in FrameSet,
           f # NoFrame, Known(f)', \A m \in Mailbox : mailbox[m].data # f,
           mailbox'[k].data = f, \A m \in Mailbox : m # k => mailbox'[m] = mailbox[m],
           on_bus' = on_bus
    PROVE  MailboxesOK'
  <1>1. \A m \in Mailbox : mailbox[m].data \in FrameSet /\ Known(mailbox[m].data)
    BY DEF MailboxesOK, MailboxType
  <1>2. \A g \in FrameSet : Known(g) => Known(g)'
    BY KnownStays DEF Onward
  <1>3. \A m \in Mailbox : Known(mailbox[m].data)'
    BY <1>1, <1>2 DEF Known
  <1>4. \A g \in on_bus' : g \in FrameSet /\ Known(g)'
    BY <1>1, <1>2 DEF MailboxesOK
  <1>5. \A i, m \in Mailbox :
           i # m /\ mailbox'[i].data = mailbox'[m].data => mailbox'[i].data = NoFrame
    BY DEF MailboxesOK
  <1>6. \A m \in Mailbox : mailbox'[m].pending => mailbox'[m].data # NoFrame
    BY DEF MailboxesOK
  <1> QED
    BY <1>3, <1>4, <1>5, <1>6 DEF MailboxesOK

LEMMA QuietStep ==
    ASSUME MailboxInv, Onward, UNCHANGED <<mailbox, cluster, outcome>>
    PROVE  MailboxInv'
  <1>1. MailboxesOK'
    <2>1. MailboxType' /\ on_bus' = on_bus /\ mailbox' = mailbox
      BY DEF MailboxInv, MailboxesOK, MailboxType, outcome
    <2> QED
      BY <2>1, DataKept DEF MailboxInv, MailboxesOK
  <1>2. CallOK'
    BY DEF MailboxInv, CallOK, Undisturbed, Filling, cluster, outcome
  <1>3. Pending' = Pending /\ Spoiled' = Spoiled
    BY DEF Pending, Spoiled, outcome
  <1>4. Accounts' /\ Counters'
    BY <1>3 DEF MailboxInv, Accounts, Counters, cluster, outcome
  <1> QED
    BY <1>1, <1>2, <1>4 DEF MailboxInv

\* GatewayTask fills a free mailbox as a whole, with the frame of a new number.
LEMMA SubmitStep ==
    ASSUME MailboxInv, Onward, UNCHANGED <<cluster, left, on_bus, wrong, clashes>>, HAL_OK,
           NEW f \in FrameSet, f.by = "gateway", Known(f)', f.n > received[BusOf(f.id)],
           SendTo(f), accepted' = accepted + 1,
           clashed' = (clashed \/ (Filling /\ FirstOf(Free) = chosen))
    PROVE  MailboxInv'
  <1> DEFINE k == FirstOf(Free)
  <1>1. k \in Mailbox /\ k \notin Pending
    BY FirstIsFree DEF HAL_OK
  <1>2. mailbox' = [mailbox EXCEPT ![k] = [pending |-> TRUE, id |-> f.id, data |-> f]]
    BY DEF SendTo
  <1> HIDE DEF k
  <1>3. MailboxesOK /\ MailboxType /\ CallOK /\ Accounts /\ Counters
    BY DEF MailboxInv, MailboxesOK
  <1>4. /\ mailbox'[k] = [pending |-> TRUE, id |-> f.id, data |-> f]
        /\ \A m \in Mailbox : m # k => mailbox'[m] = mailbox[m]
    BY <1>1, <1>2, <1>3 DEF MailboxType
  <1>5. f # NoFrame /\ f.id \in Ids
    BY DEF NoFrame, FrameSet
  <1>6. MailboxType'
    BY <1>1, <1>2, <1>3, <1>5 DEF MailboxType
  <1>7. ASSUME NEW g \in FrameSet, Known(g)
        PROVE  g # f
    <2>1. SUFFICES ASSUME g = f PROVE FALSE
      OBVIOUS
    <2>2. f.n <= received[BusOf(f.id)]
      BY <1>5, <1>7, <2>1 DEF Known
    <2>3. f.n \in Nat /\ received[BusOf(f.id)] \in Nat
      BY DEF Onward, FrameSet, BusOf, Buses
    <2> QED
      BY <2>2, <2>3
  <1>8. f \notin on_bus /\ \A m \in Mailbox : mailbox[m].data # f
    BY <1>3, <1>7 DEF MailboxesOK, MailboxType
  <1>9. mailbox'[k].pending /\ mailbox'[k].id = f.id /\ mailbox'[k].data = f
    BY <1>4
  <1>10. MailboxesOK'
    BY <1>1, <1>3, <1>4, <1>5, <1>6, <1>8, <1>9, DataPlaced
  <1>11. UNCHANGED <<pc, chosen, frame, tir, sends>>
    BY DEF cluster
  <1>12. CallOK'
    <2>1. pc # "idle" => frame # f
      BY <1>3 DEF CallOK
    <2>2. clashed' \in BOOLEAN /\ (pc \in {"idle", "tested"} => ~clashed')
      BY <1>3 DEF CallOK, Filling
    <2>3. pc \in {"tested", "chosen", "id"} => \A m \in Mailbox : mailbox'[m].data # frame
      BY <1>3, <1>4, <1>9, <2>1 DEF CallOK
    <2>4. ASSUME pc \in {"data", "loaded"}, NEW m \in Mailbox, mailbox'[m].data = frame
          PROVE  m = chosen /\ ~mailbox'[m].pending
      BY <1>3, <1>4, <1>9, <2>1, <2>4 DEF CallOK
    <2>5. ASSUME Filling
          PROVE  chosen \in Mailbox /\ (clashed' => mailbox'[chosen].data # NoFrame)
      <3>1. chosen \in Mailbox /\ (clashed => mailbox[chosen].data # NoFrame)
        BY <1>3, <2>5 DEF CallOK
      <3>2. CASE chosen = k
        BY <1>5, <1>9, <3>1, <3>2
      <3>3. CASE chosen # k
        BY <1>4, <3>1, <3>3 DEF k
      <3> QED
        BY <3>2, <3>3
    <2>6. ASSUME Filling, ~clashed'
          PROVE  Undisturbed'
      <3>1. ~clashed /\ chosen # k
        BY <2>6 DEF k
      <3>2. Undisturbed /\ chosen \in Mailbox
        BY <1>3, <2>6, <3>1 DEF CallOK
      <3>3. mailbox'[chosen] = mailbox[chosen]
        BY <1>4, <3>1, <3>2
      <3> QED
        BY <1>11, <3>2, <3>3 DEF Undisturbed
    <2>7. Filling' = Filling
      BY <1>11 DEF Filling
    <2> QED
      BY <1>3, <1>11, <2>2, <2>3, <2>4, <2>5, <2>6, <2>7 DEF CallOK
  <1>13. Pending' = Pending \cup {k} /\ Spoiled' = Spoiled
    <2>1. ASSUME NEW m \in Mailbox
          PROVE  mailbox'[m].pending <=> (mailbox[m].pending \/ m = k)
      BY <1>4, <1>9
    <2>2. Pending' = Pending \cup {k}
      BY <1>1, <2>1 DEF Pending
    <2>3. \A m \in Pending : mailbox'[m] = mailbox[m] /\ m \in Mailbox
      BY <1>1, <1>4 DEF Pending
    <2>4. k \notin Spoiled /\ k \notin Spoiled'
      BY <1>1, <1>8, <1>9 DEF Spoiled
    <2> QED
      BY <2>2, <2>3, <2>4 DEF Spoiled
  <1>14. Cardinality(Pending') = Cardinality(Pending) + 1
    BY <1>1, <1>13, Sizes, FS_AddElement
  <1>15. Accounts' /\ Counters'
    BY <1>3, <1>11, <1>13, <1>14, Sizes DEF Accounts, Counters
  <1> QED
    BY <1>10, <1>12, <1>15 DEF MailboxInv

LEMMA GatewayStep ==
    ASSUME MailboxInv, ReceptionInv, GatewayTask
    PROVE  MailboxInv'
  <1> DEFINE h == Head(can_rx_q)
  <1>1. /\ h \in Numbered /\ can_rx_q \in Seq(Numbered) /\ can_rx_q # <<>>
        /\ received \in [Buses -> Nat] /\ sends \in Nat
    BY DEF GatewayTask, ReceptionInv, FramesNumbered, MailboxInv, Counters
  <1>2. received' = [received EXCEPT ![h.bus] = h.n] /\ UNCHANGED cluster
    BY DEF GatewayTask
  <1>3. h.bus \in Buses /\ h.n \in Nat
    BY <1>1 DEF Numbered, Buses
  <1>4. received[h.bus] < h.n
    <2>1. InOrder(h.bus)
      BY <1>3 DEF ReceptionInv
    <2>2. 1 \in 1..Len(can_rx_q) /\ can_rx_q[1] = h
      BY <1>1
    <2>3. h.n \in Channel(h.bus)
      BY <1>1, <1>3, <2>2, NumbersFacts DEF Channel
    <2> QED
      BY <2>1, <2>3 DEF InOrder
  <1>5. Onward
    BY <1>1, <1>2, <1>3, <1>4 DEF Onward, cluster
  <1>6. PICK id \in Outputs(h) :
           IF id = "none" THEN UNCHANGED <<mailbox, outcome>>
           ELSE Submit([by |-> "gateway", id |-> id, n |-> h.n])
    BY DEF GatewayTask
  <1>7. CASE id = "none"
    BY <1>2, <1>5, <1>6, <1>7, QuietStep
  <1>8. CASE id # "none"
    <2>1. id \in Ids /\ BusOf(id) = h.bus
      BY <1>1, <1>8 DEF Outputs, Ids, BusOf, Numbered
    <2>2. PICK f \in FrameSet : f = [by |-> "gateway", id |-> id, n |-> h.n]
      BY <1>3, <2>1 DEF FrameSet
    <2>3. Submit(f)
      BY <1>6, <1>8, <2>2
    <2>4. f.by = "gateway" /\ f.n = h.n /\ f.id = id /\ h.n \in Nat
      BY <1>3, <2>2
    <2>5. received'[h.bus] = h.n
      BY <1>1, <1>2, <1>3
    <2>6. Known(f)' /\ f.n > received[BusOf(f.id)]
      <3>1. BusOf(f.id) = h.bus
        BY <2>1, <2>4
      <3>2. f.n <= received'[BusOf(f.id)] /\ f.n > received[BusOf(f.id)]
        BY <1>1, <1>3, <1>4, <2>4, <2>5, <3>1
      <3> QED
        BY <2>4, <3>2 DEF Known
    <2>7. UNCHANGED <<left, on_bus, wrong, clashes>> /\ SendTo(f)
      BY <2>3 DEF Submit
    <2>8. CASE HAL_OK
      <3>1. /\ accepted' = accepted + 1
            /\ clashed' = (clashed \/ (Filling /\ FirstOf(Free) = chosen))
        BY <2>3, <2>8 DEF Submit
      <3> QED
        BY <1>2, <1>5, <2>4, <2>6, <2>7, <2>8, <3>1, SubmitStep
    <2>9. CASE ~HAL_OK
      <3>1. mailbox' = mailbox /\ accepted' = accepted /\ clashed' = clashed
        <4>1. mailbox' = mailbox /\ accepted' = accepted
          BY <2>3, <2>9 DEF Submit, SendTo
        <4>2. clashed' = clashed
          BY <2>3, <2>9 DEF Submit, MailboxInv, CallOK
        <4> QED
          BY <4>1, <4>2
      <3> QED
        BY <1>2, <1>5, <2>7, <3>1, QuietStep DEF outcome
    <2> QED
      BY <2>8, <2>9
  <1> QED
    BY <1>7, <1>8

LEMMA TestStep ==
    ASSUME MailboxInv, Onward, NEW id \in {"MOTOR_1", "BODY_STATUS"}, TestMailboxes(id)
    PROVE  MailboxInv'
  <1>1. MailboxesOK /\ MailboxType /\ CallOK /\ Accounts /\ Counters
    BY DEF MailboxInv, MailboxesOK
  <1>2. /\ pc = "idle" /\ sends' = sends + 1
        /\ UNCHANGED <<mailbox, chosen, tir, accepted, left, on_bus, wrong, clashed, clashes>>
    BY DEF TestMailboxes, outcome
  <1>3. MailboxesOK'
    <2>1. MailboxType'
      BY <1>1, <1>2 DEF MailboxType
    <2> QED
      BY <1>1, <1>2, <2>1, DataKept DEF MailboxesOK
  <1>4. CASE pc' = pc
    <2> QED
      <3>1. CallOK'
        BY <1>1, <1>2, <1>4 DEF CallOK, Filling
      <3>2. Pending' = Pending /\ Spoiled' = Spoiled
        BY <1>2 DEF Pending, Spoiled
      <3> QED
        BY <1>1, <1>2, <1>3, <3>1, <3>2 DEF Accounts, Counters, MailboxInv
  <1>5. CASE pc' = "tested" /\ frame' = [by |-> "cluster", id |-> id, n |-> sends']
    <2>1. frame' \in FrameSet /\ frame'.by = "cluster" /\ frame'.n = sends'
      BY <1>1, <1>2, <1>5 DEF Counters, FrameSet, Ids
    <2>2. ASSUME NEW g \in FrameSet, Known(g)
          PROVE  g # frame'
      <3>1. SUFFICES ASSUME g = frame' PROVE FALSE
        OBVIOUS
      <3>2. g.n <= sends
        BY <2>1, <2>2, <3>1 DEF Known, NoFrame
      <3> QED
        BY <1>1, <1>2, <2>1, <3>1, <3>2 DEF Counters
    <2>3. frame' \notin on_bus /\ \A m \in Mailbox : mailbox[m].data # frame'
      BY <1>1, <2>2 DEF MailboxesOK, MailboxType
    <2>4. CallOK'
      BY <1>1, <1>2, <1>5, <2>1, <2>3 DEF CallOK, Filling
    <2>5. Pending' = Pending /\ Spoiled' = Spoiled
      BY <1>2 DEF Pending, Spoiled
    <2> QED
      BY <1>1, <1>2, <1>3, <2>4, <2>5 DEF Accounts, Counters, MailboxInv
  <1> QED
    BY <1>4, <1>5 DEF TestMailboxes

LEMMA ChooseStep ==
    ASSUME MailboxInv, Onward, ChooseMailbox
    PROVE  MailboxInv'
  <1>1. MailboxesOK /\ MailboxType /\ CallOK /\ Accounts /\ Counters
    BY DEF MailboxInv, MailboxesOK
  <1>2. pc = "tested" /\ mailbox' = mailbox /\ ~clashed
    BY <1>1 DEF ChooseMailbox, CallOK
  <1>3. UNCHANGED <<sends, accepted, left, on_bus, wrong, clashed, clashes>>
    <2>1. CASE Free # {}
      BY <2>1 DEF ChooseMailbox, outcome
    <2>2. CASE Free = {}
      <3>1. clashed' = clashed
        BY <1>1, <1>2, <2>2 DEF ChooseMailbox, Return, CallOK
      <3> QED
        BY <1>2, <2>2, <3>1 DEF ChooseMailbox, Return
    <2> QED
      BY <2>1, <2>2
  <1>4. MailboxesOK'
    <2>1. MailboxType'
      BY <1>1, <1>2 DEF MailboxType
    <2> QED
      BY <1>1, <1>2, <1>3, <2>1, DataKept DEF MailboxesOK
  <1>5. CallOK'
    <2>1. CASE Free # {}
      <3>1. pc' = "chosen" /\ chosen' = FirstOf(Free) /\ frame' = frame
        BY <2>1 DEF ChooseMailbox
      <3>2. chosen' \in Mailbox /\ ~mailbox[chosen'].pending
        BY <2>1, <3>1, FirstIsFree DEF Pending
      <3> QED
        BY <1>1, <1>2, <1>3, <3>1, <3>2 DEF CallOK, Filling, Undisturbed
    <2>2. CASE Free = {}
      <3>1. pc' = "idle"
        BY <2>2 DEF ChooseMailbox, Return
      <3> QED
        BY <1>1, <1>2, <1>3, <3>1 DEF CallOK, Filling
    <2> QED
      BY <2>1, <2>2
  <1>6. Pending' = Pending /\ Spoiled' = Spoiled
    BY <1>2, <1>3 DEF Pending, Spoiled
  <1> QED
    BY <1>1, <1>3, <1>4, <1>5, <1>6 DEF Accounts, Counters, MailboxInv

LEMMA FillIdStep ==
    ASSUME MailboxInv, Onward, FillId
    PROVE  MailboxInv'
  <1>1. MailboxesOK /\ MailboxType /\ CallOK /\ Accounts /\ Counters
    BY DEF MailboxInv, MailboxesOK
  <1>2. /\ pc = "chosen" /\ pc' = "id" /\ mailbox' = WriteId(chosen, frame)
        /\ UNCHANGED <<chosen, frame, tir, sends, accepted, left, on_bus, wrong, clashed, clashes>>
    BY DEF FillId, outcome
  <1>3. chosen \in Mailbox /\ frame \in FrameSet /\ frame.id \in Ids
    BY <1>1, <1>2 DEF CallOK, Filling, FrameSet
  <1>4. /\ MailboxType'
        /\ \A m \in Mailbox : /\ mailbox'[m].pending = mailbox[m].pending
                              /\ mailbox'[m].data = mailbox[m].data
                              /\ mailbox[m].pending => mailbox'[m] = mailbox[m]
        /\ ~mailbox[chosen].pending => mailbox'[chosen].id = frame.id
    <2>1. CASE mailbox[chosen].pending
      BY <1>1, <1>2, <2>1 DEF WriteId, MailboxType
    <2>2. CASE ~mailbox[chosen].pending
      <3>1. mailbox' = [mailbox EXCEPT ![chosen].id = frame.id]
        BY <1>2, <2>2 DEF WriteId
      <3> QED
        BY <1>1, <1>3, <2>2, <3>1 DEF MailboxType
    <2> QED
      BY <2>1, <2>2
  <1>5. MailboxesOK'
    BY <1>1, <1>2, <1>4, DataKept DEF MailboxesOK
  <1>6. CallOK'
    <2>1. ~clashed => Undisturbed'
      BY <1>1, <1>2, <1>3, <1>4 DEF CallOK, Filling, Undisturbed
    <2> QED
      BY <1>1, <1>2, <1>3, <1>4, <2>1 DEF CallOK, Filling
  <1>7. Pending' = Pending /\ Spoiled' = Spoiled
    BY <1>2, <1>4, WaitingKept
  <1> QED
    BY <1>1, <1>2, <1>5, <1>6, <1>7 DEF Accounts, Counters, MailboxInv

LEMMA FillDataStep ==
    ASSUME MailboxInv, Onward, FillData
    PROVE  MailboxInv'
  <1>1. MailboxesOK /\ MailboxType /\ CallOK /\ Accounts /\ Counters
    BY DEF MailboxInv, MailboxesOK
  <1>2. /\ pc = "id" /\ pc' = "data" /\ mailbox' = WriteData(chosen, frame)
        /\ UNCHANGED <<chosen, frame, tir, sends, accepted, left, on_bus, wrong, clashed, clashes>>
    BY DEF FillData, outcome
  <1>3. /\ chosen \in Mailbox /\ frame \in FrameSet /\ frame # NoFrame
        /\ \A m \in Mailbox : mailbox[m].data # frame
    BY <1>1, <1>2 DEF CallOK, Filling, NoFrame
  <1>4. CASE mailbox[chosen].pending
    <2>1. mailbox' = mailbox
      BY <1>2, <1>4 DEF WriteData
    <2>2. MailboxesOK'
      BY <1>1, <1>2, <2>1, DataKept DEF MailboxesOK, MailboxType
    <2>3. clashed
      BY <1>1, <1>2, <1>4 DEF CallOK, Filling, Undisturbed
    <2>4. CallOK'
      BY <1>1, <1>2, <1>3, <2>1, <2>3 DEF CallOK, Filling
    <2>5. Pending' = Pending /\ Spoiled' = Spoiled
      BY <1>2, <2>1 DEF Pending, Spoiled
    <2> QED
      BY <1>1, <1>2, <2>2, <2>4, <2>5 DEF Accounts, Counters, MailboxInv
  <1>5. CASE ~mailbox[chosen].pending
    <2>1. mailbox' = [mailbox EXCEPT ![chosen].data = frame]
      BY <1>2, <1>5 DEF WriteData
    <2>2. /\ MailboxType' /\ mailbox'[chosen].data = frame
          /\ mailbox'[chosen].id = mailbox[chosen].id
          /\ \A m \in Mailbox : m # chosen => mailbox'[m] = mailbox[m]
          /\ \A m \in Mailbox : mailbox'[m].pending = mailbox[m].pending
      BY <1>1, <1>3, <2>1 DEF MailboxType
    <2>3. PICK f \in FrameSet : f = frame
      BY <1>3
    <2>4. Known(f)'
      BY <1>1, <1>2, <2>3 DEF CallOK, Known, Counters
    <2>5. MailboxesOK'
      BY <1>1, <1>2, <1>3, <2>2, <2>3, <2>4, DataPlaced
    <2>6. CallOK'
      <3>1. ~clashed => Undisturbed'
        BY <1>1, <1>2, <1>3, <2>2 DEF CallOK, Filling, Undisturbed
      <3>2. \A m \in Mailbox : mailbox'[m].data = frame => m = chosen /\ ~mailbox'[m].pending
        BY <1>3, <1>5, <2>2
      <3> QED
        BY <1>1, <1>2, <1>3, <2>2, <3>1, <3>2 DEF CallOK, Filling
    <2>7. Pending' = Pending /\ Spoiled' = Spoiled
      BY <1>2, <1>5, <2>2, WaitingKept
    <2> QED
      BY <1>1, <1>2, <2>5, <2>6, <2>7 DEF Accounts, Counters, MailboxInv
  <1> QED
    BY <1>4, <1>5

LEMMA LoadTirStep ==
    ASSUME MailboxInv, Onward, LoadTir
    PROVE  MailboxInv'
  <1>1. MailboxesOK /\ MailboxType /\ CallOK /\ Accounts /\ Counters
    BY DEF MailboxInv, MailboxesOK
  <1>2. /\ pc = "data" /\ pc' = "loaded" /\ tir' = mailbox[chosen].id /\ mailbox' = mailbox
        /\ UNCHANGED <<chosen, frame, sends, accepted, left, on_bus, wrong, clashed, clashes>>
    BY DEF LoadTir, outcome
  <1>3. MailboxesOK'
    BY <1>1, <1>2, DataKept DEF MailboxesOK, MailboxType
  <1>4. chosen \in Mailbox /\ tir' \in Ids
    BY <1>1, <1>2 DEF CallOK, Filling, MailboxType
  <1>5. CallOK'
    <2>1. ~clashed => Undisturbed'
      BY <1>1, <1>2 DEF CallOK, Filling, Undisturbed
    <2> QED
      BY <1>1, <1>2, <1>4, <2>1 DEF CallOK, Filling
  <1>6. Pending' = Pending /\ Spoiled' = Spoiled
    BY <1>2 DEF Pending, Spoiled
  <1> QED
    BY <1>1, <1>2, <1>3, <1>5, <1>6 DEF Accounts, Counters, MailboxInv

\* The request goes out with what the mailbox holds by now; if GatewayTask's frame still
\* waits in it, ClusterTask's is swallowed.
LEMMA StoreTirStep ==
    ASSUME MailboxInv, Onward, StoreTir
    PROVE  MailboxInv'
  <1>1. MailboxesOK /\ MailboxType /\ CallOK /\ Accounts /\ Counters
    BY DEF MailboxInv, MailboxesOK
  <1>2. /\ pc = "loaded" /\ pc' = "idle" /\ mailbox' = Request(chosen, tir)
        /\ accepted' = accepted + 1 /\ ~clashed' /\ clashed' \in BOOLEAN
        /\ clashes' = (IF clashed THEN clashes + 1 ELSE clashes)
        /\ UNCHANGED <<sends, left, on_bus, wrong>>
    BY DEF StoreTir, Return
  <1>3. chosen \in Mailbox /\ tir \in Ids /\ clashed \in BOOLEAN
    BY <1>1, <1>2 DEF CallOK, Filling
  <1>4. CallOK'
    BY <1>2 DEF CallOK, Filling
  <1>5. Counters'
    BY <1>1, <1>2 DEF Counters
  <1>6. CASE mailbox[chosen].pending
    <2>1. mailbox' = mailbox
      BY <1>2, <1>6 DEF Request
    <2>2. MailboxesOK'
      BY <1>1, <1>2, <2>1, DataKept DEF MailboxesOK, MailboxType
    <2>3. clashed
      BY <1>1, <1>2, <1>6 DEF CallOK, Filling, Undisturbed
    <2>4. Pending' = Pending /\ Spoiled' = Spoiled
      BY <1>2, <2>1 DEF Pending, Spoiled
    <2>5. Accounts'
      BY <1>1, <1>2, <2>3, <2>4, Sizes DEF Accounts, Counters
    <2> QED
      BY <1>4, <1>5, <2>2, <2>5 DEF MailboxInv
  <1>7. CASE ~mailbox[chosen].pending
    <2>1. mailbox' = [mailbox EXCEPT ![chosen].id = tir, ![chosen].pending = TRUE]
      BY <1>2, <1>7 DEF Request
    <2>2. /\ MailboxType' /\ mailbox'[chosen].data = mailbox[chosen].data
          /\ mailbox'[chosen].id = tir /\ mailbox'[chosen].pending
          /\ \A m \in Mailbox : m # chosen => mailbox'[m] = mailbox[m]
      BY <1>1, <1>3, <2>1 DEF MailboxType
    <2>3. mailbox[chosen].data # NoFrame
      <3>1. frame # NoFrame
        BY <1>1, <1>2 DEF CallOK, NoFrame
      <3> QED
        BY <1>1, <1>2, <3>1 DEF CallOK, Filling, Undisturbed
    <2>4. MailboxesOK'
      BY <1>1, <1>2, <2>2, <2>3, DataKept DEF MailboxesOK
    <2>5. chosen \notin Pending /\ Pending' = Pending \cup {chosen}
      <3>1. ASSUME NEW m \in Mailbox
            PROVE  mailbox'[m].pending <=> (mailbox[m].pending \/ m = chosen)
        BY <2>2
      <3> QED
        BY <1>3, <1>7, <3>1 DEF Pending
    <2>6. Spoiled' \subseteq Spoiled \cup {chosen}
      BY <1>2, <2>2, <2>5 DEF Spoiled, Pending
    <2>7. ~clashed => Spoiled' = Spoiled
      <3>1. SUFFICES ASSUME ~clashed PROVE Spoiled' = Spoiled
        OBVIOUS
      <3>2. tir = frame.id /\ mailbox[chosen].data = frame /\ frame \notin on_bus
        BY <1>1, <1>2, <3>1 DEF CallOK, Filling, Undisturbed
      <3>3. chosen \notin Spoiled' /\ chosen \notin Spoiled
        BY <1>2, <2>2, <2>5, <3>2 DEF Spoiled
      <3>4. \A m \in Pending : mailbox'[m] = mailbox[m]
        BY <2>2, <2>5 DEF Pending
      <3> QED
        BY <1>2, <2>5, <3>3, <3>4 DEF Spoiled
    <2>8. Cardinality(Pending') = Cardinality(Pending) + 1
      BY <2>5, Sizes, FS_AddElement
    <2>9. Cardinality(Spoiled') \in Nat /\ Cardinality(Spoiled') <= Cardinality(Spoiled) + 1
      <3>1. IsFiniteSet(Spoiled \cup {chosen})
            /\ Cardinality(Spoiled \cup {chosen}) \in Nat
            /\ Cardinality(Spoiled \cup {chosen}) <= Cardinality(Spoiled) + 1
        <4>1. IsFiniteSet(Spoiled)
          BY Sizes
        <4>2. /\ IsFiniteSet(Spoiled \cup {chosen})
              /\ Cardinality(Spoiled \cup {chosen})
                   = IF chosen \in Spoiled THEN Cardinality(Spoiled)
                                           ELSE Cardinality(Spoiled) + 1
          BY <4>1, FS_AddElement
        <4>3. Cardinality(Spoiled) \in Nat
          BY <4>1, FS_CardinalityType
        <4> QED
          BY <4>2, <4>3
      <3>2. IsFiniteSet(Spoiled') /\ Cardinality(Spoiled') <= Cardinality(Spoiled \cup {chosen})
        BY <2>6, <3>1, FS_Subset
      <3>3. Cardinality(Spoiled') \in Nat
        BY <3>2, FS_CardinalityType
      <3> QED
        BY <3>1, <3>2, <3>3, Sizes
    <2>10. Accounts'
      <3>1. Cardinality(Pending) \in Nat /\ Cardinality(Spoiled) \in Nat
        BY Sizes
      <3>2. CASE clashed
        BY <1>1, <1>2, <2>8, <2>9, <3>1, <3>2 DEF Accounts, Counters
      <3>3. CASE ~clashed
        BY <1>1, <1>2, <2>7, <2>8, <3>1, <3>3 DEF Accounts, Counters
      <3> QED
        BY <3>2, <3>3
    <2> QED
      BY <1>4, <1>5, <2>4, <2>10 DEF MailboxInv
  <1> QED
    BY <1>6, <1>7

\* A spoiled mailbox that goes out becomes a wrong frame, at most; no other is spoiled by it.
LEMMA TransmitStep ==
    ASSUME MailboxInv, Onward, NEW k \in Mailbox, Transmit(k)
    PROVE  MailboxInv'
  <1>1. MailboxesOK /\ MailboxType /\ CallOK /\ Accounts /\ Counters
    BY DEF MailboxInv, MailboxesOK
  <1>2. /\ mailbox[k].pending /\ mailbox' = [mailbox EXCEPT ![k].pending = FALSE]
        /\ left' = left + 1
        /\ UNCHANGED <<pc, chosen, frame, tir, sends, accepted, clashed, clashes>>
    BY DEF Transmit, Leave, cluster
  <1>3. PICK f \in FrameSet : f = mailbox[k].data
    BY <1>1 DEF MailboxType
  <1>4. \/ /\ on_bus' = on_bus \cup {f}
           /\ wrong' = IF mailbox[k].id # f.id \/ f \in on_bus THEN wrong + 1 ELSE wrong
        \/ on_bus' = on_bus /\ wrong' = wrong
    BY <1>3 DEF Transmit
  <1>5. /\ MailboxType' /\ ~mailbox'[k].pending
        /\ \A m \in Mailbox : mailbox'[m].data = mailbox[m].data /\ mailbox'[m].id = mailbox[m].id
        /\ \A m \in Mailbox : m # k => mailbox'[m] = mailbox[m]
    BY <1>1, <1>2 DEF MailboxType
  <1>6. f # NoFrame /\ \A m \in Mailbox : m # k => mailbox[m].data # f
    BY <1>1, <1>2, <1>3 DEF MailboxesOK
  <1>7. MailboxesOK'
    <2>1. \A m \in Mailbox : mailbox'[m].pending => mailbox[m].data # NoFrame
      BY <1>1, <1>5 DEF MailboxesOK
    <2>2. \A g \in on_bus' : g \in on_bus \/ \E m \in Mailbox : g = mailbox[m].data
      BY <1>3, <1>4
    <2> QED
      BY <1>1, <1>5, <2>1, <2>2, DataKept
  <1>8. CallOK'
    <2>1. pc # "idle" => frame # f
      <3>1. CASE pc \in {"tested", "chosen", "id"}
        BY <1>1, <1>3, <3>1 DEF CallOK
      <3>2. CASE pc \in {"data", "loaded"}
        BY <1>1, <1>2, <1>3, <3>2 DEF CallOK
      <3> QED
        BY <1>1, <3>1, <3>2 DEF CallOK, Filling
    <2>2. pc # "idle" => frame \notin on_bus'
      BY <1>1, <1>4, <2>1 DEF CallOK
    <2>3. \A m \in Mailbox : ~mailbox[m].pending => ~mailbox'[m].pending
      BY <1>5
    <2>4. Filling /\ ~clashed => Undisturbed'
      BY <1>1, <1>2, <1>5, <2>3 DEF CallOK, Undisturbed
    <2> QED
      BY <1>1, <1>2, <1>5, <2>2, <2>3, <2>4 DEF CallOK, Filling
  <1>9. k \in Pending /\ Pending' = Pending \ {k}
    <2>1. ASSUME NEW m \in Mailbox
          PROVE  mailbox'[m].pending <=> (mailbox[m].pending /\ m # k)
      BY <1>5
    <2> QED
      BY <1>2, <2>1 DEF Pending
  <1>10. Spoiled' = Spoiled \ {k}
    <2>1. \A m \in Pending \ {k} : /\ mailbox'[m] = mailbox[m]
                                   /\ mailbox[m].data \in on_bus' <=> mailbox[m].data \in on_bus
      BY <1>4, <1>5, <1>6 DEF Pending
    <2> QED
      BY <1>9, <2>1 DEF Spoiled
  <1>11. wrong' \in Nat /\ (wrong' = wrong \/ (wrong' = wrong + 1 /\ k \in Spoiled))
    BY <1>1, <1>3, <1>4, <1>9 DEF Spoiled, Counters
  <1>12. /\ Cardinality(Pending') = Cardinality(Pending) - 1
         /\ k \in Spoiled => Cardinality(Spoiled') = Cardinality(Spoiled) - 1
         /\ k \notin Spoiled => Cardinality(Spoiled') = Cardinality(Spoiled)
    BY <1>9, <1>10, Sizes, FS_RemoveElement
  <1>13. Accounts' /\ Counters'
    BY <1>1, <1>2, <1>11, <1>12, Sizes DEF Accounts, Counters
  <1> QED
    BY <1>7, <1>8, <1>13 DEF MailboxInv

LEMMA MailboxStep ==
    ASSUME MailboxInv, ReceptionInv, [Next]_vars
    PROVE  MailboxInv'
  <1>1. received \in [Buses -> Nat] /\ sends \in Nat
    BY DEF ReceptionInv, MailboxInv, Counters
  <1>2. ASSUME received' = received, sends' \in Nat, sends <= sends'
        PROVE  Onward
    BY <1>1, <1>2 DEF Onward
  <1>3. ASSUME UNCHANGED <<mailbox, cluster, outcome, received>>
        PROVE  MailboxInv'
    BY <1>1, <1>2, <1>3, QuietStep DEF cluster
  <1>4. CASE StartDefaultTask
    <2>1. UNCHANGED <<mailbox, cluster, outcome, received>>
      BY <1>4 DEF StartDefaultTask, StartCan, StartBridge, StartTasks, CAN_BSP_Init, can, inbound
    <2> QED
      BY <1>3, <2>1
  <1>5. CASE GatewayTask
    BY <1>5, GatewayStep
  <1>6. CASE ClusterTask
    <2>1. received' = received /\ sends' \in Nat /\ sends <= sends'
      BY <1>1, <1>6 DEF ClusterTask, TestMailboxes, ChooseMailbox, FillId, FillData, LoadTir,
                        StoreTir, Return, Others, inbound
    <2>2. Onward
      BY <1>2, <2>1
    <2> QED
      BY <1>6, <2>2, TestStep, ChooseStep, FillIdStep, FillDataStep, LoadTirStep, StoreTirStep
         DEF ClusterTask
  <1>7. ASSUME NEW s \in Sources, FrameOnBus(s)
        PROVE  MailboxInv'
    <2>1. UNCHANGED <<mailbox, cluster, outcome, received>>
      BY <1>7 DEF FrameOnBus, Arrive
    <2> QED
      BY <1>3, <2>1
  <1>8. ASSUME NEW b \in Buses, Interrupt(b)
        PROVE  MailboxInv'
    <2>1. UNCHANGED <<mailbox, cluster, outcome, received>>
      BY <1>8 DEF Interrupt, RxFifo0MsgPendingCallback
    <2> QED
      BY <1>3, <2>1
  <1>9. ASSUME NEW k \in Mailbox, Transmit(k)
        PROVE  MailboxInv'
    <2>1. received' = received /\ sends' = sends
      BY <1>9 DEF Transmit, inbound, cluster
    <2>2. Onward
      BY <1>1, <1>2, <2>1
    <2> QED
      BY <1>9, <2>2, TransmitStep
  <1>10. CASE UNCHANGED vars
    <2>1. UNCHANGED <<mailbox, cluster, outcome, received>>
      BY <1>10 DEF vars, can, inbound
    <2> QED
      BY <1>3, <2>1
  <1> QED
    BY <1>4, <1>5, <1>6, <1>7, <1>8, <1>9, <1>10 DEF Next

\* can_bsp.c:130: a call of ClusterTask whose mailbox GatewayTask takes costs one frame, no
\* more, and every other frame accepted leaves as it is: for any number of mailboxes and
\* however often the two tasks meet.
THEOREM ClashesAreBounded == Spec => []ClashCostsOneFrame
  <1>1. ReceptionInv /\ MailboxInv /\ [Next]_vars => ReceptionInv' /\ MailboxInv'
    BY ReceptionStep, MailboxStep
  <1>2. MailboxInv => ClashCostsOneFrame
    <2>1. SUFFICES ASSUME MailboxInv PROVE ClashCostsOneFrame
      OBVIOUS
    <2>2. Counters /\ Accounts /\ clashed \in BOOLEAN
      BY <2>1 DEF MailboxInv, CallOK
    <2> QED
      BY <2>2, Sizes DEF ClashCostsOneFrame, Accounts, Counters
  <1> QED
    BY <1>1, <1>2, ReceptionInit, MailboxInit, PTL DEF Spec

=============================================================================
