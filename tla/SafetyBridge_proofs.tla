------------------------ MODULE SafetyBridge_proofs ------------------------
(***************************************************************************)
(* Theorems about the ADAS bridge of the gateway (SafetyBridge), for every *)
(* period, timeout, lateness and set of statuses.                          *)
(***************************************************************************)
EXTENDS SafetyBridge, TLAPS

-----------------------------------------------------------------------------
(* The arithmetic on the kernel tick, for every width of it.                  *)

LEMMA TickPlusType ==
    ASSUME NEW t \in Tick, NEW d \in Nat, d < TICK_MOD
    PROVE  TickPlus(t, d) \in Tick
  BY TickModAssumption DEF TickPlus, Tick

\* An unsigned age is 0 only at one moment, and grows with the tick below the wrap.
LEMMA ElapsedFacts ==
    ASSUME NEW t \in Tick, NEW u \in Tick
    PROVE  /\ tick_elapsed(t, u) \in 0 .. TICK_MOD - 1
           /\ tick_elapsed(t, t) = 0
           /\ tick_elapsed(t, u) = 0 => t = u
           /\ TickPlus(t, 1) \in Tick
           /\ tick_elapsed(t, u) < TICK_MOD - 1
                => tick_elapsed(TickPlus(t, 1), u) = tick_elapsed(t, u) + 1
  BY TickModAssumption DEF tick_elapsed, TickPlus, Tick

-----------------------------------------------------------------------------
(* The operators. *)

LEMMA NextAliveType ==
    ASSUME NEW a \in 0 .. ALIVE_MOD - 1
    PROVE  NextAlive(a) \in 0 .. ALIVE_MOD - 1
  BY SafetyAssumption DEF NextAlive

LEMMA LatchedFaultsType ==
    ASSUME NEW st \in Status
    PROVE  LatchedFaults(st) \subseteq ADAS_FAULTS
  BY DEF LatchedFaults, Status, ADAS_FAULTS

\* What OnRx stores: a valid diagnostic of this moment, with the new faults added.
LEMMA StoreFacts ==
    ASSUME s_diag \in Diagnostic, tick \in Tick, NEW st \in Status
    PROVE  /\ Store(st) \in Diagnostic
           /\ Store(st).valid /\ Store(st).last_rx_tick = tick
           /\ Store(st).dtc_bitmap = s_diag.dtc_bitmap \cup LatchedFaults(st)
  <1> DEFINE r == Received(st)
  <1>1. /\ r \in Diagnostic
        /\ r.valid /\ r.last_rx_tick = tick /\ r.dtc_bitmap = s_diag.dtc_bitmap
    BY DEF Received, Diagnostic, Status
  <1>2. Store(st) = [r EXCEPT !.dtc_bitmap = r.dtc_bitmap \cup LatchedFaults(st)]
    BY DEF Store
  <1>3. r.dtc_bitmap \cup LatchedFaults(st) \subseteq ADAS_FAULTS
    BY <1>1, LatchedFaultsType DEF Diagnostic
  <1> HIDE DEF r
  <1> QED
    BY <1>1, <1>2, <1>3 DEF Diagnostic

LEMMA ClearFacts ==
    ASSUME s_diag \in Diagnostic
    PROVE  /\ [s_diag EXCEPT !.dtc_bitmap = {}] \in Diagnostic
           /\ [s_diag EXCEPT !.dtc_bitmap = {}].valid = s_diag.valid
           /\ [s_diag EXCEPT !.dtc_bitmap = {}].last_rx_tick = s_diag.last_rx_tick
  BY DEF Diagnostic

LEMMA Motor5Type ==
    ASSUME NEW on \in BOOLEAN, NEW d, s_warning_alive \in 0 .. ALIVE_MOD - 1
    PROVE  Motor5(on, d) \in Frame
  BY DEF Motor5, Frame

LEMMA SendToType ==
    ASSUME NEW f \in Frame, bus \in Frame, busy \in 0 .. MaxBusy,
           sent_at \in -1 .. MaxUptime, uptime \in 0 .. MaxUptime, SendTo(f)
    PROVE  /\ bus' \in Frame /\ busy' \in 0 .. MaxBusy
           /\ sent_at' \in -1 .. MaxUptime
           /\ sent_at' = uptime \/ sent_at' = sent_at
  BY SafetyAssumption DEF SendTo

LEMMA TrackType ==
    ASSUME Track, uptime' \in 0 .. MaxUptime,
           wrong_since \in -1 .. MaxUptime, quiet_since \in -1 .. MaxUptime
    PROVE  wrong_since' \in -1 .. MaxUptime /\ quiet_since' \in -1 .. MaxUptime
  BY SafetyAssumption DEF Track

-----------------------------------------------------------------------------
(* Types. *)

LEMMA TypeInit == Init => TypeOK
  <1> SUFFICES ASSUME Init PROVE TypeOK
    OBVIOUS
  <1>1. 0 \in Tick /\ 0 \in 0 .. ALIVE_MOD - 1
    BY TickModAssumption, SafetyAssumption DEF Tick
  <1>2. s_diag \in Diagnostic
    BY <1>1 DEF Init, Diagnostic
  <1>3. NoFrame \in Frame
    BY <1>1 DEF NoFrame, Frame
  <1>4. /\ uptime \in 0 .. MaxUptime /\ busy \in 0 .. MaxBusy /\ sent_at \in -1 .. MaxUptime
        /\ wake \in 0 .. MaxUptime + DELAY /\ rx_at \in 0 .. MaxUptime
        /\ wrong_since \in -1 .. MaxUptime /\ quiet_since \in -1 .. MaxUptime
    BY SafetyAssumption DEF Init
  <1> QED
    BY <1>1, <1>2, <1>3, <1>4 DEF Init, TypeOK

LEMMA TypeStep ==
    ASSUME TypeOK, [Next]_vars
    PROVE  TypeOK'
  <1> USE DEF TypeOK
  <1>1. ASSUME NEW st \in Statuses, OnRx(st)
        PROVE  TypeOK'
    <2>1. st \in Status /\ LatchedFaults(st) \subseteq ADAS_FAULTS
      BY SafetyAssumption, LatchedFaultsType
    <2>2. s_diag' \in Diagnostic
      BY <1>1, <2>1, StoreFacts DEF OnRx
    <2>3. /\ bus' \in Frame /\ busy' \in 0 .. MaxBusy /\ sent_at' \in -1 .. MaxUptime
          /\ s_next_warning_tick' \in Tick /\ s_warning_alive' \in 0 .. ALIVE_MOD - 1
      <3>1. CASE Dangerous(st)
        BY <1>1, <3>1, Motor5Type, SendToType, NextAliveType, TickPlusType,
           SafetyAssumption DEF OnRx
      <3>2. CASE ~Dangerous(st)
        BY <1>1, <3>2 DEF OnRx, wire
      <3> QED
        BY <3>1, <3>2
    <2>4. wrong_since' \in -1 .. MaxUptime /\ quiet_since' \in -1 .. MaxUptime
      BY <1>1, TrackType DEF OnRx
    <2>5. since_clear' \subseteq ADAS_FAULTS
      BY <1>1, <2>1 DEF OnRx
    <2> QED
      BY <1>1, <2>2, <2>3, <2>4, <2>5 DEF OnRx, locals
  <1>2. ASSUME ClearDtc
        PROVE  TypeOK'
    BY <1>2, ClearFacts DEF ClearDtc, locals, wire
  <1>3. ASSUME ReadNow
        PROVE  TypeOK'
    BY <1>3 DEF ReadNow, shared, wire, DangerReported
  <1>4. ASSUME Sleep
        PROVE  pc' = "sleep" /\ wake' \in 0 .. MaxUptime + DELAY
    <2>1. uptime + DELAY \in 0 .. MaxUptime + DELAY
      BY SafetyAssumption
    <2> QED
      BY <1>4, <2>1 DEF Sleep
  <1>5. ASSUME CheckDue
        PROVE  TypeOK'
    BY <1>4, <1>5 DEF CheckDue, wire
  <1>6. ASSUME CheckRecent
        PROVE  TypeOK'
    BY <1>4, <1>6, TickPlusType, SafetyAssumption DEF CheckRecent, wire
  <1>7. ASSUME BuildActive
        PROVE  TypeOK'
    BY <1>7 DEF BuildActive, shared, wire, ghosts, safety_warning_active
  <1>8. ASSUME BuildBits
        PROVE  TypeOK'
    BY <1>8, Motor5Type DEF BuildBits, shared, wire, ghosts
  <1>9. ASSUME StoreAlive
        PROVE  TypeOK'
    BY <1>9, NextAliveType DEF StoreAlive, wire, ghosts, Frame
  <1>10. ASSUME SendWarning
         PROVE  TypeOK'
    <2>1. /\ bus' \in Frame /\ busy' \in 0 .. MaxBusy /\ sent_at' \in -1 .. MaxUptime
          /\ s_next_warning_tick' \in Tick
      BY <1>10, SendToType, TickPlusType, SafetyAssumption DEF SendWarning
    <2>2. wrong_since' \in -1 .. MaxUptime /\ quiet_since' \in -1 .. MaxUptime
      BY <1>10, TrackType DEF SendWarning
    <2> QED
      BY <1>4, <1>10, <2>1, <2>2 DEF SendWarning
  <1>11. ASSUME AdvanceTick
         PROVE  TypeOK'
    <2>1. uptime' \in 0 .. MaxUptime
      BY <1>11, SafetyAssumption DEF AdvanceTick
    <2>2. tick' \in Tick
      BY <1>11, TickModAssumption DEF AdvanceTick, TickPlus, Tick
    <2>3. wrong_since' \in -1 .. MaxUptime /\ quiet_since' \in -1 .. MaxUptime
      BY <1>11, <2>1, TrackType DEF AdvanceTick
    <2> QED
      BY <1>11, <2>1, <2>2, <2>3 DEF AdvanceTick, shared, locals, wire
  <1>12. ASSUME UNCHANGED vars
         PROVE  TypeOK'
    BY <1>12 DEF vars, shared, locals, wire, ghosts
  <1> QED
    BY <1>1, <1>2, <1>3, <1>5, <1>6, <1>7, <1>8, <1>9, <1>10, <1>11, <1>12
       DEF Next, GatewayTask, ClusterTask

\* Every variable of the bridge keeps its type; the alive counter and the tick
\* arithmetic stay in their width whatever the periods and the lateness.
THEOREM TypeCorrect == Spec => []TypeOK
  BY TypeInit, TypeStep, PTL DEF Spec

-----------------------------------------------------------------------------
(* The latched faults. *)

\* No fault reported since the last clear request is missing from dtc_bitmap:
\* OnRx only adds, and the statuses that come later take nothing away.
THEOREM FaultsAreLatched == Spec => []FaultsStayLatched
  <1>1. Init => FaultsStayLatched
    BY DEF Init, FaultsStayLatched
  <1>2. ASSUME TypeOK, FaultsStayLatched, [Next]_vars
        PROVE  FaultsStayLatched'
    <2> USE DEF FaultsStayLatched
    <2>1. s_diag \in Diagnostic /\ tick \in Tick
      BY <1>2 DEF TypeOK
    <2>2. ASSUME NEW st \in Statuses, OnRx(st)
          PROVE  FaultsStayLatched'
      <3>1. st \in Status
        BY SafetyAssumption
      <3>2. s_diag'.dtc_bitmap = s_diag.dtc_bitmap \cup LatchedFaults(st)
        BY <2>1, <2>2, <3>1, StoreFacts DEF OnRx
      <3> QED
        BY <1>2, <2>2, <3>2 DEF OnRx
    <2>3. ASSUME ClearDtc
          PROVE  FaultsStayLatched'
      BY <2>3 DEF ClearDtc
    <2>4. ASSUME ClusterTask \/ AdvanceTick
          PROVE  FaultsStayLatched'
      BY <1>2, <2>4 DEF ClusterTask, ReadNow, CheckDue, CheckRecent, BuildActive, BuildBits,
                 StoreAlive, SendWarning, AdvanceTick, shared, ghosts
    <2>5. ASSUME UNCHANGED vars
          PROVE  FaultsStayLatched'
      BY <1>2, <2>5 DEF vars, shared, ghosts
    <2> QED
      BY <1>2, <2>2, <2>3, <2>4, <2>5 DEF Next, GatewayTask
  <1> QED
    BY <1>1, <1>2, TypeCorrect, PTL DEF Spec

-----------------------------------------------------------------------------
(* No frame on stale data. *)

\* When the round read its clock, in true time: a round is shorter than a wrap.
NowAt == uptime - tick_elapsed(tick, now)

InRound == pc # "sleep"

\* The clock the round has read is not older than its wake-up, and the round is
\* over MaxLag ticks after that; the last frame lies in the past.
RoundInTime ==
    /\ uptime <= wake + MaxLag /\ sent_at <= uptime
    /\ InRound => wake <= NowAt

\* Within a wrap of the last reception the unsigned ages are true ages: that of the
\* data now, and that of the data when the round read its clock.
TrueAges ==
    /\ rx_at <= uptime
    /\ s_diag.valid /\ uptime - rx_at < TICK_MOD
         => tick_elapsed(tick, s_diag.last_rx_tick) = uptime - rx_at
    /\ InRound /\ s_diag.valid /\ rx_at <= NowAt /\ NowAt - rx_at < TICK_MOD
         => tick_elapsed(now, s_diag.last_rx_tick) = NowAt - rx_at

\* Past the recency check the round holds data that were recent when it read its
\* clock, and data that arrived later are only newer.
RoundOnFreshData ==
    pc \in {"active", "bits", "store", "send"} /\ NowAt - rx_at < TICK_MOD
        => NowAt <= rx_at + TIMEOUT

FreshInv == TypeOK /\ RoundInTime /\ TrueAges /\ RoundOnFreshData /\ NoStaleWarning

LEMMA FreshStep ==
    ASSUME FreshInv, [Next]_vars
    PROVE  FreshInv'
  <1> DEFINE age == tick_elapsed(tick, s_diag.last_rx_tick)
             age_at_now == tick_elapsed(now, s_diag.last_rx_tick)
             lag == tick_elapsed(tick, now)
  <1> USE DEF FreshInv, InRound, NowAt, RoundInTime, TrueAges, RoundOnFreshData, NoStaleWarning
  <1>0. TypeOK'
    BY TypeStep
  <1>a. /\ uptime \in Nat /\ wake \in Nat /\ rx_at \in Nat /\ sent_at \in Int
        /\ tick \in Tick /\ now \in Tick /\ s_diag \in Diagnostic /\ s_diag.last_rx_tick \in Tick
    BY SafetyAssumption DEF TypeOK, Tick, Diagnostic
  <1>b. /\ TIMEOUT \in Nat /\ MaxLag \in Nat /\ DELAY \in Nat /\ TICK_MOD \in Nat \ {0}
        /\ MaxLag < TICK_MOD
    BY SafetyAssumption, TickModAssumption
  <1>c. lag \in 0 .. TICK_MOD - 1 /\ age \in 0 .. TICK_MOD - 1 /\ age_at_now \in 0 .. TICK_MOD - 1
    BY <1>a, ElapsedFacts
  <1>1. ASSUME NEW st \in Statuses, OnRx(st)
        PROVE  FreshInv'
    <2>1. st \in Status
      BY SafetyAssumption
    <2>2. s_diag'.valid /\ s_diag'.last_rx_tick = tick
      BY <1>1, <1>a, <2>1, StoreFacts DEF OnRx
    <2>3. sent_at' = uptime \/ sent_at' = sent_at
      BY <1>1 DEF OnRx, SendTo, wire
    <2>4. /\ rx_at' = uptime /\ tick' = tick /\ uptime' = uptime /\ wake' = wake
          /\ pc' = pc /\ now' = now
      BY <1>1 DEF OnRx, locals
    <2>5. tick_elapsed(tick, tick) = 0 /\ (lag = 0 => tick_elapsed(now, tick) = 0)
      BY <1>a, ElapsedFacts
    <2>6. TrueAges'
      BY <1>a, <1>c, <2>2, <2>4, <2>5
    <2>7. RoundInTime' /\ RoundOnFreshData'
      BY <1>a, <1>b, <1>c, <2>3, <2>4
    <2>8. NoStaleWarning'
      BY <1>a, <1>b, <2>3, <2>4
    <2> QED
      BY <1>0, <2>6, <2>7, <2>8
  <1>2. ASSUME ClearDtc
        PROVE  FreshInv'
    BY <1>0, <1>2, <1>a, ClearFacts DEF ClearDtc, locals, wire
  <1>3. ASSUME ReadNow
        PROVE  FreshInv'
    <2>1. /\ now' = tick /\ tick' = tick /\ uptime' = uptime /\ wake' = wake /\ rx_at' = rx_at
          /\ s_diag' = s_diag /\ sent_at' = sent_at /\ pc' = "due" /\ wake <= uptime
      BY <1>3 DEF ReadNow, shared, wire
    <2>2. tick_elapsed(tick, tick) = 0 /\ NowAt' = uptime
      BY <1>a, <2>1, ElapsedFacts
    <2>3. RoundInTime'
      BY <1>a, <2>1, <2>2
    <2>4. TrueAges'
      BY <1>a, <2>1, <2>2
    <2>5. RoundOnFreshData' /\ NoStaleWarning'
      BY <2>1
    <2> QED
      BY <1>0, <2>3, <2>4, <2>5
  <1>4. ASSUME CheckDue
        PROVE  FreshInv'
    BY <1>0, <1>4, <1>a, <1>b DEF CheckDue, Sleep, wire
  <1>5. ASSUME CheckRecent
        PROVE  FreshInv'
    <2>1. CASE safety_status_recent(now)
      <3>1. NowAt - rx_at < TICK_MOD => NowAt <= rx_at + TIMEOUT
        <4>1. s_diag.valid /\ age_at_now <= TIMEOUT /\ InRound
          BY <1>5, <2>1 DEF safety_status_recent, CheckRecent
        <4> QED
          BY <4>1, <1>a, <1>b, <1>c
      <3> QED
        BY <1>0, <1>5, <2>1, <3>1 DEF CheckRecent, wire
    <2>2. CASE ~safety_status_recent(now)
      BY <1>0, <1>5, <1>a, <1>b, <2>2 DEF CheckRecent, Sleep, wire
    <2> QED
      BY <2>1, <2>2
  <1>6. ASSUME BuildActive \/ BuildBits
        PROVE  FreshInv'
    BY <1>0, <1>6 DEF BuildActive, BuildBits, shared, wire, ghosts
  <1>7. ASSUME StoreAlive
        PROVE  FreshInv'
    BY <1>0, <1>7 DEF StoreAlive, wire, ghosts
  <1>8. ASSUME SendWarning
        PROVE  FreshInv'
    <2>1. sent_at' = uptime \/ sent_at' = sent_at
      BY <1>8 DEF SendWarning, SendTo
    <2>2. uptime - rx_at < TICK_MOD => uptime <= rx_at + TIMEOUT + MaxLag
      BY <1>8, <1>a, <1>b, <1>c DEF SendWarning
    <2>3. /\ rx_at' = rx_at /\ tick' = tick /\ uptime' = uptime /\ wake' = uptime + DELAY
          /\ pc' = "sleep" /\ s_diag' = s_diag
      BY <1>8 DEF SendWarning, Sleep
    <2> QED
      BY <1>0, <1>a, <1>b, <2>1, <2>2, <2>3
  <1>9. ASSUME AdvanceTick
        PROVE  FreshInv'
    <2>1. /\ tick' = TickPlus(tick, 1) /\ uptime' = uptime + 1 /\ uptime < wake + MaxLag
          /\ now' = now /\ wake' = wake /\ rx_at' = rx_at /\ s_diag' = s_diag /\ pc' = pc
          /\ sent_at' = sent_at
      BY <1>9 DEF AdvanceTick, shared, locals, wire
    <2>2. InRound => tick_elapsed(tick', now) = lag + 1
      BY <1>a, <1>b, <1>c, <2>1, ElapsedFacts
    <2>3. age < TICK_MOD - 1 => tick_elapsed(tick', s_diag.last_rx_tick) = age + 1
      BY <1>a, <2>1, ElapsedFacts
    <2>4. RoundInTime'
      BY <1>a, <1>b, <1>c, <2>1, <2>2
    <2>5. TrueAges'
      BY <1>a, <1>b, <1>c, <2>1, <2>2, <2>3
    <2>6. RoundOnFreshData'
      BY <1>a, <1>b, <1>c, <2>1, <2>2
    <2> QED
      BY <1>0, <2>1, <2>4, <2>5, <2>6
  <1>10. ASSUME UNCHANGED vars
         PROVE  FreshInv'
    BY <1>0, <1>10 DEF vars, shared, locals, wire, ghosts
  <1> QED
    BY <1>1, <1>2, <1>3, <1>4, <1>5, <1>6, <1>7, <1>8, <1>9, <1>10
       DEF Next, GatewayTask, ClusterTask

\* No warning frame goes out once Board E has been silent for longer than the
\* timeout and the lateness of one round, although the recency check is made on a
\* clock read earlier, the data may be replaced between the check and the frame,
\* and the tick wraps.
THEOREM NoWarningOnStaleData == Spec => []NoStaleWarning
  <1>1. Init => FreshInv
    BY TypeInit, SafetyAssumption, TickModAssumption
       DEF Init, FreshInv, InRound, NowAt, RoundInTime, TrueAges, RoundOnFreshData, NoStaleWarning
  <1>2. FreshInv => NoStaleWarning
    BY DEF FreshInv
  <1> QED
    BY <1>1, <1>2, FreshStep, PTL DEF Spec

-----------------------------------------------------------------------------
(* The warning reaches CAN2 in every period.  The schedule and the rounds are  *)
(* followed in true time: a deadline is less than half a wrap away, so the    *)
(* unsigned comparison of Task10ms tells the past from the future.             *)

\* The period and the lateness are short against half a wrap of the tick: 100 ms
\* and some 20 ms against 24.8 days in the code.
TimesAreShort == 2 * PERIOD <= TICK_MOD /\ 2 * Overdue < TICK_MOD

\* How far the moment d lies ahead of the moment t, negative when it is past.
Ahead(t, d) == IF Due(t, d) THEN 0 - tick_elapsed(t, d) ELSE tick_elapsed(d, t)

\* The deadline in true time.
NextAt == uptime + Ahead(tick, s_next_warning_tick)

\* The deadline is at most a period ahead, and the round under way, or the next one,
\* ends before it is overdue.
OnSchedule ==
    /\ ~InRound => wake <= uptime + DELAY
    /\ NextAt <= uptime + PERIOD
    /\ wake + MaxLag <= NextAt + Overdue

\* The history variables follow the reports, and the lamp was never off for longer
\* than no lit frame came.
HistoriesFollow ==
    /\ quiet_since = -1 <=> ~DangerReported
    /\ quiet_since <= uptime
    /\ wrong_since # -1 => quiet_since # -1 /\ quiet_since <= wrong_since

\* Since when a lit frame is being waited for, the refused ones left aside.
RefusedTime == busy * (PERIOD + Overdue)
WaitedSince == quiet_since + RefusedTime

\* The lamp bit of the round's frame is off, from when it is decided.
Dark == \/ pc = "bits" /\ ~active
        \/ pc \in {"store", "send"} /\ ~frame.HLEUCHTE

\* While danger is reported a round withholds the lamp only when the status came
\* after it had read its clock, and OnRx has then sent a lit frame itself; so the
\* next attempt at a lit frame ends within a period, a delay and the lateness.
AttemptInTime ==
    /\ Dark /\ DangerReported => NowAt <= rx_at
    /\ quiet_since # -1 =>
         /\ rx_at <= WaitedSince
         /\ pc \in {"sleep", "due"} => NextAt <= WaitedSince + PERIOD
         /\ wake + MaxLag <= WaitedSince + PERIOD + Overdue

WarningInv == FreshInv /\ OnSchedule /\ HistoriesFollow /\ AttemptInTime

\* The distance of two moments that are less than half a wrap apart.
LEMMA AheadType ==
    ASSUME NEW t \in Tick, NEW d \in Tick
    PROVE  /\ Ahead(t, d) \in Int /\ 2 * Ahead(t, d) <= TICK_MOD
           /\ Ahead(t, t) = 0
  <1> DEFINE x == tick_elapsed(t, d)
             y == tick_elapsed(d, t)
  <1>1. /\ TICK_MOD \in Nat \ {0} /\ x \in 0 .. TICK_MOD - 1 /\ y \in 0 .. TICK_MOD - 1
        /\ x # 0 => y = TICK_MOD - x
        /\ tick_elapsed(t, t) = 0
    BY TickModAssumption DEF tick_elapsed, Tick
  <1>2. Ahead(t, d) = IF 2 * x < TICK_MOD THEN 0 - x ELSE y
    BY DEF Ahead, Due
  <1>3. Ahead(t, t) = 0
    BY <1>1 DEF Ahead, Due
  <1> HIDE DEF x, y
  <1> QED
    BY <1>1, <1>2, <1>3

LEMMA AheadAdvance ==
    ASSUME NEW t \in Tick, NEW d \in Tick, 2 * (1 - Ahead(t, d)) < TICK_MOD
    PROVE  Ahead(TickPlus(t, 1), d) = Ahead(t, d) - 1
  BY TickModAssumption DEF Ahead, Due, tick_elapsed, TickPlus, Tick

\* A moment p after one that is lag ago.
LEMMA AheadOfPlus ==
    ASSUME NEW t \in Tick, NEW n \in Tick, NEW p \in Nat, p < TICK_MOD, 2 * p <= TICK_MOD,
           2 * tick_elapsed(t, n) < TICK_MOD
    PROVE  Ahead(t, TickPlus(n, p)) = p - tick_elapsed(t, n)
  BY TickModAssumption DEF Ahead, Due, tick_elapsed, TickPlus, Tick

LEMMA AheadOfPast ==
    ASSUME NEW t \in Tick, NEW n \in Tick, 2 * tick_elapsed(t, n) < TICK_MOD
    PROVE  Ahead(t, n) = 0 - tick_elapsed(t, n)
  BY TickModAssumption DEF Ahead, Due, tick_elapsed, Tick

\* What is not due on a clock read lag ago lies after it.
LEMMA NotDueIsAhead ==
    ASSUME NEW t \in Tick, NEW n \in Tick, NEW d \in Tick,
           ~Due(n, d), 2 * tick_elapsed(t, n) < TICK_MOD, -2 * Ahead(t, d) < TICK_MOD
    PROVE  Ahead(t, d) > 0 - tick_elapsed(t, n)
  BY TickModAssumption DEF Ahead, Due, tick_elapsed, Tick

LEMMA WaitedLonger ==
    ASSUME NEW b \in Nat, NEW p \in Nat
    PROVE  b * p \in Nat /\ (b + 1) * p = b * p + p
  OBVIOUS

\* What a step that follows the bus does to the history variables.
LEMMA TrackFacts ==
    ASSUME Track, HistoriesFollow, uptime \in Nat, uptime' \in Nat, uptime <= uptime',
           quiet_since \in Int, wrong_since \in Int
    PROVE  /\ HistoriesFollow'
           /\ quiet_since' # -1 =>
                /\ DangerReported'
                /\ \/ quiet_since' = uptime'
                   \/ /\ quiet_since' = quiet_since /\ quiet_since # -1
                      /\ ~(sent_at' = uptime' /\ bus'.HLEUCHTE)
  BY DEF Track, HistoriesFollow

\* The types and the bounds the steps reckon with.
Reckoning ==
    /\ uptime \in Nat /\ wake \in Nat /\ rx_at \in Nat /\ busy \in Nat
    /\ quiet_since \in Int /\ wrong_since \in Int /\ NextAt \in Int
    /\ tick \in Tick /\ now \in Tick /\ s_next_warning_tick \in Tick
    /\ s_diag \in Diagnostic
    /\ PERIOD \in Nat \ {0} /\ DELAY \in Nat \ {0} /\ MaxLag \in Nat /\ TIMEOUT \in Nat
    /\ TICK_MOD \in Nat \ {0} /\ TIMEOUT < TICK_MOD /\ PERIOD < TICK_MOD
    /\ 2 * PERIOD <= TICK_MOD /\ 2 * (DELAY + 2 * MaxLag - 1) < TICK_MOD
    /\ Overdue = DELAY + 2 * MaxLag - 1
    /\ RefusedTime \in Nat
    /\ uptime <= wake + MaxLag /\ NowAt \in Int
    /\ NowAt = uptime - tick_elapsed(tick, now) /\ tick_elapsed(tick, now) \in Nat
    /\ InRound => wake <= NowAt /\ tick_elapsed(tick, now) <= MaxLag
                  /\ 2 * tick_elapsed(tick, now) < TICK_MOD

LEMMA WarningReckoning ==
    ASSUME TimesAreShort, WarningInv
    PROVE  Reckoning
  <1>1. /\ uptime \in Nat /\ wake \in Nat /\ rx_at \in Nat /\ busy \in Nat
        /\ quiet_since \in Int /\ wrong_since \in Int
        /\ tick \in Tick /\ now \in Tick /\ s_next_warning_tick \in Tick /\ s_diag \in Diagnostic
    BY SafetyAssumption DEF WarningInv, FreshInv, TypeOK
  <1>2. /\ PERIOD \in Nat \ {0} /\ DELAY \in Nat \ {0} /\ MaxLag \in Nat /\ TIMEOUT \in Nat
        /\ TICK_MOD \in Nat \ {0} /\ TIMEOUT < TICK_MOD /\ PERIOD < TICK_MOD
        /\ 2 * PERIOD <= TICK_MOD /\ 2 * Overdue < TICK_MOD
        /\ Overdue = DELAY + 2 * MaxLag - 1
    BY SafetyAssumption, TickModAssumption DEF TimesAreShort, Overdue
  <1>3. NextAt \in Int
    BY <1>1, AheadType DEF NextAt
  <1>4. PERIOD + Overdue \in Nat
    BY <1>2
  <1>5. RefusedTime \in Nat
    BY <1>1, <1>4, WaitedLonger DEF RefusedTime
  <1>6. tick_elapsed(tick, now) \in Nat
    <2>1. tick_elapsed(tick, now) \in 0 .. TICK_MOD - 1
      BY <1>1, ElapsedFacts
    <2> QED
      BY <1>2, <2>1
  <1>7. uptime <= wake + MaxLag /\ (InRound => wake <= NowAt)
    BY DEF WarningInv, FreshInv, RoundInTime
  <1>8. NowAt = uptime - tick_elapsed(tick, now) /\ NowAt \in Int
    BY <1>1, <1>6 DEF NowAt
  <1> HIDE DEF NowAt
  <1>9. InRound => /\ tick_elapsed(tick, now) <= MaxLag
                   /\ 2 * tick_elapsed(tick, now) < TICK_MOD
    BY <1>1, <1>2, <1>6, <1>7, <1>8
  <1> QED
    BY <1>1, <1>2, <1>3, <1>5, <1>6, <1>7, <1>8, <1>9 DEF Reckoning

LEMMA RefusedFacts ==
    ASSUME Reckoning
    PROVE  /\ busy' = busy => RefusedTime' = RefusedTime
           /\ busy' = busy + 1 => RefusedTime' = RefusedTime + PERIOD + Overdue
  <1> DEFINE p == PERIOD + Overdue
  <1>1. p \in Nat /\ busy \in Nat /\ PERIOD \in Nat /\ Overdue \in Int
    BY DEF Reckoning
  <1>2. RefusedTime = busy * p /\ RefusedTime' = busy' * p
    BY DEF RefusedTime, Overdue
  <1>3. (busy + 1) * p = busy * p + p /\ busy * p \in Nat
    BY <1>1, WaitedLonger
  <1>4. busy' = busy => RefusedTime' = RefusedTime
    BY <1>2
  <1>5. busy' = busy + 1 => RefusedTime' = RefusedTime + p
    BY <1>2, <1>3
  <1>6. RefusedTime + p = RefusedTime + PERIOD + Overdue
    BY <1>1, <1>2, <1>3
  <1> QED
    BY <1>4, <1>5, <1>6

\* A status stored after the round had read its clock, or a round without one.
LEMMA NotRecentIsNew ==
    ASSUME Reckoning, FreshInv, InRound, DangerReported,
           ~(s_diag.valid /\ tick_elapsed(now, s_diag.last_rx_tick) <= TIMEOUT)
    PROVE  NowAt <= rx_at
  <1>1. s_diag.valid /\ uptime - rx_at <= TIMEOUT
    BY DEF DangerReported
  <1>2. SUFFICES ASSUME NowAt > rx_at PROVE FALSE
    BY DEF Reckoning
  <1>3. NowAt <= uptime
    BY DEF Reckoning
  <1>4. rx_at <= NowAt /\ NowAt - rx_at <= TIMEOUT /\ NowAt - rx_at < TICK_MOD
    BY <1>1, <1>2, <1>3 DEF Reckoning
  <1>5. tick_elapsed(now, s_diag.last_rx_tick) = NowAt - rx_at
    BY <1>1, <1>4 DEF FreshInv, TrueAges
  <1> QED
    BY <1>1, <1>4, <1>5

LEMMA OnRxInTime ==
    ASSUME TimesAreShort, WarningInv, NEW st \in Statuses, OnRx(st)
    PROVE  OnSchedule' /\ HistoriesFollow' /\ AttemptInTime'
  <1>1. Reckoning
    BY WarningReckoning
  <1>2. st \in Status
    BY SafetyAssumption
  <1>3. /\ rx_at' = uptime /\ tick' = tick /\ uptime' = uptime /\ wake' = wake
        /\ pc' = pc /\ now' = now /\ active' = active /\ frame' = frame /\ Track
        /\ (InRound' <=> InRound) /\ NowAt' = NowAt
    BY DEF OnRx, locals, InRound, NowAt
  <1>4. DangerReported' <=> Dangerous(st)
    <2>1. /\ s_diag'.valid /\ s_diag'.risk_level = st.risk_level
          /\ s_diag'.SENSOR_FAULT = st.SENSOR_FAULT
          /\ s_diag'.active_fault_bitmap = st.active_fault_bitmap
      BY <1>1, <1>2 DEF OnRx, Store, Received, Reckoning, Diagnostic, Status
    <2>2. Dangerous(s_diag') <=> Dangerous(st)
      BY <2>1 DEF Dangerous, Faulty
    <2> QED
      BY <1>1, <1>3, <2>1, <2>2 DEF DangerReported, Reckoning
  <1>5. /\ HistoriesFollow'
        /\ quiet_since' # -1 =>
             /\ DangerReported'
             /\ \/ quiet_since' = uptime
                \/ /\ quiet_since' = quiet_since /\ quiet_since # -1
                   /\ ~(sent_at' = uptime /\ bus'.HLEUCHTE)
    <2>1. HistoriesFollow /\ uptime \in Nat /\ uptime' \in Nat /\ uptime <= uptime'
          /\ quiet_since \in Int /\ wrong_since \in Int
      BY <1>1, <1>3 DEF WarningInv, Reckoning
    <2> QED
      BY <1>3, <2>1, TrackFacts
  <1>6. Dark' /\ DangerReported' => NowAt' <= rx_at'
    BY <1>1, <1>3 DEF Reckoning
  <1>7. CASE ~Dangerous(st)
    <2>1. s_next_warning_tick' = s_next_warning_tick /\ NextAt' = NextAt
      BY <1>3, <1>7 DEF OnRx, NextAt
    <2>2. quiet_since' = -1
      BY <1>4, <1>5, <1>7
    <2>3. OnSchedule'
      BY <1>3, <2>1 DEF WarningInv, OnSchedule
    <2> QED
      BY <1>5, <1>6, <2>2, <2>3 DEF AttemptInTime
  <1>8. CASE Dangerous(st)
    <2>1. s_next_warning_tick' = TickPlus(tick, PERIOD)
      BY <1>8 DEF OnRx
    <2>2. NextAt' = uptime + PERIOD
      <3>1. tick_elapsed(tick, tick) = 0
        BY <1>1, ElapsedFacts DEF Reckoning
      <3>2. Ahead(tick, TickPlus(tick, PERIOD)) = PERIOD
        BY <1>1, <3>1, AheadOfPlus DEF Reckoning
      <3> QED
        BY <1>3, <2>1, <3>2 DEF NextAt
    <2>3. wake <= uptime + DELAY
      BY <1>1 DEF WarningInv, OnSchedule, Reckoning
    <2>4. OnSchedule'
      BY <1>1, <1>3, <2>2, <2>3 DEF OnSchedule, Reckoning, Overdue
    <2>5. ASSUME quiet_since' # -1
          PROVE  WaitedSince' \in Int /\ uptime <= WaitedSince'
      <3>1. CASE sent_at' = uptime /\ bus'.HLEUCHTE /\ busy' = busy
        <4>1. quiet_since' = uptime
          BY <1>5, <2>5, <3>1
        <4> QED
          BY <1>1, <3>1, <4>1, RefusedFacts DEF Reckoning, WaitedSince
      <3>2. CASE busy' = busy + 1
        <4>1. RefusedTime' = RefusedTime + PERIOD + Overdue
          BY <1>1, <3>2, RefusedFacts
        <4>2. WaitedSince' = quiet_since' + RefusedTime + PERIOD + Overdue
          BY <1>1, <1>5, <2>5, <4>1 DEF WaitedSince, Reckoning
        <4>3. CASE quiet_since' = uptime
          BY <1>1, <4>2, <4>3 DEF Reckoning
        <4>4. CASE quiet_since' = quiet_since /\ quiet_since # -1
          <5>1. wake + MaxLag <= WaitedSince + PERIOD + Overdue
            BY <4>4 DEF WarningInv, AttemptInTime
          <5> QED
            BY <1>1, <4>2, <4>4, <5>1 DEF Reckoning, WaitedSince
        <4> QED
          BY <1>5, <2>5, <4>3, <4>4
      <3>3. Motor5(TRUE, st).HLEUCHTE
        BY DEF Motor5
      <3> QED
        BY <1>8, <3>1, <3>2, <3>3 DEF OnRx, SendTo
    <2>6. ASSUME quiet_since' # -1
          PROVE  /\ rx_at' <= WaitedSince' /\ NextAt' <= WaitedSince' + PERIOD
                 /\ wake' + MaxLag <= WaitedSince' + PERIOD + Overdue
      BY <1>1, <1>3, <2>2, <2>3, <2>5, <2>6 DEF Reckoning
    <2>7. AttemptInTime'
      BY <1>6, <2>6 DEF AttemptInTime, Overdue
    <2> QED
      BY <1>5, <2>4, <2>7
  <1> QED
    BY <1>7, <1>8

LEMMA ClearDtcInTime ==
    ASSUME TimesAreShort, WarningInv, ClearDtc
    PROVE  OnSchedule' /\ HistoriesFollow' /\ AttemptInTime'
  <1>1. /\ s_diag'.valid = s_diag.valid /\ s_diag'.risk_level = s_diag.risk_level
        /\ s_diag'.SENSOR_FAULT = s_diag.SENSOR_FAULT
        /\ s_diag'.active_fault_bitmap = s_diag.active_fault_bitmap
    BY DEF WarningInv, FreshInv, TypeOK, ClearDtc, Diagnostic
  <1>2. UNCHANGED <<tick, uptime, s_next_warning_tick, pc, now, active, frame, busy, wake,
                    rx_at, wrong_since, quiet_since>>
    BY DEF ClearDtc, locals, wire
  <1>3. DangerReported' <=> DangerReported
    BY <1>1, <1>2 DEF DangerReported, Dangerous, Faulty
  <1> QED
    BY <1>2, <1>3
       DEF WarningInv, OnSchedule, HistoriesFollow, AttemptInTime, WaitedSince, RefusedTime,
           Dark, NextAt, NowAt, InRound

LEMMA ReadNowInTime ==
    ASSUME TimesAreShort, WarningInv, ReadNow
    PROVE  OnSchedule' /\ HistoriesFollow' /\ AttemptInTime'
  <1>1. /\ UNCHANGED <<tick, uptime, s_diag, s_next_warning_tick, busy, wake,
                       rx_at, wrong_since, quiet_since>>
        /\ pc = "sleep" /\ pc' = "due"
    BY DEF ReadNow, shared, wire
  <1>2. ~Dark' /\ InRound'
    BY <1>1 DEF Dark, InRound
  <1>3. DangerReported' <=> DangerReported
    BY <1>1 DEF DangerReported
  <1> QED
    BY <1>1, <1>2, <1>3
       DEF WarningInv, OnSchedule, HistoriesFollow, AttemptInTime, WaitedSince, RefusedTime,
           NextAt

LEMMA CheckDueInTime ==
    ASSUME TimesAreShort, WarningInv, CheckDue
    PROVE  OnSchedule' /\ HistoriesFollow' /\ AttemptInTime'
  <1> DEFINE next == IF s_next_warning_tick = 0 THEN now ELSE s_next_warning_tick
  <1>1. Reckoning /\ OnSchedule /\ HistoriesFollow /\ AttemptInTime
    BY WarningReckoning DEF WarningInv
  <1>2. /\ UNCHANGED <<tick, uptime, s_diag, now, active, frame, busy, rx_at,
                       wrong_since, quiet_since>>
        /\ pc = "due" /\ s_next_warning_tick' = next /\ InRound
        /\ IF Due(now, next) THEN pc' = "recent" /\ wake' = wake
           ELSE pc' = "sleep" /\ wake' = uptime + DELAY
    BY DEF CheckDue, wire, WarningDue, Sleep, InRound
  <1>3. /\ ~Dark' /\ WaitedSince' = WaitedSince /\ HistoriesFollow'
        /\ DangerReported' <=> DangerReported
    BY <1>1, <1>2 DEF Dark, WaitedSince, RefusedTime, HistoriesFollow, DangerReported
  <1>4. wake <= NowAt /\ NowAt <= uptime /\ uptime <= NowAt + MaxLag /\ NowAt \in Int
    BY <1>1, <1>2 DEF Reckoning
  <1>5. NextAt' = IF s_next_warning_tick = 0 THEN NowAt ELSE NextAt
    <2>1. Ahead(tick, now) = 0 - tick_elapsed(tick, now)
      BY <1>1, <1>2, AheadOfPast DEF Reckoning
    <2>2. s_next_warning_tick = 0 => uptime + Ahead(tick, now) = NowAt
      BY <1>1, <2>1 DEF Reckoning
    <2> QED
      BY <1>2, <2>2 DEF NextAt
  <1>6. CASE Due(now, next)
    <2>1. OnSchedule'
      BY <1>1, <1>2, <1>4, <1>5, <1>6 DEF OnSchedule, Reckoning, InRound, Overdue
    <2>2. AttemptInTime'
      BY <1>1, <1>2, <1>3, <1>6 DEF AttemptInTime, Overdue
    <2> QED
      BY <1>3, <2>1, <2>2
  <1>7. CASE ~Due(now, next)
    <2>1. s_next_warning_tick # 0
      <3>1. tick_elapsed(now, now) = 0
        BY <1>1, ElapsedFacts DEF Reckoning
      <3>2. Due(now, now)
        BY <1>1, <3>1 DEF Due, Reckoning
      <3> QED
        BY <1>7, <3>2
    <2>2. NextAt > NowAt
      <3>1. -2 * Ahead(tick, s_next_warning_tick) < TICK_MOD
        <4>1. Ahead(tick, s_next_warning_tick) \in Int
          BY <1>1, AheadType DEF Reckoning
        <4>2. uptime <= uptime + Ahead(tick, s_next_warning_tick) + Overdue
          BY <1>1 DEF Reckoning, OnSchedule, NextAt
        <4> QED
          BY <1>1, <4>1, <4>2 DEF Reckoning
      <3>2. ~Due(now, s_next_warning_tick)
        BY <1>7, <2>1
      <3>3. Ahead(tick, s_next_warning_tick) > 0 - tick_elapsed(tick, now)
        BY <1>1, <1>2, <3>1, <3>2, NotDueIsAhead DEF Reckoning
      <3>4. Ahead(tick, s_next_warning_tick) \in Int
        BY <1>1, AheadType DEF Reckoning
      <3> QED
        BY <1>1, <3>3, <3>4 DEF Reckoning, NextAt
    <2>3. NextAt' = NextAt
      BY <1>5, <2>1
    <2>4. wake' + MaxLag <= NextAt + Overdue
      BY <1>1, <1>2, <1>4, <1>7, <2>2 DEF Reckoning
    <2>5. OnSchedule'
      BY <1>1, <1>2, <1>7, <2>3, <2>4 DEF OnSchedule, Overdue, Reckoning
    <2>6. quiet_since # -1 => wake' + MaxLag <= WaitedSince + PERIOD + Overdue
      BY <1>1, <1>2, <1>7, <2>4 DEF AttemptInTime, Reckoning, WaitedSince
    <2>7. AttemptInTime'
      BY <1>1, <1>2, <1>3, <2>3, <2>6 DEF AttemptInTime, Overdue
    <2> QED
      BY <1>3, <2>5, <2>7
  <1> QED
    BY <1>6, <1>7

\* The round ends with the next deadline a period after the clock it read.
LEMMA RoundEnds ==
    ASSUME Reckoning, InRound, Sleep, s_next_warning_tick' = TickPlus(now, PERIOD),
           tick' = tick, uptime' = uptime
    PROVE  /\ OnSchedule' /\ NextAt' = NowAt + PERIOD
           /\ wake' + MaxLag <= NowAt + PERIOD + Overdue
  <1>1. pc' = "sleep" /\ wake' = uptime + DELAY
    BY DEF Sleep
  <1>2. Ahead(tick, TickPlus(now, PERIOD)) = PERIOD - tick_elapsed(tick, now)
    BY AheadOfPlus DEF Reckoning
  <1>3. NextAt' = NowAt + PERIOD
    BY <1>2 DEF Reckoning, NextAt
  <1>4. /\ wake <= NowAt /\ NowAt <= uptime /\ uptime <= NowAt + MaxLag /\ NowAt \in Int
        /\ uptime \in Nat /\ PERIOD \in Nat \ {0} /\ MaxLag \in Nat /\ DELAY \in Nat
        /\ Overdue = DELAY + 2 * MaxLag - 1
    BY DEF Reckoning
  <1>5. wake' + MaxLag <= NowAt + PERIOD + Overdue
    BY <1>1, <1>4
  <1>6. OnSchedule'
    BY <1>1, <1>3, <1>4, <1>5 DEF OnSchedule, Overdue
  <1> QED
    BY <1>3, <1>5, <1>6

LEMMA CheckRecentInTime ==
    ASSUME TimesAreShort, WarningInv, CheckRecent
    PROVE  OnSchedule' /\ HistoriesFollow' /\ AttemptInTime'
  <1>1. Reckoning /\ OnSchedule /\ HistoriesFollow /\ AttemptInTime /\ FreshInv
    BY WarningReckoning DEF WarningInv
  <1>2. /\ UNCHANGED <<tick, uptime, s_diag, now, active, frame, busy, rx_at,
                       wrong_since, quiet_since>>
        /\ pc = "recent" /\ InRound
    BY DEF CheckRecent, wire, InRound
  <1>3. /\ WaitedSince' = WaitedSince /\ HistoriesFollow'
        /\ DangerReported' <=> DangerReported
    BY <1>1, <1>2 DEF WaitedSince, RefusedTime, HistoriesFollow, DangerReported
  <1>4. CASE safety_status_recent(now)
    <2>1. pc' = "active" /\ wake' = wake /\ s_next_warning_tick' = s_next_warning_tick
      BY <1>4 DEF CheckRecent
    <2> QED
      BY <1>1, <1>2, <1>3, <2>1
         DEF OnSchedule, AttemptInTime, Dark, InRound, NextAt, Overdue
  <1>5. CASE ~safety_status_recent(now)
    <2>1. Sleep /\ s_next_warning_tick' = TickPlus(now, PERIOD) /\ pc' = "sleep"
      BY <1>5 DEF CheckRecent, Sleep
    <2>2. /\ OnSchedule' /\ NextAt' = NowAt + PERIOD
          /\ wake' + MaxLag <= NowAt + PERIOD + Overdue
      BY <1>1, <1>2, <2>1, RoundEnds
    <2>3. quiet_since # -1 => NowAt <= WaitedSince
      <3>1. DangerReported => NowAt <= rx_at
        BY <1>1, <1>2, <1>5, NotRecentIsNew DEF safety_status_recent
      <3> QED
        BY <1>1, <3>1 DEF HistoriesFollow, AttemptInTime, Reckoning, WaitedSince
    <2>4. ASSUME quiet_since # -1
          PROVE  /\ rx_at' <= WaitedSince' /\ NextAt' <= WaitedSince' + PERIOD
                 /\ wake' + MaxLag <= WaitedSince' + PERIOD + Overdue
      <3>1. wake' \in Nat
        BY <1>1, <2>1 DEF Sleep, Reckoning
      <3> QED
        BY <1>1, <1>2, <1>3, <2>2, <2>3, <2>4, <3>1
           DEF AttemptInTime, Reckoning, WaitedSince
    <2>5. AttemptInTime'
      BY <1>2, <2>1, <2>4 DEF AttemptInTime, Dark, Overdue
    <2> QED
      BY <1>3, <2>2, <2>5
  <1> QED
    BY <1>4, <1>5

LEMMA BuildInTime ==
    ASSUME TimesAreShort, WarningInv, BuildActive \/ BuildBits \/ StoreAlive
    PROVE  OnSchedule' /\ HistoriesFollow' /\ AttemptInTime'
  <1>1. Reckoning /\ OnSchedule /\ HistoriesFollow /\ AttemptInTime /\ FreshInv
    BY WarningReckoning DEF WarningInv
  <1>2. /\ UNCHANGED <<tick, uptime, s_diag, s_next_warning_tick, now, busy, wake, rx_at,
                       wrong_since, quiet_since>>
        /\ InRound /\ InRound' /\ pc' \notin {"sleep", "due"}
    BY DEF BuildActive, BuildBits, StoreAlive, shared, wire, ghosts, InRound
  <1>3. /\ WaitedSince' = WaitedSince /\ HistoriesFollow' /\ NextAt' = NextAt /\ NowAt' = NowAt
        /\ DangerReported' <=> DangerReported
    BY <1>1, <1>2
       DEF WaitedSince, RefusedTime, HistoriesFollow, DangerReported, NextAt, NowAt
  <1>4. OnSchedule'
    BY <1>1, <1>2, <1>3 DEF OnSchedule, Overdue
  <1>5. Dark' /\ DangerReported => NowAt <= rx_at
    <2>1. CASE BuildActive
      <3>1. pc' = "bits" /\ active' = safety_warning_active(now)
        BY <2>1 DEF BuildActive
      <3>2. SUFFICES ASSUME ~active', DangerReported PROVE NowAt <= rx_at
        BY <3>1 DEF Dark
      <3>3. Dangerous(s_diag) /\ ~safety_status_recent(now)
        BY <3>1, <3>2 DEF DangerReported, safety_warning_active
      <3> QED
        BY <1>1, <1>2, <3>2, <3>3, NotRecentIsNew DEF safety_status_recent
    <2>2. CASE BuildBits
      <3>1. pc = "bits" /\ pc' = "store" /\ frame'.HLEUCHTE = active
        BY <2>2 DEF BuildBits, Motor5
      <3> QED
        BY <1>1, <3>1 DEF AttemptInTime, Dark
    <2>3. CASE StoreAlive
      <3>1. pc = "store" /\ pc' = "send" /\ frame' = frame
        BY <2>3 DEF StoreAlive
      <3> QED
        BY <1>1, <3>1 DEF AttemptInTime, Dark
    <2> QED
      BY <2>1, <2>2, <2>3
  <1>6. AttemptInTime'
    BY <1>1, <1>2, <1>3, <1>5 DEF AttemptInTime, Overdue
  <1> QED
    BY <1>3, <1>4, <1>6

LEMMA SendWarningInTime ==
    ASSUME TimesAreShort, WarningInv, SendWarning
    PROVE  OnSchedule' /\ HistoriesFollow' /\ AttemptInTime'
  <1>1. Reckoning /\ OnSchedule /\ HistoriesFollow /\ AttemptInTime
    BY WarningReckoning DEF WarningInv
  <1>2. /\ tick' = tick /\ uptime' = uptime /\ rx_at' = rx_at /\ Sleep /\ Track
        /\ s_next_warning_tick' = TickPlus(now, PERIOD)
        /\ pc = "send" /\ pc' = "sleep" /\ InRound
        /\ s_diag' = s_diag /\ (DangerReported' <=> DangerReported)
    BY DEF SendWarning, Sleep, InRound, DangerReported
  <1>3. /\ OnSchedule' /\ NextAt' = NowAt + PERIOD
        /\ wake' + MaxLag <= NowAt + PERIOD + Overdue
    BY <1>1, <1>2, RoundEnds
  <1>4. /\ HistoriesFollow'
        /\ quiet_since' # -1 =>
             /\ DangerReported'
             /\ \/ quiet_since' = uptime
                \/ /\ quiet_since' = quiet_since /\ quiet_since # -1
                   /\ ~(sent_at' = uptime /\ bus'.HLEUCHTE)
    <2>1. uptime \in Nat /\ uptime' \in Nat /\ uptime <= uptime'
          /\ quiet_since \in Int /\ wrong_since \in Int
      BY <1>1, <1>2 DEF Reckoning
    <2> QED
      BY <1>1, <1>2, <2>1, TrackFacts
  <1>5. ASSUME quiet_since' # -1
        PROVE  /\ WaitedSince' \in Int /\ NowAt <= WaitedSince' /\ rx_at <= WaitedSince'
    <2>1. DangerReported /\ rx_at <= uptime /\ NowAt <= uptime
      BY <1>1, <1>2, <1>4, <1>5 DEF WarningInv, FreshInv, TrueAges, Reckoning
    <2>2. busy' = busy \/ busy' = busy + 1
      BY DEF SendWarning, SendTo
    <2>4. CASE quiet_since' = uptime
      <3>1. WaitedSince' = uptime + RefusedTime'
        BY <2>4 DEF WaitedSince
      <3>2. CASE busy' = busy
        <4>1. WaitedSince' = uptime + RefusedTime
          BY <1>1, <3>1, <3>2, RefusedFacts
        <4> QED
          BY <1>1, <2>1, <4>1 DEF Reckoning
      <3>3. CASE busy' = busy + 1
        <4>1. WaitedSince' = uptime + (RefusedTime + PERIOD + Overdue)
          BY <1>1, <3>1, <3>3, RefusedFacts
        <4>2. /\ PERIOD + Overdue \in Nat /\ RefusedTime \in Nat
          BY <1>1 DEF Reckoning
        <4> QED
          BY <1>1, <2>1, <4>1, <4>2 DEF Reckoning
      <3> QED
        BY <2>2, <3>2, <3>3
    <2>5. CASE quiet_since' = quiet_since /\ quiet_since # -1 /\ busy' = busy + 1
      <3>1. RefusedTime' = RefusedTime + PERIOD + Overdue
        BY <1>1, <2>5, RefusedFacts
      <3>2. wake + MaxLag <= WaitedSince + PERIOD + Overdue
        BY <1>1, <2>5 DEF AttemptInTime
      <3> QED
        BY <1>1, <2>1, <2>5, <3>1, <3>2 DEF WaitedSince, Reckoning
    <2>6. CASE /\ quiet_since' = quiet_since /\ quiet_since # -1 /\ busy' = busy
               /\ ~(sent_at' = uptime /\ bus'.HLEUCHTE)
      <3>1. sent_at' = uptime /\ bus' = frame
        BY <1>1, <2>6 DEF SendWarning, SendTo, Reckoning
      <3>2. Dark
        BY <1>2, <2>6, <3>1 DEF Dark
      <3>3. NowAt <= rx_at /\ rx_at <= WaitedSince
        BY <1>1, <2>1, <2>6, <3>2 DEF AttemptInTime
      <3>4. WaitedSince' = WaitedSince /\ WaitedSince \in Int
        <4>1. RefusedTime' = RefusedTime /\ RefusedTime \in Nat /\ quiet_since \in Int
          BY <1>1, <2>6, RefusedFacts DEF Reckoning
        <4> QED
          BY <2>6, <4>1 DEF WaitedSince
      <3> QED
        BY <1>1, <3>3, <3>4 DEF Reckoning
    <2> QED
      BY <1>4, <1>5, <2>2, <2>4, <2>5, <2>6
  <1>6. ~Dark'
    BY <1>2 DEF Dark
  <1>7. ASSUME quiet_since' # -1
        PROVE  /\ rx_at' <= WaitedSince' /\ NextAt' <= WaitedSince' + PERIOD
               /\ wake' + MaxLag <= WaitedSince' + PERIOD + Overdue
    <2>1. wake' \in Nat
      BY <1>1, <1>2 DEF Sleep, Reckoning
    <2> QED
      BY <1>1, <1>2, <1>3, <1>5, <1>7, <2>1 DEF Reckoning
  <1> QED
    BY <1>3, <1>4, <1>6, <1>7 DEF AttemptInTime, Overdue

LEMMA AdvanceTickInTime ==
    ASSUME TimesAreShort, WarningInv, AdvanceTick
    PROVE  OnSchedule' /\ HistoriesFollow' /\ AttemptInTime'
  <1>1. Reckoning /\ OnSchedule /\ HistoriesFollow /\ AttemptInTime
    BY WarningReckoning DEF WarningInv
  <1>2. /\ tick' = TickPlus(tick, 1) /\ uptime' = uptime + 1 /\ uptime < wake + MaxLag
        /\ UNCHANGED <<s_diag, s_next_warning_tick, pc, now, active, frame, busy, wake, rx_at>>
        /\ Track /\ (InRound' <=> InRound) /\ (Dark' <=> Dark)
    BY DEF AdvanceTick, shared, locals, wire, InRound, Dark
  <1>3. DangerReported' => DangerReported
    BY <1>1, <1>2 DEF DangerReported, Reckoning
  <1>4. NextAt' = NextAt
    <2> DEFINE a == Ahead(tick, s_next_warning_tick)
    <2>1. a \in Int /\ NextAt = uptime + a
      BY <1>1, AheadType DEF Reckoning, NextAt
    <2>2. uptime + 1 <= uptime + a + Overdue
      BY <1>1, <1>2, <2>1 DEF OnSchedule, Reckoning
    <2>3. 2 * (1 - a) < TICK_MOD
      BY <1>1, <2>1, <2>2 DEF Reckoning
    <2>4. Ahead(tick', s_next_warning_tick') = a - 1
      BY <1>1, <1>2, <2>3, AheadAdvance DEF Reckoning
    <2>5. NextAt' = uptime' + Ahead(tick', s_next_warning_tick')
      BY DEF NextAt
    <2> HIDE DEF a
    <2> QED
      BY <1>1, <1>2, <2>1, <2>4, <2>5 DEF Reckoning
  <1>5. InRound => NowAt' = NowAt
    <2> DEFINE lag == tick_elapsed(tick, now)
    <2>1. SUFFICES ASSUME InRound PROVE NowAt' = NowAt
      OBVIOUS
    <2>2. lag < TICK_MOD - 1
      BY <1>1, <1>2, <2>1 DEF Reckoning
    <2>3. tick_elapsed(tick', now') = lag + 1
      BY <1>1, <1>2, <2>2, ElapsedFacts DEF Reckoning
    <2>4. NowAt' = uptime' - tick_elapsed(tick', now')
      BY DEF NowAt
    <2> HIDE DEF lag
    <2>5. NowAt = uptime - lag /\ lag \in Nat
      BY <1>1 DEF Reckoning, lag
    <2> QED
      BY <1>1, <1>2, <2>3, <2>4, <2>5 DEF Reckoning
  <1>6. OnSchedule'
    BY <1>1, <1>2, <1>4 DEF OnSchedule, Reckoning, Overdue
  <1>7. /\ HistoriesFollow'
        /\ quiet_since' # -1 =>
             DangerReported' /\ (quiet_since' = uptime' \/ quiet_since' = quiet_since)
    <2>1. uptime \in Nat /\ uptime' \in Nat /\ uptime <= uptime'
          /\ quiet_since \in Int /\ wrong_since \in Int
      BY <1>1, <1>2 DEF Reckoning
    <2> QED
      BY <1>1, <1>2, <2>1, TrackFacts
  <1>8. quiet_since' # -1 => quiet_since # -1 /\ WaitedSince' >= WaitedSince /\ WaitedSince' \in Int
    <2>1. RefusedTime' = RefusedTime
      BY <1>1, <1>2, RefusedFacts
    <2> QED
      BY <1>1, <1>2, <1>3, <1>7, <2>1 DEF HistoriesFollow, WaitedSince, Reckoning
  <1>9. Dark' /\ DangerReported' => NowAt' <= rx_at'
    BY <1>1, <1>2, <1>3, <1>5 DEF AttemptInTime, Dark, InRound
  <1>10. ASSUME quiet_since' # -1
         PROVE  /\ rx_at' <= WaitedSince'
                /\ pc' \in {"sleep", "due"} => NextAt' <= WaitedSince' + PERIOD
                /\ wake' + MaxLag <= WaitedSince' + PERIOD + Overdue
    <2>1. /\ rx_at <= WaitedSince
          /\ pc \in {"sleep", "due"} => NextAt <= WaitedSince + PERIOD
          /\ wake + MaxLag <= WaitedSince + PERIOD + Overdue
      BY <1>1, <1>8, <1>10 DEF AttemptInTime
    <2>2. WaitedSince \in Int
      BY <1>1 DEF WaitedSince, Reckoning
    <2> QED
      BY <1>1, <1>2, <1>4, <1>8, <1>10, <2>1, <2>2 DEF Reckoning
  <1> QED
    BY <1>6, <1>7, <1>9, <1>10 DEF AttemptInTime, Overdue

LEMMA WarningInit ==
    ASSUME TimesAreShort
    PROVE  Init => WarningInv
  <1> SUFFICES ASSUME Init PROVE WarningInv
    OBVIOUS
  <1>1. FreshInv
    BY TypeInit, SafetyAssumption, TickModAssumption
       DEF Init, FreshInv, InRound, NowAt, RoundInTime, TrueAges, RoundOnFreshData,
           NoStaleWarning
  <1>2. 0 \in Tick
    BY TickModAssumption DEF Tick
  <1>3. NextAt = 0
    BY <1>2, AheadType DEF Init, NextAt
  <1>4. OnSchedule
    BY <1>3, SafetyAssumption DEF Init, OnSchedule, InRound, Overdue
  <1>5. HistoriesFollow /\ AttemptInTime
    BY DEF Init, HistoriesFollow, DangerReported, AttemptInTime, Dark
  <1> QED
    BY <1>1, <1>4, <1>5 DEF WarningInv

LEMMA WarningStep ==
    ASSUME TimesAreShort, WarningInv, [Next]_vars
    PROVE  WarningInv'
  <1>1. FreshInv'
    BY FreshStep DEF WarningInv
  <1>2. ASSUME UNCHANGED vars
        PROVE  OnSchedule' /\ HistoriesFollow' /\ AttemptInTime'
    BY <1>2 DEF vars, shared, locals, wire, ghosts, WarningInv, OnSchedule, HistoriesFollow,
                AttemptInTime, NextAt, NowAt, InRound, Dark, DangerReported, WaitedSince,
                RefusedTime
  <1> QED
    BY <1>1, <1>2, OnRxInTime, ClearDtcInTime, ReadNowInTime, CheckDueInTime,
       CheckRecentInTime, BuildInTime, SendWarningInTime, AdvanceTickInTime
       DEF Next, GatewayTask, ClusterTask, WarningInv

LEMMA WarningInvImplies ==
    ASSUME TimesAreShort, WarningInv
    PROVE  WarningWithinPeriod /\ LampErrorHeals
  <1>1. Reckoning
    BY WarningReckoning
  <1>2. Patience = RefusedTime + PERIOD + Overdue /\ Patience \in Nat
    <2> DEFINE p == PERIOD + Overdue
    <2>1. p \in Nat /\ busy \in Nat
      BY <1>1 DEF Reckoning
    <2>2. (busy + 1) * p = busy * p + p /\ busy * p \in Nat
      BY <2>1, WaitedLonger
    <2>3. Patience = RefusedTime + p
      BY <2>2 DEF Patience, RefusedTime
    <2> QED
      BY <1>1, <2>1, <2>3 DEF Reckoning
  <1>3. quiet_since # -1 => uptime <= quiet_since + Patience
    BY <1>1, <1>2 DEF WarningInv, AttemptInTime, WaitedSince, Reckoning
  <1>4. WarningWithinPeriod
    BY <1>1, <1>2, <1>3 DEF WarningWithinPeriod, Reckoning
  <1>5. LampErrorHeals
    BY <1>1, <1>2, <1>3 DEF LampErrorHeals, WarningInv, HistoriesFollow, Reckoning
  <1> QED
    BY <1>4, <1>5

\* While Board E reports danger a frame with the lamp on goes out in every period,
\* a delay and the lateness of two rounds, with a period more for each frame that
\* found the mailboxes full: neither the put-off schedule of OnRx nor a status that
\* comes in the middle of a round leaves a gap, across the wrap of the tick and the
\* tick 0 that means "never scheduled".
THEOREM WarningComesInTime ==
    ASSUME TimesAreShort
    PROVE  Spec => []WarningWithinPeriod
  BY WarningInit, WarningStep, WarningInvImplies, PTL DEF Spec

\* A lamp that is off although danger is reported is on again within that time.
THEOREM LampIsCorrected ==
    ASSUME TimesAreShort
    PROVE  Spec => []LampErrorHeals
  BY WarningInit, WarningStep, WarningInvImplies, PTL DEF Spec

=============================================================================
