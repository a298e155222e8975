------------------------ MODULE EngineBridge_proofs ------------------------
(***************************************************************************)
(* Theorems about the engine bridge of the gateway (EngineBridge), for     *)
(* every timeout, lateness and set of inputs, and all periods.             *)
(***************************************************************************)
EXTENDS EngineBridge, TLAPS

-----------------------------------------------------------------------------
(* The arithmetic on the kernel tick, for every width of it.                  *)

LEMMA TickPlusType ==
    ASSUME NEW t \in Tick, NEW d \in Nat, d < TICK_MOD
    PROVE  TickPlus(t, d) \in Tick
  BY TickModAssumption DEF TickPlus, Tick

\* An unsigned age is 0 only at one moment, and grows with the tick below the wrap.
LEMMA ElapsedFacts ==
    ASSUME NEW t \in Tick, NEW u \in Tick
    PROVE  /\ tick_elapsed(t, u) \in 0 .. TICK_MOD - 1
           /\ tick_elapsed(t, t) = 0
           /\ tick_elapsed(t, u) = 0 => t = u
           /\ TickPlus(t, 1) \in Tick
           /\ tick_elapsed(t, u) < TICK_MOD - 1
                => tick_elapsed(TickPlus(t, 1), u) = tick_elapsed(t, u) + 1
  BY TickModAssumption DEF tick_elapsed, TickPlus, Tick

-----------------------------------------------------------------------------
(* Types. *)

LEMMA NextAliveType ==
    ASSUME NEW a \in 0 .. ALIVE_MOD - 1
    PROVE  NextAlive(a) \in 0 .. ALIVE_MOD - 1
  BY EngineAssumption DEF NextAlive

LEMMA InputValues ==
    ASSUME NEW m \in Input, NEW w \in Signals
    PROVE  m[w] \in Nat /\ m.ign_on \in BOOLEAN
  BY DEF Input, Signals

LEMMA SendToType ==
    ASSUME TypeOK, SendTo
    PROVE  /\ bus' \in [Signals -> Nat] /\ alive' \in 0 .. ALIVE_MOD - 1
           /\ busy' \in 0 .. MaxBusy /\ sent_at' \in [Signals -> 0 .. MaxUptime]
  BY EngineAssumption DEF TypeOK, SendTo

LEMMA TrackType ==
    ASSUME Track(Disturbs) \/ Track(FALSE), uptime' \in 0 .. MaxUptime,
           wrong_since \in [Signals -> -1 .. MaxUptime]
    PROVE  wrong_since' \in [Signals -> -1 .. MaxUptime]
  <1>1. uptime' \in -1 .. MaxUptime /\ -1 \in -1 .. MaxUptime
    BY EngineAssumption
  <1> QED
    BY <1>1 DEF Track

LEMMA NextFrameType ==
    ASSUME TypeOK, NextFrame
    PROVE  /\ what' \in Signals /\ pc' \in {"due", "sleep"}
           /\ wake' \in 0 .. MaxUptime + DELAY
  <1>1. uptime + DELAY \in 0 .. MaxUptime + DELAY
    BY EngineAssumption DEF TypeOK
  <1> QED
    BY <1>1 DEF NextFrame, TypeOK, Signals

LEMMA TypeInit == Init => TypeOK
  <1> SUFFICES ASSUME Init PROVE TypeOK
    OBVIOUS
  <1>1. 0 \in Tick /\ 0 \in 0 .. ALIVE_MOD - 1
    BY TickModAssumption, EngineAssumption DEF Tick
  <1>2. s_cluster_input \in Input /\ what \in Signals
    BY DEF Init, Input, Signals
  <1>3. /\ uptime \in 0 .. MaxUptime /\ busy \in 0 .. MaxBusy /\ rx_at \in 0 .. MaxUptime
        /\ wake \in 0 .. MaxUptime + DELAY
        /\ 0 \in 0 .. MaxUptime /\ -1 \in -1 .. MaxUptime
    BY EngineAssumption DEF Init
  <1> QED
    BY <1>1, <1>2, <1>3 DEF Init, TypeOK

LEMMA TypeStep ==
    ASSUME TypeOK, [Next]_vars
    PROVE  TypeOK'
  <1> USE DEF TypeOK
  <1>1. ASSUME NEW m \in Inputs, OnRx(m)
        PROVE  TypeOK'
    <2>1. m \in Input
      BY EngineAssumption
    <2>2. wrong_since' \in [Signals -> -1 .. MaxUptime]
      BY <1>1, TrackType DEF OnRx
    <2> QED
      BY <1>1, <2>1, <2>2 DEF OnRx, sched, locals, wire
  <1>2. ASSUME ReadNow
        PROVE  TypeOK'
    BY <1>2 DEF ReadNow, input, wire, Signals
  <1>3. ASSUME CheckDue
        PROVE  TypeOK'
    BY <1>3, NextFrameType DEF CheckDue, input, sched, wire
  <1>4. ASSUME CheckIgn \/ CheckAge
        PROVE  TypeOK'
    <2>1. CASE CheckIgn
      BY <2>1 DEF CheckIgn, input, sched, wire, ghosts
    <2>2. CASE CheckAge
      <3> DEFINE recent == tick_elapsed(now, last_rx_tick) <= TIMEOUT
      <3>1. recent \in BOOLEAN
        OBVIOUS
      <3>2. active' = recent
        BY <2>2 DEF CheckAge
      <3> HIDE DEF recent
      <3>3. active' \in BOOLEAN
        BY <3>1, <3>2
      <3> QED
        BY <2>2, <3>3 DEF CheckAge, input, sched, wire, ghosts
    <2> QED
      BY <1>4, <2>1, <2>2
  <1>5. ASSUME ReadValue
        PROVE  TypeOK'
    <2>1. value' \in Nat /\ s_bremse_alive_counter' \in 0 .. ALIVE_MOD - 1
      BY <1>5, InputValues, NextAliveType DEF ReadValue
    <2> QED
      BY <1>5, <2>1 DEF ReadValue, input, wire, ghosts
  <1>6. ASSUME Send
        PROVE  TypeOK'
    <2>1. TickPlus(now, PERIODS[what]) \in Tick
      BY TickPlusType, EngineAssumption
    <2>2. wrong_since' \in [Signals -> -1 .. MaxUptime]
      BY <1>6, TrackType DEF Send
    <2> QED
      BY <1>6, <2>1, <2>2, SendToType, NextFrameType DEF Send, input
  <1>7. ASSUME AdvanceTick
        PROVE  TypeOK'
    <2>1. uptime' \in 0 .. MaxUptime
      BY <1>7, EngineAssumption DEF AdvanceTick
    <2>2. tick' \in Tick
      BY <1>7, ElapsedFacts DEF AdvanceTick
    <2>3. wrong_since' \in [Signals -> -1 .. MaxUptime]
      BY <1>7, <2>1, TrackType DEF AdvanceTick
    <2> QED
      BY <1>7, <2>1, <2>2, <2>3 DEF AdvanceTick, input, sched, locals, wire
  <1>8. ASSUME UNCHANGED vars
        PROVE  TypeOK'
    BY <1>8 DEF vars, input, sched, locals, wire, ghosts
  <1> QED
    BY <1>1, <1>2, <1>3, <1>4, <1>5, <1>6, <1>7, <1>8 DEF Next, GatewayTask, ClusterTask

\* Every variable of the bridge keeps its type; the alive nibble and both schedules
\* stay in their width.
THEOREM TypeCorrect == Spec => []TypeOK
  BY TypeInit, TypeStep, PTL DEF Spec

-----------------------------------------------------------------------------
(* No value on stale data.  Two frames are sent in a round, and a frame goes   *)
(* out with 0 when the data are old: the invariant is about the frames with a  *)
(* value.                                                                      *)

\* When the round read its clock, in true time.
NowAt == uptime - tick_elapsed(tick, now)

InRound == pc # "sleep"

RoundInTime ==
    /\ uptime <= wake + MaxLag /\ \A w \in Signals : sent_at[w] <= uptime
    /\ InRound => wake <= NowAt

\* Within a wrap of the last reception the unsigned ages are true ages; before the
\* first one, last_rx_tick and rx_at agree on the boot.
TrueAges ==
    /\ rx_at <= uptime
    /\ uptime - rx_at < TICK_MOD => tick_elapsed(tick, last_rx_tick) = uptime - rx_at
    /\ InRound /\ rx_at <= NowAt /\ NowAt - rx_at < TICK_MOD
         => tick_elapsed(now, last_rx_tick) = NowAt - rx_at

\* is_input_active has said yes, or the value it let through is in the frame.
Judged == (pc = "value" /\ active) \/ (pc = "send" /\ value # 0)

RoundOnFreshData == Judged /\ NowAt - rx_at < TICK_MOD => NowAt <= rx_at + TIMEOUT

FreshInv == TypeOK /\ RoundInTime /\ TrueAges /\ RoundOnFreshData /\ NoStaleValue

LEMMA SendToFacts ==
    ASSUME TypeOK, SendTo, NEW w \in Signals
    PROVE  \/ w = what /\ bus'[w] = value /\ sent_at'[w] = uptime
           \/ bus'[w] = bus[w] /\ sent_at'[w] = sent_at[w]
  BY DEF TypeOK, SendTo

LEMMA FreshStep ==
    ASSUME FreshInv, [Next]_vars
    PROVE  FreshInv'
  <1> DEFINE age == tick_elapsed(tick, last_rx_tick)
             age_at_now == tick_elapsed(now, last_rx_tick)
             lag == tick_elapsed(tick, now)
  <1> USE DEF FreshInv, InRound, NowAt, RoundInTime, TrueAges, RoundOnFreshData, Judged, NoStaleValue
  <1>0. TypeOK'
    BY TypeStep
  <1>a. /\ uptime \in Nat /\ wake \in Nat /\ rx_at \in Nat /\ sent_at \in [Signals -> Nat]
        /\ tick \in Tick /\ now \in Tick /\ last_rx_tick \in Tick
    BY EngineAssumption DEF TypeOK
  <1>b. /\ TIMEOUT \in Nat /\ MaxLag \in Nat /\ DELAY \in Nat /\ TICK_MOD \in Nat \ {0}
        /\ MaxLag < TICK_MOD
    BY EngineAssumption, TickModAssumption
  <1>c. lag \in 0 .. TICK_MOD - 1 /\ age \in 0 .. TICK_MOD - 1 /\ age_at_now \in 0 .. TICK_MOD - 1
    BY <1>a, ElapsedFacts
  <1>1. ASSUME NEW m \in Inputs, OnRx(m)
        PROVE  FreshInv'
    <2>1. /\ rx_at' = uptime /\ tick' = tick /\ uptime' = uptime /\ wake' = wake
          /\ pc' = pc /\ now' = now /\ last_rx_tick' = tick /\ active' = active
          /\ value' = value /\ bus' = bus /\ sent_at' = sent_at
      BY <1>1 DEF OnRx, locals, wire
    <2>2. tick_elapsed(tick, tick) = 0 /\ (lag = 0 => tick_elapsed(now, tick) = 0)
      BY <1>a, ElapsedFacts
    <2>3. TrueAges'
      BY <1>a, <1>c, <2>1, <2>2
    <2>4. RoundInTime' /\ RoundOnFreshData'
      BY <1>a, <1>b, <1>c, <2>1
    <2>5. NoStaleValue'
      BY <1>a, <1>b, <2>1
    <2> QED
      BY <1>0, <2>3, <2>4, <2>5
  <1>2. ASSUME ReadNow
        PROVE  FreshInv'
    <2>1. /\ now' = tick /\ tick' = tick /\ uptime' = uptime /\ wake' = wake /\ rx_at' = rx_at
          /\ last_rx_tick' = last_rx_tick /\ sent_at' = sent_at /\ bus' = bus
          /\ pc' = "due" /\ wake <= uptime
      BY <1>2 DEF ReadNow, input, wire
    <2>2. tick_elapsed(tick, tick) = 0 /\ NowAt' = uptime
      BY <1>a, <2>1, ElapsedFacts
    <2>3. RoundInTime'
      BY <1>a, <2>1, <2>2
    <2>4. TrueAges'
      BY <1>a, <2>1, <2>2
    <2> QED
      BY <1>0, <2>1, <2>3, <2>4
  <1>3. ASSUME NextFrame
        PROVE  \/ pc' = "due" /\ wake' = wake
               \/ pc' = "sleep" /\ wake' = uptime + DELAY
    BY <1>3 DEF NextFrame
  <1>4. ASSUME CheckDue
        PROVE  FreshInv'
    <2>1. /\ rx_at' = rx_at /\ tick' = tick /\ uptime' = uptime /\ now' = now
          /\ last_rx_tick' = last_rx_tick /\ sent_at' = sent_at /\ bus' = bus
          /\ pc # "sleep"
      BY <1>4 DEF CheckDue, input, wire
    <2>2. (pc' \in {"ign", "due"} /\ wake' = wake) \/ (pc' = "sleep" /\ wake' = uptime + DELAY)
      BY <1>3, <1>4 DEF CheckDue
    <2> QED
      BY <1>0, <1>a, <1>b, <2>1, <2>2
  <1>5. ASSUME CheckIgn
        PROVE  FreshInv'
    BY <1>0, <1>5 DEF CheckIgn, input, wire, ghosts
  <1>6. ASSUME CheckAge
        PROVE  FreshInv'
    <2>1. active' /\ NowAt - rx_at < TICK_MOD => NowAt <= rx_at + TIMEOUT
      <3>1. active' => age_at_now <= TIMEOUT
        BY <1>6 DEF CheckAge
      <3>2. InRound
        BY <1>6 DEF CheckAge
      <3> QED
        BY <3>1, <3>2, <1>a, <1>b, <1>c
    <2> QED
      BY <1>0, <1>6, <2>1 DEF CheckAge, input, wire, ghosts
  <1>7. ASSUME ReadValue
        PROVE  FreshInv'
    <2>1. value' # 0 => active
      BY <1>7 DEF ReadValue
    <2> QED
      BY <1>0, <1>7, <2>1 DEF ReadValue, input, wire, ghosts
  <1>8. ASSUME Send
        PROVE  FreshInv'
    <2>1. /\ rx_at' = rx_at /\ tick' = tick /\ uptime' = uptime /\ now' = now
          /\ last_rx_tick' = last_rx_tick /\ pc = "send"
      BY <1>8 DEF Send, input
    <2>2. (pc' = "due" /\ wake' = wake) \/ (pc' = "sleep" /\ wake' = uptime + DELAY)
      BY <1>3, <1>8 DEF Send
    <2>3. value # 0 /\ uptime - rx_at < TICK_MOD => uptime <= rx_at + TIMEOUT + MaxLag
      BY <1>a, <1>b, <1>c, <2>1
    <2>4. ASSUME NEW w \in Signals
          PROVE  \/ bus'[w] = value /\ sent_at'[w] = uptime
                 \/ bus'[w] = bus[w] /\ sent_at'[w] = sent_at[w]
      BY <1>8, SendToFacts DEF Send
    <2>5. NoStaleValue'
      BY <1>a, <1>b, <2>1, <2>3, <2>4
    <2>6. RoundInTime'
      BY <1>a, <1>b, <2>1, <2>2, <2>4
    <2> QED
      BY <1>0, <1>a, <2>1, <2>2, <2>5, <2>6
  <1>9. ASSUME AdvanceTick
        PROVE  FreshInv'
    <2>1. /\ tick' = TickPlus(tick, 1) /\ uptime' = uptime + 1 /\ uptime < wake + MaxLag
          /\ now' = now /\ wake' = wake /\ rx_at' = rx_at /\ pc' = pc /\ active' = active
          /\ value' = value /\ bus' = bus /\ sent_at' = sent_at /\ last_rx_tick' = last_rx_tick
      BY <1>9 DEF AdvanceTick, input, locals, wire
    <2>2. InRound => tick_elapsed(tick', now) = lag + 1
      BY <1>a, <1>b, <1>c, <2>1, ElapsedFacts
    <2>3. age < TICK_MOD - 1 => tick_elapsed(tick', last_rx_tick) = age + 1
      BY <1>a, <2>1, ElapsedFacts
    <2>4. RoundInTime'
      BY <1>a, <1>b, <1>c, <2>1, <2>2
    <2>5. TrueAges'
      BY <1>a, <1>b, <1>c, <2>1, <2>2, <2>3
    <2>6. RoundOnFreshData'
      BY <1>a, <1>b, <1>c, <2>1, <2>2
    <2> QED
      BY <1>0, <2>1, <2>4, <2>5, <2>6
  <1>10. ASSUME UNCHANGED vars
         PROVE  FreshInv'
    BY <1>0, <1>10 DEF vars, input, sched, locals, wire, ghosts
  <1> QED
    BY <1>1, <1>2, <1>4, <1>5, <1>6, <1>7, <1>8, <1>9, <1>10 DEF Next, GatewayTask, ClusterTask

\* A gauge frame with a value is never sent later than the timeout and the lateness of
\* one round after the data of Board A, for both frames of the round, although the
\* ignition bit, the age and the value are read one after the other.
THEOREM NoValueOnStaleData == Spec => []NoStaleValue
  <1>1. Init => FreshInv
    BY TypeInit, EngineAssumption, TickModAssumption
       DEF Init, FreshInv, InRound, NowAt, RoundInTime, TrueAges, RoundOnFreshData, Judged,
           NoStaleValue, tick_elapsed
  <1>2. FreshInv => NoStaleValue
    BY DEF FreshInv
  <1> QED
    BY <1>1, <1>2, FreshStep, PTL DEF Spec
-----------------------------------------------------------------------------
(* The gauges show Board A's values again within a period.  The argument is    *)
(* that of SafetyBridge_proofs, the schedule and the rounds in true time, with *)
(* two schedules that are worked off one after the other in a round.           *)

\* The periods and the lateness are short against half a wrap of the tick: 50 and
\* 500 ms and some 20 ms against 24.8 days in the code.
TimesAreShort ==
    /\ \A w \in Signals : 2 * PERIODS[w] <= TICK_MOD
    /\ 2 * Overdue < TICK_MOD

\* Board A sets the IGN bit in every frame (engine_sim.c:401).
IgnitionIsOn == \A m \in Inputs : m.ign_on

\* How far the moment d lies ahead of the moment t, negative when it is past.
Ahead(t, d) == IF Due(t, d) THEN 0 - tick_elapsed(t, d) ELSE tick_elapsed(d, t)

\* The deadline of a frame in true time.
NextAt(w) == uptime + Ahead(tick, next_tick[w])

\* The round is past the frame, or still before it.
Done(w)    == InRound /\ w = "motor" /\ what = "bremse"
Pending(w) == InRound /\ ((pc = "due" /\ w = what) \/ (w = "bremse" /\ what = "motor"))

\* Both deadlines are at most a period ahead, and the round under way, or the next
\* one, ends before they are overdue.
OnSchedule ==
    /\ ~InRound => wake <= uptime + DELAY
    /\ \A w \in Signals :
         /\ NextAt(w) <= uptime + PERIODS[w]
         /\ wake + MaxLag <= NextAt(w) + Overdue
         /\ Done(w) => NextAt(w) > NowAt

\* The history variables follow the bus: Expected has not changed since wrong_since,
\* no reception has disturbed the round since, and the data have not wrapped.
HistoriesFollow ==
    \A w \in Signals :
        /\ wrong_since[w] = -1 <=> bus[w] = Expected(w)
        /\ wrong_since[w] <= uptime
        /\ wrong_since[w] # -1 =>
             /\ uptime - rx_at >= TICK_MOD => wrong_since[w] = uptime
             /\ InRound /\ rx_at > NowAt => rx_at <= wrong_since[w]
             /\ s_cluster_input.ign_on /\ ~Fresh /\ s_cluster_input[w] # 0
                  => rx_at + TIMEOUT < wrong_since[w]

\* The value the round sends next is the expected one, unless the frame went wrong,
\* or Expected changed, after the round had read its clock.
RightValue ==
    /\ pc = "age" => s_cluster_input.ign_on
    /\ wrong_since[what] # -1 /\ wrong_since[what] < NowAt =>
         /\ pc = "value" => (IF active THEN s_cluster_input[what] ELSE 0) = Expected(what)
         /\ pc = "send" => value = Expected(what)

\* Since when the right value of a frame is missing, the refused frames left aside.
RefusedTime(w) == busy * (PERIODS[w] + Overdue)
WrongSince(w) == wrong_since[w] + RefusedTime(w)

\* The next attempt at the right value ends within a period, a delay and the lateness.
\* A schedule that ReadNow restarts at once is due in that very round.
InTime(w) ==
    /\ wake + MaxLag <= WrongSince(w) + PERIODS[w] + Overdue
    /\ ~InRound \/ Done(w) => NextAt(w) <= WrongSince(w) + PERIODS[w]
    /\ Pending(w) => NextAt(w) <= WrongSince(w) + PERIODS[w] \/ NextAt(w) <= NowAt

AttemptInTime == \A w \in Signals : wrong_since[w] # -1 => InTime(w)

GaugeInv == FreshInv /\ OnSchedule /\ HistoriesFollow /\ RightValue /\ AttemptInTime
\* The distance of two moments that are less than half a wrap apart.
LEMMA AheadType ==
    ASSUME NEW t \in Tick, NEW d \in Tick
    PROVE  /\ Ahead(t, d) \in Int /\ 2 * Ahead(t, d) <= TICK_MOD
           /\ Ahead(t, t) = 0
  <1> DEFINE x == tick_elapsed(t, d)
             y == tick_elapsed(d, t)
  <1>1. /\ TICK_MOD \in Nat \ {0} /\ x \in 0 .. TICK_MOD - 1 /\ y \in 0 .. TICK_MOD - 1
        /\ x # 0 => y = TICK_MOD - x
        /\ tick_elapsed(t, t) = 0
    BY TickModAssumption DEF tick_elapsed, Tick
  <1>2. Ahead(t, d) = IF 2 * x < TICK_MOD THEN 0 - x ELSE y
    BY DEF Ahead, Due
  <1>3. Ahead(t, t) = 0
    BY <1>1 DEF Ahead, Due
  <1> HIDE DEF x, y
  <1> QED
    BY <1>1, <1>2, <1>3

LEMMA AheadAdvance ==
    ASSUME NEW t \in Tick, NEW d \in Tick, 2 * (1 - Ahead(t, d)) < TICK_MOD
    PROVE  Ahead(TickPlus(t, 1), d) = Ahead(t, d) - 1
  BY TickModAssumption DEF Ahead, Due, tick_elapsed, TickPlus, Tick

\* A moment p after one that is lag ago.
LEMMA AheadOfPlus ==
    ASSUME NEW t \in Tick, NEW n \in Tick, NEW p \in Nat, p < TICK_MOD, 2 * p <= TICK_MOD,
           2 * tick_elapsed(t, n) < TICK_MOD
    PROVE  Ahead(t, TickPlus(n, p)) = p - tick_elapsed(t, n)
  BY TickModAssumption DEF Ahead, Due, tick_elapsed, TickPlus, Tick

LEMMA AheadOfPast ==
    ASSUME NEW t \in Tick, NEW n \in Tick, 2 * tick_elapsed(t, n) < TICK_MOD
    PROVE  Ahead(t, n) = 0 - tick_elapsed(t, n)
  BY TickModAssumption DEF Ahead, Due, tick_elapsed, Tick

\* What is not due on a clock read lag ago lies after it.
LEMMA NotDueIsAhead ==
    ASSUME NEW t \in Tick, NEW n \in Tick, NEW d \in Tick,
           ~Due(n, d), 2 * tick_elapsed(t, n) < TICK_MOD, -2 * Ahead(t, d) < TICK_MOD
    PROVE  Ahead(t, d) > 0 - tick_elapsed(t, n)
  BY TickModAssumption DEF Ahead, Due, tick_elapsed, Tick

LEMMA WaitedLonger ==
    ASSUME NEW b \in Nat, NEW p \in Nat
    PROVE  b * p \in Nat /\ (b + 1) * p = b * p + p
  OBVIOUS

\* The types and the bounds the steps reckon with.
Reckoning ==
    /\ uptime \in Nat /\ wake \in Nat /\ rx_at \in Nat /\ busy \in Nat
    /\ tick \in Tick /\ now \in Tick /\ last_rx_tick \in Tick /\ what \in Signals
    /\ DELAY \in Nat \ {0} /\ MaxLag \in Nat /\ TIMEOUT \in Nat
    /\ TICK_MOD \in Nat \ {0} /\ TIMEOUT < TICK_MOD
    /\ 2 * (DELAY + 2 * MaxLag - 1) < TICK_MOD /\ Overdue = DELAY + 2 * MaxLag - 1
    /\ uptime <= wake + MaxLag /\ NowAt \in Int /\ NowAt <= uptime
    /\ NowAt = uptime - tick_elapsed(tick, now) /\ tick_elapsed(tick, now) \in Nat
    /\ InRound => wake <= NowAt /\ tick_elapsed(tick, now) <= MaxLag
                  /\ 2 * tick_elapsed(tick, now) < TICK_MOD
    /\ rx_at <= uptime

ReckoningOf(w) ==
    /\ wrong_since[w] \in Int /\ NextAt(w) \in Int /\ next_tick[w] \in Tick
    /\ s_cluster_input[w] \in Nat
    /\ PERIODS[w] \in Nat \ {0} /\ PERIODS[w] < TICK_MOD /\ 2 * PERIODS[w] <= TICK_MOD
    /\ RefusedTime(w) \in Nat /\ WrongSince(w) \in Int

LEMMA GaugeReckoning ==
    ASSUME TimesAreShort, GaugeInv
    PROVE  Reckoning /\ \A w \in Signals : ReckoningOf(w)
  <1>1. /\ uptime \in Nat /\ wake \in Nat /\ rx_at \in Nat /\ busy \in Nat
        /\ tick \in Tick /\ now \in Tick /\ last_rx_tick \in Tick /\ what \in Signals
    BY EngineAssumption DEF GaugeInv, FreshInv, TypeOK
  <1>2. /\ DELAY \in Nat \ {0} /\ MaxLag \in Nat /\ TIMEOUT \in Nat
        /\ TICK_MOD \in Nat \ {0} /\ TIMEOUT < TICK_MOD
        /\ 2 * Overdue < TICK_MOD /\ Overdue = DELAY + 2 * MaxLag - 1
    BY EngineAssumption, TickModAssumption DEF TimesAreShort, Overdue
  <1>3. tick_elapsed(tick, now) \in Nat
    <2>1. tick_elapsed(tick, now) \in 0 .. TICK_MOD - 1
      BY <1>1, ElapsedFacts
    <2> QED
      BY <1>2, <2>1
  <1>4. /\ uptime <= wake + MaxLag /\ (InRound => wake <= NowAt)
        /\ rx_at <= uptime
    BY DEF GaugeInv, FreshInv, RoundInTime, TrueAges
  <1>5. NowAt = uptime - tick_elapsed(tick, now) /\ NowAt \in Int
    BY <1>1, <1>3 DEF NowAt
  <1>6. NowAt <= uptime
    BY <1>1, <1>3, <1>5
  <1> HIDE DEF NowAt
  <1>7. InRound => /\ tick_elapsed(tick, now) <= MaxLag
                   /\ 2 * tick_elapsed(tick, now) < TICK_MOD
    BY <1>1, <1>2, <1>3, <1>4, <1>5
  <1>8. ASSUME NEW w \in Signals
        PROVE  ReckoningOf(w)
    <2>1. wrong_since[w] \in Int /\ next_tick[w] \in Tick /\ s_cluster_input[w] \in Nat
      BY InputValues DEF GaugeInv, FreshInv, TypeOK
    <2>2. PERIODS[w] \in Nat \ {0} /\ PERIODS[w] < TICK_MOD /\ 2 * PERIODS[w] <= TICK_MOD
      BY EngineAssumption DEF TimesAreShort
    <2>3. NextAt(w) \in Int
      BY <1>1, <2>1, AheadType DEF NextAt
    <2>4. PERIODS[w] + Overdue \in Nat
      BY <1>2, <2>2
    <2>5. RefusedTime(w) \in Nat
      BY <1>1, <2>4, WaitedLonger DEF RefusedTime
    <2>6. WrongSince(w) \in Int
      BY <2>1, <2>5 DEF WrongSince
    <2> QED
      BY <2>1, <2>2, <2>3, <2>5, <2>6 DEF ReckoningOf
  <1> QED
    BY <1>1, <1>2, <1>3, <1>4, <1>5, <1>6, <1>7, <1>8 DEF Reckoning

LEMMA RefusedFacts ==
    ASSUME Reckoning, NEW w \in Signals, ReckoningOf(w)
    PROVE  /\ busy' = busy => RefusedTime(w)' = RefusedTime(w)
           /\ busy' = busy + 1 => RefusedTime(w)' = RefusedTime(w) + PERIODS[w] + Overdue
  <1> DEFINE p == PERIODS[w] + Overdue
  <1>1. p \in Nat /\ busy \in Nat /\ PERIODS[w] \in Nat /\ Overdue \in Int
    BY DEF Reckoning, ReckoningOf
  <1>2. RefusedTime(w) = busy * p /\ RefusedTime(w)' = busy' * p
    BY DEF RefusedTime, Overdue
  <1>3. (busy + 1) * p = busy * p + p /\ busy * p \in Nat
    BY <1>1, WaitedLonger
  <1>4. busy' = busy => RefusedTime(w)' = RefusedTime(w)
    BY <1>2
  <1>5. busy' = busy + 1 => RefusedTime(w)' = RefusedTime(w) + p
    BY <1>2, <1>3
  <1>6. RefusedTime(w) + p = RefusedTime(w) + PERIODS[w] + Overdue
    BY <1>1, <1>2, <1>3
  <1> QED
    BY <1>4, <1>5, <1>6

\* What a step that follows the bus does to a history variable.
LEMMA TrackFacts ==
    ASSUME Track(FALSE) \/ Track(Disturbs), HistoriesFollow, NEW w \in Signals,
           uptime \in Nat, uptime' \in Nat, uptime <= uptime', wrong_since[w] \in Int
    PROVE  /\ wrong_since'[w] = -1 <=> bus'[w] = Expected(w)'
           /\ wrong_since'[w] \in Int /\ wrong_since'[w] <= uptime'
           /\ wrong_since'[w] # -1 =>
                \/ wrong_since'[w] = uptime'
                \/ /\ wrong_since'[w] = wrong_since[w] /\ wrong_since[w] # -1
                   /\ Expected(w)' = Expected(w) /\ ~Wrapped'
  <1>1. wrong_since[w] <= uptime
    BY DEF HistoriesFollow
  <1>2. CASE bus'[w] = Expected(w)'
    <2>1. wrong_since'[w] = -1
      BY <1>2 DEF Track
    <2> QED
      BY <1>2, <2>1
  <1>3. CASE bus'[w] # Expected(w)'
    <2>1. \/ wrong_since'[w] = uptime'
          \/ /\ wrong_since'[w] = wrong_since[w] /\ wrong_since[w] # -1
             /\ Expected(w)' = Expected(w) /\ ~Wrapped'
      BY <1>3 DEF Track
    <2> QED
      BY <1>1, <1>3, <2>1
  <1> QED
    BY <1>2, <1>3

LEMMA DisturbedFromNow ==
    ASSUME Track(Disturbs), Disturbs, NEW w \in Signals
    PROVE  wrong_since'[w] = -1 \/ wrong_since'[w] = uptime'
  BY DEF Track

\* A frame that goes wrong in this step has its whole period ahead.
LEMMA WrongFromNow ==
    ASSUME NEW w \in Signals, Reckoning, ReckoningOf(w), OnSchedule',
           wrong_since'[w] = uptime', busy' \in {busy, busy + 1}, uptime' \in Nat,
           wake' \in Nat, wake' <= uptime' + DELAY, NextAt(w)' \in Int
    PROVE  /\ WrongSince(w)' \in Int /\ uptime' <= WrongSince(w)' /\ InTime(w)'
  <1>1. RefusedTime(w)' \in Nat
    BY RefusedFacts DEF Reckoning, ReckoningOf
  <1>2. WrongSince(w)' = uptime' + RefusedTime(w)'
    BY DEF WrongSince
  <1>3. WrongSince(w)' \in Int /\ uptime' <= WrongSince(w)'
    BY <1>1, <1>2
  <1>4. NextAt(w)' <= uptime' + PERIODS[w]
    BY DEF OnSchedule
  <1>5. NextAt(w)' <= WrongSince(w)' + PERIODS[w]
    BY <1>3, <1>4 DEF ReckoningOf
  <1>6. wake' + MaxLag <= WrongSince(w)' + PERIODS[w] + Overdue
    BY <1>3 DEF Reckoning, ReckoningOf
  <1> QED
    BY <1>3, <1>5, <1>6 DEF InTime, Overdue
\* What is stored or computed of a frame that has been wrong since before the round
\* read its clock: no reception came in between, and the age is a true one.
LEMMA JudgedRightly ==
    ASSUME Reckoning, FreshInv, HistoriesFollow, NEW w \in Signals, ReckoningOf(w), InRound,
           wrong_since[w] # -1, wrong_since[w] < NowAt, s_cluster_input.ign_on
    PROVE  (IF tick_elapsed(now, last_rx_tick) <= TIMEOUT THEN s_cluster_input[w] ELSE 0)
             = Expected(w)
  <1>1. wrong_since[w] # uptime
    BY DEF Reckoning, ReckoningOf
  <1>2. uptime - rx_at < TICK_MOD /\ rx_at <= NowAt
    BY <1>1 DEF HistoriesFollow, Reckoning, ReckoningOf
  <1>3. tick_elapsed(now, last_rx_tick) = NowAt - rx_at
    <2>1. NowAt - rx_at < TICK_MOD
      BY <1>2 DEF Reckoning
    <2> QED
      BY <1>2, <2>1 DEF FreshInv, TrueAges
  <1>4. CASE s_cluster_input[w] = 0
    BY <1>4 DEF Expected
  <1>5. CASE s_cluster_input[w] # 0 /\ uptime - rx_at <= TIMEOUT
    <2>1. NowAt - rx_at <= TIMEOUT
      BY <1>5 DEF Reckoning
    <2> QED
      BY <1>3, <1>5, <2>1 DEF Expected, Fresh
  <1>6. CASE s_cluster_input[w] # 0 /\ ~(uptime - rx_at <= TIMEOUT)
    <2>1. ~Fresh /\ rx_at + TIMEOUT < wrong_since[w]
      BY <1>6 DEF HistoriesFollow, Fresh
    <2>2. ~(NowAt - rx_at <= TIMEOUT)
      BY <2>1 DEF Reckoning, ReckoningOf
    <2> QED
      BY <1>3, <2>1, <2>2 DEF Expected
  <1> QED
    BY <1>4, <1>5, <1>6

LEMMA OnRxInTime ==
    ASSUME TimesAreShort, IgnitionIsOn, GaugeInv, NEW m \in Inputs, OnRx(m)
    PROVE  OnSchedule' /\ HistoriesFollow' /\ RightValue' /\ AttemptInTime'
  <1>1. /\ Reckoning /\ OnSchedule /\ HistoriesFollow /\ RightValue /\ AttemptInTime /\ FreshInv
        /\ \A w \in Signals : ReckoningOf(w)
    BY GaugeReckoning DEF GaugeInv
  <1>2. /\ rx_at' = uptime /\ tick' = tick /\ uptime' = uptime /\ wake' = wake
        /\ pc' = pc /\ now' = now /\ what' = what /\ active' = active /\ value' = value
        /\ next_tick' = next_tick /\ busy' = busy /\ s_cluster_input' = m /\ Track(Disturbs)
    BY DEF OnRx, sched, locals, wire
  <1>3. /\ (InRound' <=> InRound) /\ NowAt' = NowAt /\ TIMEOUT \in Nat
        /\ \A w \in Signals : /\ NextAt(w)' = NextAt(w) /\ (Done(w)' <=> Done(w))
                              /\ (Pending(w)' <=> Pending(w))
    BY <1>1, <1>2 DEF InRound, NowAt, NextAt, Done, Pending, Reckoning
  <1>4. m.ign_on /\ Fresh' /\ \A w \in Signals : Expected(w)' = m[w]
    <2>1. m.ign_on
      BY DEF IgnitionIsOn
    <2>2. uptime' - rx_at' <= TIMEOUT
      BY <1>1, <1>2 DEF Reckoning
    <2>3. Fresh'
      BY <1>2, <2>1, <2>2 DEF Fresh
    <2> QED
      BY <1>2, <2>1, <2>3 DEF Expected
  <1>5. OnSchedule'
    BY <1>1, <1>2, <1>3 DEF OnSchedule, Overdue
  <1>6. ASSUME NEW w \in Signals
        PROVE  uptime \in Nat /\ uptime' \in Nat /\ uptime <= uptime' /\ wrong_since[w] \in Int
    BY <1>1, <1>2 DEF Reckoning, ReckoningOf
  <1>7. ASSUME NEW w \in Signals
        PROVE  /\ wrong_since'[w] = -1 <=> bus'[w] = Expected(w)'
               /\ wrong_since'[w] \in Int /\ wrong_since'[w] <= uptime
               /\ wrong_since'[w] # -1 =>
                    \/ wrong_since'[w] = uptime
                    \/ /\ wrong_since'[w] = wrong_since[w] /\ wrong_since[w] # -1
                       /\ Expected(w)' = Expected(w) /\ ~Wrapped' /\ ~Disturbs
    <2>1. /\ wrong_since'[w] = -1 <=> bus'[w] = Expected(w)'
          /\ wrong_since'[w] \in Int /\ wrong_since'[w] <= uptime'
          /\ wrong_since'[w] # -1 =>
               \/ wrong_since'[w] = uptime'
               \/ /\ wrong_since'[w] = wrong_since[w] /\ wrong_since[w] # -1
                  /\ Expected(w)' = Expected(w) /\ ~Wrapped'
      BY <1>1, <1>2, <1>6, TrackFacts
    <2>2. Disturbs => wrong_since'[w] = -1 \/ wrong_since'[w] = uptime'
      BY <1>2, DisturbedFromNow
    <2> QED
      BY <1>2, <2>1, <2>2
  <1>8. InRound /\ NowAt < uptime => Disturbs
    <2>1. tick_elapsed(tick, tick) = 0
      BY <1>1, ElapsedFacts DEF Reckoning
    <2> QED
      BY <1>1, <2>1 DEF Disturbs, InRound, Reckoning
  <1>9. HistoriesFollow'
    <2>1. ~(uptime' - rx_at' >= TICK_MOD)
      BY <1>1, <1>2 DEF Reckoning
    <2> QED
      BY <1>1, <1>2, <1>3, <1>4, <1>7, <1>8, <2>1 DEF HistoriesFollow, Reckoning
  <1>10. RightValue'
    <2>1. (pc = "age" => s_cluster_input.ign_on) => (pc' = "age" => s_cluster_input'.ign_on)
      BY <1>2, <1>4
    <2>2. ASSUME NEW w \in Signals, w = what, wrong_since'[w] # -1, wrong_since'[w] < NowAt
          PROVE  /\ pc = "value" => (IF active THEN m[w] ELSE 0) = m[w]
                 /\ pc = "send" => value = m[w]
      <3>1. /\ wrong_since'[w] = wrong_since[w] /\ wrong_since[w] # -1
            /\ Expected(w)' = Expected(w)
        BY <1>1, <1>7, <2>2 DEF Reckoning
      <3>2. Expected(w) = m[w]
        BY <1>4, <3>1
      <3> QED
        BY <1>1, <2>2, <3>1, <3>2 DEF RightValue
    <2>3. Expected(what)' = m[what]
      BY <1>2, <1>4 DEF Expected
    <2> QED
      BY <1>1, <1>2, <1>3, <2>1, <2>2, <2>3 DEF RightValue, Reckoning
  <1>11. ASSUME NEW w \in Signals, wrong_since'[w] # -1
         PROVE  InTime(w)'
    <2>1. CASE wrong_since'[w] = uptime'
      <3>1. uptime' \in Nat /\ wake' \in Nat /\ wake' <= uptime' + DELAY /\ NextAt(w)' \in Int
        BY <1>1, <1>2, <1>3 DEF Reckoning, ReckoningOf, OnSchedule
      <3> QED
        BY <1>1, <1>2, <1>5, <2>1, <3>1, WrongFromNow
    <2>2. CASE wrong_since'[w] = wrong_since[w] /\ wrong_since[w] # -1
      <3>1. RefusedTime(w)' = RefusedTime(w)
        BY <1>1, <1>2, RefusedFacts
      <3>2. WrongSince(w)' = WrongSince(w)
        BY <2>2, <3>1 DEF WrongSince
      <3>3. InTime(w)
        BY <1>1, <2>2 DEF AttemptInTime
      <3> QED
        BY <1>2, <1>3, <3>2, <3>3 DEF InTime, Overdue
    <2> QED
      BY <1>2, <1>7, <1>11, <2>1, <2>2
  <1> QED
    BY <1>5, <1>9, <1>10, <1>11 DEF AttemptInTime

LEMMA ReadNowInTime ==
    ASSUME TimesAreShort, GaugeInv, ReadNow
    PROVE  OnSchedule' /\ HistoriesFollow' /\ RightValue' /\ AttemptInTime'
  <1>1. /\ Reckoning /\ OnSchedule /\ HistoriesFollow /\ AttemptInTime
        /\ \A w \in Signals : ReckoningOf(w)
    BY GaugeReckoning DEF GaugeInv
  <1>2. /\ UNCHANGED <<tick, uptime, s_cluster_input, last_rx_tick, bus, busy, wake, rx_at, wrong_since>>
        /\ pc = "sleep" /\ pc' = "due" /\ what' = "motor" /\ now' = tick
        /\ wake <= uptime /\ InRound' /\ ~InRound
        /\ next_tick' = IF next_tick["motor"] = 0 THEN [w \in Signals |-> tick] ELSE next_tick
    BY DEF ReadNow, input, wire, InRound
  <1>3. NowAt' = uptime
    <2>1. tick_elapsed(tick, tick) = 0
      BY <1>1, ElapsedFacts DEF Reckoning
    <2> QED
      BY <1>1, <1>2, <2>1 DEF NowAt, Reckoning
  <1>4. ASSUME NEW w \in Signals
        PROVE  NextAt(w)' = uptime \/ NextAt(w)' = NextAt(w)
    <2>1. CASE next_tick["motor"] = 0
      <3>1. next_tick'[w] = tick
        BY <1>2, <2>1
      <3>2. Ahead(tick, tick) = 0
        BY <1>1, AheadType DEF Reckoning
      <3> QED
        BY <1>1, <1>2, <3>1, <3>2 DEF NextAt, Reckoning
    <2>2. CASE next_tick["motor"] # 0
      BY <1>2, <2>2 DEF NextAt
    <2> QED
      BY <2>1, <2>2
  <1>5. \A w \in Signals : ~Done(w)'
    BY <1>2 DEF Done
  <1>6. OnSchedule'
    <2>1. ASSUME NEW w \in Signals
          PROVE  NextAt(w)' <= uptime + PERIODS[w] /\ wake + MaxLag <= NextAt(w)' + Overdue
      <3>1. CASE NextAt(w)' = uptime
        BY <1>1, <1>2, <3>1 DEF Reckoning, ReckoningOf
      <3>2. CASE NextAt(w)' = NextAt(w)
        BY <1>1, <3>2 DEF OnSchedule
      <3> QED
        BY <1>4, <3>1, <3>2
    <2> QED
      BY <1>2, <1>5, <2>1 DEF OnSchedule, Overdue
  <1>7. HistoriesFollow'
    <2>1. (Fresh' <=> Fresh) /\ \A w \in Signals : Expected(w)' = Expected(w)
      BY <1>2 DEF Fresh, Expected
    <2>2. ~(rx_at' > NowAt')
      BY <1>1, <1>2, <1>3 DEF Reckoning
    <2> QED
      BY <1>1, <1>2, <2>1, <2>2 DEF HistoriesFollow
  <1>8. RightValue'
    BY <1>2 DEF RightValue
  <1>9. ASSUME NEW w \in Signals, wrong_since'[w] # -1
        PROVE  InTime(w)'
    <2>1. InTime(w) /\ WrongSince(w)' = WrongSince(w)
      BY <1>1, <1>2, <1>9 DEF AttemptInTime, WrongSince, RefusedTime, Overdue
    <2>2. wake' + MaxLag <= WrongSince(w)' + PERIODS[w] + Overdue
      BY <1>2, <2>1 DEF InTime
    <2>3. NextAt(w) <= WrongSince(w) + PERIODS[w]
      BY <1>2, <2>1 DEF InTime
    <2>4. NextAt(w)' <= WrongSince(w)' + PERIODS[w] \/ NextAt(w)' <= NowAt'
      BY <1>1, <1>3, <1>4, <2>1, <2>3 DEF Reckoning
    <2> QED
      BY <1>2, <1>5, <2>2, <2>4 DEF InTime, Overdue
  <1> QED
    BY <1>6, <1>7, <1>8, <1>9 DEF AttemptInTime
\* Going on to the next frame, or to sleep, once the deadline of this frame lies
\* after the clock the round has read.
LEMMA FrameEnds ==
    ASSUME Reckoning, OnSchedule, InRound, NextFrame, tick' = tick, uptime' = uptime, now' = now,
           NEW v \in Signals, what = v, NextAt(v)' \in Int, NextAt(v)' > NowAt,
           NextAt(v)' <= uptime + PERIODS[v], wake + MaxLag <= NextAt(v)' + Overdue,
           \A w \in Signals : ReckoningOf(w) /\ (w # v => NextAt(w)' = NextAt(w))
    PROVE  OnSchedule'
  <1>1. NowAt' = NowAt /\ wake <= NowAt /\ uptime <= NowAt + MaxLag
    BY DEF NowAt, Reckoning
  <1>2. CASE v = "motor"
    <2>1. pc' = "due" /\ wake' = wake /\ what' = "bremse" /\ InRound'
      BY <1>2 DEF NextFrame, InRound
    <2>2. ASSUME NEW w \in Signals
          PROVE  /\ NextAt(w)' <= uptime' + PERIODS[w] /\ wake' + MaxLag <= NextAt(w)' + Overdue
                 /\ Done(w)' => NextAt(w)' > NowAt'
      <3>1. CASE w = v
        BY <1>1, <2>1, <3>1
      <3>2. CASE w # v
        BY <1>1, <1>2, <2>1, <3>2 DEF OnSchedule, Done
      <3> QED
        BY <3>1, <3>2
    <2> QED
      BY <2>1, <2>2 DEF OnSchedule, Overdue
  <1>3. CASE v = "bremse"
    <2>1. pc' = "sleep" /\ wake' = uptime + DELAY /\ ~InRound'
      BY <1>3 DEF NextFrame, InRound
    <2>2. ASSUME NEW w \in Signals
          PROVE  NextAt(w)' <= uptime' + PERIODS[w] /\ NextAt(w)' > NowAt /\ NextAt(w)' \in Int
      <3>1. CASE w = v
        BY <3>1
      <3>2. CASE w # v
        <4>1. w = "motor"
          BY <1>3, <3>2 DEF Signals
        <4>2. Done(w)
          BY <1>3, <4>1 DEF Done
        <4> QED
          BY <3>2, <4>2 DEF OnSchedule, ReckoningOf
      <3> QED
        BY <3>1, <3>2
    <2>3. ASSUME NEW w \in Signals
          PROVE  wake' + MaxLag <= NextAt(w)' + Overdue /\ ~Done(w)'
      <3>1. NextAt(w)' \in Int /\ NextAt(w)' >= NowAt + 1
        BY <2>2 DEF Reckoning
      <3> QED
        BY <1>1, <2>1, <3>1 DEF Reckoning, Done
    <2>4. wake' <= uptime' + DELAY
      BY <2>1 DEF Reckoning
    <2> QED
      BY <2>1, <2>2, <2>3, <2>4 DEF OnSchedule, Overdue
  <1> QED
    BY <1>2, <1>3 DEF Signals

\* The same for the bound on the next attempt.
LEMMA FrameEndsInTime ==
    ASSUME Reckoning, OnSchedule', AttemptInTime, InRound, NextFrame, pc \in {"due", "send"},
           tick' = tick, uptime' = uptime, now' = now,
           NEW v \in Signals, what = v, NEW w \in Signals, ReckoningOf(w),
           wrong_since[w] # -1, WrongSince(w)' \in Int, WrongSince(w)' >= WrongSince(w),
           NextAt(w)' \in Int, w # v => NextAt(w)' = NextAt(w),
           w = v => NextAt(w)' <= WrongSince(w)' + PERIODS[w]
    PROVE  InTime(w)'
  <1>1. NowAt' = NowAt /\ wake <= NowAt /\ uptime <= NowAt + MaxLag /\ InTime(w)
    BY DEF NowAt, Reckoning, AttemptInTime
  <1>2. CASE v = "motor"
    <2>1. pc' = "due" /\ wake' = wake /\ what' = "bremse" /\ InRound'
      BY <1>2 DEF NextFrame, InRound
    <2>2. wake' + MaxLag <= WrongSince(w)' + PERIODS[w] + Overdue
      BY <1>1, <2>1 DEF InTime, Reckoning, ReckoningOf
    <2>3. CASE w = v
      BY <1>2, <2>1, <2>2, <2>3 DEF InTime, Pending, Overdue
    <2>4. CASE w # v
      <3>1. w = "bremse" /\ Pending(w) /\ ~Done(w)'
        BY <1>2, <2>4 DEF Signals, Pending, Done
      <3>2. NextAt(w)' <= WrongSince(w)' + PERIODS[w] \/ NextAt(w)' <= NowAt'
        BY <1>1, <2>4, <3>1 DEF InTime, ReckoningOf
      <3> QED
        BY <2>1, <2>2, <3>1, <3>2 DEF InTime, Overdue
    <2> QED
      BY <2>3, <2>4
  <1>3. CASE v = "bremse"
    <2>1. pc' = "sleep" /\ wake' = uptime + DELAY /\ ~InRound'
      BY <1>3 DEF NextFrame, InRound
    <2>2. NextAt(w)' <= WrongSince(w)' + PERIODS[w]
      <3>1. CASE w = v
        BY <3>1
      <3>2. CASE w # v
        <4>1. Done(w)
          BY <1>3, <3>2 DEF Signals, Done
        <4>2. NextAt(w) <= WrongSince(w) + PERIODS[w]
          BY <1>1, <4>1 DEF InTime
        <4> QED
          BY <3>2, <4>2 DEF ReckoningOf
      <3> QED
        BY <3>1, <3>2
    <2>3. wake' + MaxLag <= NextAt(w)' + Overdue
      BY DEF OnSchedule, Overdue
    <2>4. wake' + MaxLag <= WrongSince(w)' + PERIODS[w] + Overdue
      BY <2>1, <2>2, <2>3 DEF Reckoning, ReckoningOf
    <2>5. ~Pending(w)'
      BY <2>1 DEF Pending
    <2> QED
      BY <2>2, <2>4, <2>5 DEF InTime, Overdue
  <1> QED
    BY <1>2, <1>3 DEF Signals

LEMMA CheckDueInTime ==
    ASSUME TimesAreShort, GaugeInv, CheckDue
    PROVE  OnSchedule' /\ HistoriesFollow' /\ RightValue' /\ AttemptInTime'
  <1>1. /\ Reckoning /\ OnSchedule /\ HistoriesFollow /\ RightValue /\ AttemptInTime
        /\ \A w \in Signals : ReckoningOf(w)
    BY GaugeReckoning DEF GaugeInv
  <1>2. /\ UNCHANGED <<tick, uptime, s_cluster_input, last_rx_tick, next_tick, now, active, value, bus,
                       busy, rx_at, wrong_since>>
        /\ pc = "due" /\ InRound
        /\ IF Due(now, next_tick[what]) THEN pc' = "ign" /\ what' = what /\ wake' = wake
           ELSE NextFrame
    BY DEF CheckDue, input, sched, wire, InRound
  <1>3. PICK v \in Signals : what = v
    BY <1>1 DEF Reckoning
  <1>4. /\ NowAt' = NowAt
        /\ \A w \in Signals : NextAt(w)' = NextAt(w) /\ WrongSince(w)' = WrongSince(w)
    BY <1>2 DEF NowAt, NextAt, WrongSince, RefusedTime, Overdue
  <1>5. pc' \in {"ign", "due", "sleep"}
    BY <1>2 DEF NextFrame
  <1>6. HistoriesFollow'
    <2>1. (Fresh' <=> Fresh) /\ \A w \in Signals : Expected(w)' = Expected(w)
      BY <1>2 DEF Fresh, Expected
    <2> QED
      BY <1>1, <1>2, <1>4, <2>1 DEF HistoriesFollow
  <1>7. RightValue'
    BY <1>5 DEF RightValue
  <1>8. CASE Due(now, next_tick[what])
    <2>1. pc' = "ign" /\ what' = what /\ wake' = wake /\ InRound'
      BY <1>2, <1>8 DEF InRound
    <2>2. \A w \in Signals : (Done(w)' <=> Done(w)) /\ (Pending(w)' => Pending(w))
      BY <1>2, <2>1 DEF Done, Pending
    <2>3. OnSchedule'
      BY <1>1, <1>2, <1>4, <2>1, <2>2 DEF OnSchedule, Overdue
    <2>4. AttemptInTime'
      BY <1>1, <1>2, <1>4, <2>1, <2>2 DEF AttemptInTime, InTime, Overdue
    <2> QED
      BY <1>6, <1>7, <2>3, <2>4
  <1>9. CASE ~Due(now, next_tick[what])
    <2>1. NextFrame
      BY <1>2, <1>9
    <2>2. NextAt(v) > NowAt
      <3>1. Ahead(tick, next_tick[v]) \in Int
        BY <1>1, AheadType DEF Reckoning, ReckoningOf
      <3>2. -2 * Ahead(tick, next_tick[v]) < TICK_MOD
        <4>1. uptime <= uptime + Ahead(tick, next_tick[v]) + Overdue
          BY <1>1 DEF Reckoning, OnSchedule, NextAt, ReckoningOf
        <4> QED
          BY <1>1, <3>1, <4>1 DEF Reckoning
      <3>3. Ahead(tick, next_tick[v]) > 0 - tick_elapsed(tick, now)
        BY <1>1, <1>2, <1>3, <1>9, <3>2, NotDueIsAhead DEF Reckoning, ReckoningOf
      <3> QED
        BY <1>1, <3>1, <3>3 DEF Reckoning, NextAt
    <2>3. OnSchedule'
      <3>1. /\ NextAt(v)' \in Int /\ NextAt(v)' > NowAt /\ NextAt(v)' <= uptime + PERIODS[v]
            /\ wake + MaxLag <= NextAt(v)' + Overdue
        BY <1>1, <1>4, <2>2 DEF OnSchedule, ReckoningOf
      <3> QED
        BY <1>1, <1>2, <1>3, <1>4, <2>1, <3>1, FrameEnds
    <2>4. ASSUME NEW w \in Signals, wrong_since'[w] # -1
          PROVE  InTime(w)'
      <3>1. InTime(w) /\ wrong_since[w] # -1
        BY <1>1, <1>2, <2>4 DEF AttemptInTime
      <3>2. w = v => NextAt(w)' <= WrongSince(w)' + PERIODS[w]
        <4>1. w = v => Pending(w)
          BY <1>2, <1>3 DEF Pending
        <4> QED
          BY <1>1, <1>4, <2>2, <3>1, <4>1 DEF InTime, Reckoning, ReckoningOf
      <3>3. /\ WrongSince(w)' \in Int /\ WrongSince(w)' >= WrongSince(w) /\ NextAt(w)' \in Int
            /\ NextAt(w)' = NextAt(w)
        BY <1>1, <1>4 DEF ReckoningOf
      <3> QED
        BY <1>1, <1>2, <1>3, <2>1, <2>3, <3>1, <3>2, <3>3, FrameEndsInTime
    <2> QED
      BY <1>6, <1>7, <2>3, <2>4 DEF AttemptInTime
  <1> QED
    BY <1>8, <1>9
LEMMA JudgeInTime ==
    ASSUME TimesAreShort, GaugeInv, CheckIgn \/ CheckAge \/ ReadValue
    PROVE  OnSchedule' /\ HistoriesFollow' /\ RightValue' /\ AttemptInTime'
  <1>1. /\ Reckoning /\ OnSchedule /\ HistoriesFollow /\ RightValue /\ AttemptInTime /\ FreshInv
        /\ \A w \in Signals : ReckoningOf(w)
    BY GaugeReckoning DEF GaugeInv
  <1>2. /\ UNCHANGED <<tick, uptime, s_cluster_input, last_rx_tick, next_tick, now, what, bus, busy,
                       wake, rx_at, wrong_since>>
        /\ InRound /\ InRound' /\ pc # "due" /\ pc' # "due"
    BY DEF CheckIgn, CheckAge, ReadValue, input, sched, wire, ghosts, InRound
  <1>3. /\ NowAt' = NowAt
        /\ \A w \in Signals : /\ NextAt(w)' = NextAt(w) /\ WrongSince(w)' = WrongSince(w)
                              /\ (Done(w)' <=> Done(w)) /\ (Pending(w)' <=> Pending(w))
    BY <1>2 DEF NowAt, NextAt, WrongSince, RefusedTime, Done, Pending, Overdue
  <1>4. OnSchedule' /\ AttemptInTime'
    BY <1>1, <1>2, <1>3 DEF OnSchedule, AttemptInTime, InTime, Overdue
  <1>5. (Fresh' <=> Fresh) /\ \A w \in Signals : Expected(w)' = Expected(w)
    BY <1>2 DEF Fresh, Expected
  <1>6. HistoriesFollow'
    BY <1>1, <1>2, <1>3, <1>5 DEF HistoriesFollow
  <1>7. PICK v \in Signals : what = v
    BY <1>1 DEF Reckoning
  <1>8. Expected(what)' = Expected(v) /\ Expected(what) = Expected(v)
    BY <1>2, <1>7 DEF Expected, Fresh
  <1>9. RightValue'
    <2>1. CASE CheckIgn
      <3>1. CASE s_cluster_input.ign_on
        BY <1>2, <2>1, <3>1 DEF CheckIgn, RightValue
      <3>2. CASE ~s_cluster_input.ign_on
        <4>1. pc' = "value" /\ active' = FALSE
          BY <2>1, <3>2 DEF CheckIgn
        <4>2. Expected(v) = 0
          BY <3>2 DEF Expected, Fresh
        <4> QED
          BY <1>8, <4>1, <4>2 DEF RightValue
      <3> QED
        BY <3>1, <3>2
    <2>2. CASE CheckAge
      <3>1. pc' = "value" /\ s_cluster_input.ign_on
            /\ active' = (tick_elapsed(now, last_rx_tick) <= TIMEOUT)
        BY <1>1, <2>2 DEF CheckAge, RightValue
      <3>2. ASSUME wrong_since[v] # -1, wrong_since[v] < NowAt
            PROVE  (IF tick_elapsed(now, last_rx_tick) <= TIMEOUT THEN s_cluster_input[v] ELSE 0)
                     = Expected(v)
        BY <1>1, <1>2, <3>1, <3>2, JudgedRightly
      <3> QED
        BY <1>2, <1>3, <1>7, <1>8, <3>1, <3>2 DEF RightValue
    <2>3. CASE ReadValue
      <3>1. pc = "value" /\ pc' = "send"
            /\ value' = IF active THEN s_cluster_input[v] ELSE 0
        BY <1>7, <2>3 DEF ReadValue
      <3> QED
        BY <1>1, <1>2, <1>3, <1>7, <1>8, <3>1 DEF RightValue
    <2> QED
      BY <2>1, <2>2, <2>3
  <1> QED
    BY <1>4, <1>6, <1>9

LEMMA SendInTime ==
    ASSUME TimesAreShort, GaugeInv, Send
    PROVE  OnSchedule' /\ HistoriesFollow' /\ RightValue' /\ AttemptInTime'
  <1>1. /\ Reckoning /\ OnSchedule /\ HistoriesFollow /\ RightValue /\ AttemptInTime /\ FreshInv
        /\ \A w \in Signals : ReckoningOf(w)
    BY GaugeReckoning DEF GaugeInv
  <1>2. /\ tick' = tick /\ uptime' = uptime /\ rx_at' = rx_at /\ now' = now
        /\ s_cluster_input' = s_cluster_input /\ pc = "send" /\ InRound
        /\ SendTo /\ NextFrame /\ Track(FALSE)
        /\ next_tick' = [next_tick EXCEPT ![what] = TickPlus(now, PERIODS[what])]
    BY DEF Send, input, InRound
  <1>3. PICK v \in Signals : what = v
    BY <1>1 DEF Reckoning
  <1>4. /\ NowAt' = NowAt /\ busy' \in {busy, busy + 1}
        /\ (Fresh' <=> Fresh) /\ \A w \in Signals : Expected(w)' = Expected(w)
    BY <1>2 DEF NowAt, SendTo, Fresh, Expected
  <1>5. NextAt(v)' = NowAt + PERIODS[v]
    <2>1. next_tick'[v] = TickPlus(now, PERIODS[v])
      BY <1>2, <1>3 DEF GaugeInv, FreshInv, TypeOK
    <2>2. Ahead(tick, TickPlus(now, PERIODS[v])) = PERIODS[v] - tick_elapsed(tick, now)
      BY <1>1, <1>2, AheadOfPlus DEF Reckoning, ReckoningOf
    <2>3. NextAt(v)' = uptime + (PERIODS[v] - tick_elapsed(tick, now))
      BY <1>2, <2>1, <2>2 DEF NextAt
    <2> QED
      BY <1>1, <2>3 DEF Reckoning, ReckoningOf
  <1>6. \A w \in Signals : w # v => NextAt(w)' = NextAt(w)
    BY <1>2, <1>3 DEF NextAt, GaugeInv, FreshInv, TypeOK
  <1>7. \A w \in Signals : NextAt(w)' \in Int
    BY <1>1, <1>5, <1>6 DEF Reckoning, ReckoningOf
  <1>8. OnSchedule'
    <2>1. /\ NextAt(v)' > NowAt /\ NextAt(v)' <= uptime + PERIODS[v]
          /\ wake + MaxLag <= NextAt(v)' + Overdue
      BY <1>1, <1>2, <1>5 DEF Reckoning, ReckoningOf
    <2> QED
      BY <1>1, <1>2, <1>3, <1>6, <1>7, <2>1, FrameEnds
  <1>9. ASSUME NEW w \in Signals
        PROVE  /\ wrong_since'[w] = -1 <=> bus'[w] = Expected(w)
               /\ wrong_since'[w] \in Int /\ wrong_since'[w] <= uptime
               /\ wrong_since'[w] # -1 =>
                    \/ wrong_since'[w] = uptime
                    \/ /\ wrong_since'[w] = wrong_since[w] /\ wrong_since[w] # -1
                       /\ ~Wrapped'
    <2>1. uptime \in Nat /\ uptime' \in Nat /\ uptime <= uptime' /\ wrong_since[w] \in Int
      BY <1>1, <1>2 DEF Reckoning, ReckoningOf
    <2>2. /\ wrong_since'[w] = -1 <=> bus'[w] = Expected(w)'
          /\ wrong_since'[w] \in Int /\ wrong_since'[w] <= uptime'
          /\ wrong_since'[w] # -1 =>
               \/ wrong_since'[w] = uptime'
               \/ /\ wrong_since'[w] = wrong_since[w] /\ wrong_since[w] # -1
                  /\ Expected(w)' = Expected(w) /\ ~Wrapped'
      BY <1>1, <1>2, <2>1, TrackFacts
    <2> QED
      BY <1>2, <1>4, <2>2
  <1>10. HistoriesFollow'
    <2>1. ASSUME NEW w \in Signals, wrong_since'[w] # -1
          PROVE  /\ uptime - rx_at >= TICK_MOD => wrong_since'[w] = uptime
                 /\ InRound' /\ rx_at > NowAt => rx_at <= wrong_since'[w]
                 /\ s_cluster_input.ign_on /\ ~Fresh /\ s_cluster_input[w] # 0
                      => rx_at + TIMEOUT < wrong_since'[w]
      <3>1. CASE wrong_since'[w] = uptime
        <4>1. s_cluster_input.ign_on /\ ~Fresh => rx_at + TIMEOUT < uptime
          BY <1>1 DEF Fresh, Reckoning
        <4> QED
          BY <1>1, <3>1, <4>1 DEF Reckoning
      <3>2. CASE wrong_since'[w] = wrong_since[w] /\ wrong_since[w] # -1 /\ ~Wrapped'
        <4>1. ~(uptime - rx_at >= TICK_MOD)
          BY <1>2, <3>2 DEF Wrapped
        <4> QED
          BY <1>1, <1>2, <3>2, <4>1 DEF HistoriesFollow
      <3> QED
        BY <1>9, <2>1, <3>1, <3>2
    <2> QED
      BY <1>2, <1>4, <1>9, <2>1 DEF HistoriesFollow
  <1>11. RightValue'
    <2>1. pc' \in {"due", "sleep"}
      BY <1>2 DEF NextFrame
    <2> QED
      BY <2>1 DEF RightValue
  <1>12. ASSUME NEW w \in Signals, wrong_since'[w] # -1
         PROVE  InTime(w)'
    <2>1. CASE wrong_since'[w] = uptime'
      <3>1. uptime' \in Nat /\ wake' \in Nat /\ wake' <= uptime' + DELAY
        BY <1>1, <1>2 DEF Reckoning, NextFrame
      <3> QED
        BY <1>1, <1>4, <1>7, <1>8, <2>1, <3>1, WrongFromNow
    <2>2. CASE wrong_since'[w] = wrong_since[w] /\ wrong_since[w] # -1
      <3>1. InTime(w) /\ ReckoningOf(w)
        BY <1>1, <2>2 DEF AttemptInTime
      <3>2. CASE busy' = busy + 1
        <4>1. RefusedTime(w)' = RefusedTime(w) + PERIODS[w] + Overdue
          BY <1>1, <3>1, <3>2, RefusedFacts
        <4>2. WrongSince(w)' = WrongSince(w) + PERIODS[w] + Overdue
          BY <1>1, <2>2, <3>1, <4>1 DEF WrongSince, Reckoning, ReckoningOf
        <4>3. NowAt <= WrongSince(w)' /\ WrongSince(w)' \in Int /\ WrongSince(w)' >= WrongSince(w)
          BY <1>1, <3>1, <4>2 DEF InTime, Reckoning, ReckoningOf
        <4>4. w = v => NextAt(w)' <= WrongSince(w)' + PERIODS[w]
          BY <1>1, <1>5, <4>3 DEF Reckoning, ReckoningOf
        <4> QED
          BY <1>1, <1>2, <1>3, <1>6, <1>7, <1>8, <2>2, <4>3, <4>4, FrameEndsInTime
      <3>3. CASE busy' = busy /\ busy' # busy + 1
        <4>1. WrongSince(w)' = WrongSince(w)
          BY <1>1, <2>2, <3>1, <3>3, RefusedFacts DEF WrongSince
        <4>2. ASSUME w = v
              PROVE  NowAt <= WrongSince(w)
          <5>1. bus'[w] = value
            BY <1>2, <1>3, <3>3, <4>2 DEF SendTo, GaugeInv, FreshInv, TypeOK
          <5>2. value # Expected(what)
            BY <1>3, <1>9, <1>12, <4>2, <5>1
          <5>3. ~(wrong_since[w] < NowAt)
            BY <1>1, <1>2, <1>3, <2>2, <4>2, <5>2 DEF RightValue
          <5> QED
            BY <1>1, <3>1, <5>3 DEF WrongSince, Reckoning, ReckoningOf
        <4>3. WrongSince(w)' \in Int /\ WrongSince(w)' >= WrongSince(w)
          BY <3>1, <4>1 DEF ReckoningOf
        <4>4. w = v => NextAt(w)' <= WrongSince(w)' + PERIODS[w]
          BY <1>1, <1>5, <4>1, <4>2 DEF Reckoning, ReckoningOf
        <4> QED
          BY <1>1, <1>2, <1>3, <1>6, <1>7, <1>8, <2>2, <4>3, <4>4, FrameEndsInTime
      <3> QED
        BY <1>4, <3>2, <3>3
    <2> QED
      BY <1>2, <1>9, <1>12, <2>1, <2>2
  <1> QED
    BY <1>8, <1>10, <1>11, <1>12 DEF AttemptInTime
LEMMA AdvanceTickInTime ==
    ASSUME TimesAreShort, GaugeInv, AdvanceTick
    PROVE  OnSchedule' /\ HistoriesFollow' /\ RightValue' /\ AttemptInTime'
  <1>1. /\ Reckoning /\ OnSchedule /\ HistoriesFollow /\ RightValue /\ AttemptInTime
        /\ \A w \in Signals : ReckoningOf(w)
    BY GaugeReckoning DEF GaugeInv
  <1>2. /\ tick' = TickPlus(tick, 1) /\ uptime' = uptime + 1 /\ uptime < wake + MaxLag
        /\ UNCHANGED <<s_cluster_input, next_tick, pc, now, what, active, value, bus, busy, wake,
                       rx_at>>
        /\ Track(FALSE) /\ (InRound' <=> InRound)
    BY DEF AdvanceTick, input, sched, locals, wire, InRound
  <1>3. ASSUME NEW w \in Signals
        PROVE  NextAt(w)' = NextAt(w)
    <2> DEFINE a == Ahead(tick, next_tick[w])
    <2>1. a \in Int /\ NextAt(w) = uptime + a
      BY <1>1, AheadType DEF Reckoning, ReckoningOf, NextAt
    <2>2. uptime + 1 <= uptime + a + Overdue
      BY <1>1, <1>2, <2>1 DEF OnSchedule, Reckoning
    <2>3. 2 * (1 - a) < TICK_MOD
      BY <1>1, <2>1, <2>2 DEF Reckoning
    <2>4. Ahead(tick', next_tick[w]) = a - 1
      BY <1>1, <1>2, <2>3, AheadAdvance DEF Reckoning, ReckoningOf
    <2>5. NextAt(w)' = uptime' + Ahead(tick', next_tick[w])
      BY <1>2 DEF NextAt
    <2> HIDE DEF a
    <2> QED
      BY <1>1, <1>2, <2>1, <2>4, <2>5 DEF Reckoning
  <1>4. InRound => NowAt' = NowAt
    <2> DEFINE lag == tick_elapsed(tick, now)
    <2>1. SUFFICES ASSUME InRound PROVE NowAt' = NowAt
      OBVIOUS
    <2>2. lag < TICK_MOD - 1
      BY <1>1, <1>2, <2>1 DEF Reckoning
    <2>3. tick_elapsed(tick', now') = lag + 1
      BY <1>1, <1>2, <2>2, ElapsedFacts DEF Reckoning
    <2>4. NowAt' = uptime' - tick_elapsed(tick', now')
      BY DEF NowAt
    <2> HIDE DEF lag
    <2>5. NowAt = uptime - lag /\ lag \in Nat
      BY <1>1 DEF Reckoning, lag
    <2> QED
      BY <1>1, <1>2, <2>3, <2>4, <2>5 DEF Reckoning
  <1>5. \A w \in Signals : (Done(w)' <=> Done(w)) /\ (Pending(w)' <=> Pending(w))
    BY <1>2 DEF Done, Pending
  <1>6. OnSchedule'
    <2>1. ASSUME NEW w \in Signals
          PROVE  /\ NextAt(w)' <= uptime' + PERIODS[w] /\ wake' + MaxLag <= NextAt(w)' + Overdue
                 /\ Done(w)' => NextAt(w)' > NowAt'
      BY <1>1, <1>2, <1>3, <1>4, <1>5 DEF OnSchedule, Done, Reckoning, ReckoningOf
    <2>2. ~InRound' => wake' <= uptime' + DELAY
      BY <1>1, <1>2 DEF OnSchedule, Reckoning
    <2> QED
      BY <2>1, <2>2 DEF OnSchedule, Overdue
  <1>7. ASSUME NEW w \in Signals
        PROVE  /\ wrong_since'[w] = -1 <=> bus'[w] = Expected(w)'
               /\ wrong_since'[w] \in Int /\ wrong_since'[w] <= uptime'
               /\ wrong_since'[w] # -1 =>
                    \/ wrong_since'[w] = uptime'
                    \/ /\ wrong_since'[w] = wrong_since[w] /\ wrong_since[w] # -1
                       /\ Expected(w)' = Expected(w) /\ ~Wrapped'
    <2>1. uptime \in Nat /\ uptime' \in Nat /\ uptime <= uptime' /\ wrong_since[w] \in Int
      BY <1>1, <1>2 DEF Reckoning, ReckoningOf
    <2> QED
      BY <1>1, <1>2, <2>1, TrackFacts
  <1>8. HistoriesFollow'
    <2>1. ASSUME NEW w \in Signals, wrong_since'[w] # -1
          PROVE  /\ uptime' - rx_at' >= TICK_MOD => wrong_since'[w] = uptime'
                 /\ InRound' /\ rx_at' > NowAt' => rx_at' <= wrong_since'[w]
                 /\ s_cluster_input'.ign_on /\ ~Fresh' /\ s_cluster_input'[w] # 0
                      => rx_at' + TIMEOUT < wrong_since'[w]
      <3>1. CASE wrong_since'[w] = uptime'
        <4>1. s_cluster_input'.ign_on /\ ~Fresh' => rx_at' + TIMEOUT < uptime'
          BY <1>1, <1>2 DEF Fresh, Reckoning
        <4>2. rx_at' <= uptime'
          BY <1>1, <1>2 DEF Reckoning
        <4> QED
          BY <3>1, <4>1, <4>2
      <3>2. CASE /\ wrong_since'[w] = wrong_since[w] /\ wrong_since[w] # -1
                 /\ Expected(w)' = Expected(w) /\ ~Wrapped'
        <4>1. ~(uptime' - rx_at' >= TICK_MOD)
          BY <3>2 DEF Wrapped
        <4>2. InRound' /\ rx_at' > NowAt' => rx_at' <= wrong_since'[w]
          BY <1>1, <1>2, <1>4, <3>2 DEF HistoriesFollow
        <4>3. ASSUME s_cluster_input.ign_on, ~Fresh', s_cluster_input[w] # 0
              PROVE  ~Fresh
          <5>1. Expected(w)' = 0
            BY <4>3 DEF Expected
          <5> QED
            BY <3>2, <4>3, <5>1 DEF Expected
        <4>4. s_cluster_input'.ign_on /\ ~Fresh' /\ s_cluster_input'[w] # 0
                => rx_at' + TIMEOUT < wrong_since'[w]
          BY <1>1, <1>2, <3>2, <4>3 DEF HistoriesFollow
        <4> QED
          BY <4>1, <4>2, <4>4
      <3> QED
        BY <1>7, <2>1, <3>1, <3>2
    <2> QED
      BY <1>7, <2>1 DEF HistoriesFollow
  <1>9. PICK v \in Signals : what = v
    BY <1>1 DEF Reckoning
  <1>10. RightValue'
    <2>1. ASSUME wrong_since'[v] # -1, wrong_since'[v] < NowAt', InRound
          PROVE  /\ wrong_since[v] # -1 /\ wrong_since[v] < NowAt
                 /\ Expected(v)' = Expected(v)
      <3>1. NowAt < uptime'
        BY <1>1, <1>2 DEF Reckoning
      <3> QED
        BY <1>1, <1>2, <1>4, <1>7, <2>1, <3>1 DEF Reckoning
    <2>2. Expected(what)' = Expected(v)' /\ Expected(what) = Expected(v)
      BY <1>2, <1>9 DEF Expected
    <2>3. pc \in {"value", "send"} => InRound
      BY DEF InRound
    <2> QED
      BY <1>1, <1>2, <1>9, <2>1, <2>2, <2>3 DEF RightValue
  <1>11. ASSUME NEW w \in Signals, wrong_since'[w] # -1
         PROVE  InTime(w)'
    <2>1. CASE wrong_since'[w] = uptime'
      <3>1. uptime' \in Nat /\ wake' \in Nat /\ wake' <= uptime' + DELAY /\ NextAt(w)' \in Int
        BY <1>1, <1>2, <1>3 DEF Reckoning, ReckoningOf, OnSchedule
      <3> QED
        BY <1>1, <1>2, <1>6, <2>1, <3>1, WrongFromNow
    <2>2. CASE wrong_since'[w] = wrong_since[w] /\ wrong_since[w] # -1
      <3>1. RefusedTime(w)' = RefusedTime(w)
        BY <1>1, <1>2, RefusedFacts
      <3>2. WrongSince(w)' = WrongSince(w)
        BY <2>2, <3>1 DEF WrongSince
      <3>3. InTime(w)
        BY <1>1, <2>2 DEF AttemptInTime
      <3>4. Pending(w) => InRound
        BY DEF Pending
      <3> QED
        BY <1>2, <1>3, <1>4, <1>5, <3>2, <3>3, <3>4 DEF InTime, Overdue
    <2> QED
      BY <1>7, <1>11, <2>1, <2>2
  <1> QED
    BY <1>6, <1>8, <1>10, <1>11 DEF AttemptInTime

LEMMA GaugeInit ==
    ASSUME TimesAreShort
    PROVE  Init => GaugeInv
  <1> SUFFICES ASSUME Init PROVE GaugeInv
    OBVIOUS
  <1>1. FreshInv
    BY TypeInit, EngineAssumption, TickModAssumption
       DEF Init, FreshInv, InRound, NowAt, RoundInTime, TrueAges, RoundOnFreshData, Judged,
           NoStaleValue, tick_elapsed
  <1>2. 0 \in Tick
    BY TickModAssumption DEF Tick
  <1>3. \A w \in Signals : NextAt(w) = 0
    BY <1>2, AheadType DEF Init, NextAt
  <1>4. OnSchedule
    BY <1>3, EngineAssumption DEF Init, OnSchedule, InRound, Done, Overdue
  <1>5. HistoriesFollow
    BY DEF Init, HistoriesFollow, Expected, Fresh
  <1>6. RightValue /\ AttemptInTime
    BY DEF Init, RightValue, AttemptInTime
  <1> QED
    BY <1>1, <1>4, <1>5, <1>6 DEF GaugeInv

LEMMA GaugeStep ==
    ASSUME TimesAreShort, IgnitionIsOn, GaugeInv, [Next]_vars
    PROVE  GaugeInv'
  <1>1. FreshInv'
    BY FreshStep DEF GaugeInv
  <1>2. ASSUME UNCHANGED vars
        PROVE  OnSchedule' /\ HistoriesFollow' /\ RightValue' /\ AttemptInTime'
    BY <1>2 DEF vars, input, sched, locals, wire, ghosts, GaugeInv, OnSchedule, HistoriesFollow,
                RightValue, AttemptInTime, InTime, NextAt, NowAt, InRound, Done, Pending, Fresh,
                Expected, WrongSince, RefusedTime
  <1> QED
    BY <1>1, <1>2, OnRxInTime, ReadNowInTime, CheckDueInTime, JudgeInTime, SendInTime,
       AdvanceTickInTime
       DEF Next, GatewayTask, ClusterTask, GaugeInv

LEMMA GaugeInvImplies ==
    ASSUME TimesAreShort, GaugeInv
    PROVE  GaugeErrorHeals
  <1>1. Reckoning /\ \A w \in Signals : ReckoningOf(w)
    BY GaugeReckoning
  <1>2. ASSUME NEW w \in Signals, wrong_since[w] # -1
        PROVE  uptime - wrong_since[w] <= Patience(w)
    <2> DEFINE p == PERIODS[w] + Overdue
    <2>1. p \in Nat /\ busy \in Nat
      BY <1>1 DEF Reckoning, ReckoningOf
    <2>2. (busy + 1) * p = busy * p + p /\ busy * p \in Nat
      BY <2>1, WaitedLonger
    <2>3. Patience(w) = RefusedTime(w) + p
      BY <2>2 DEF Patience, RefusedTime
    <2>4. Patience(w) = RefusedTime(w) + PERIODS[w] + Overdue
      BY <1>1, <2>1, <2>3 DEF Reckoning, ReckoningOf
    <2>5. InTime(w)
      BY <1>2 DEF GaugeInv, AttemptInTime
    <2>6. uptime <= wrong_since[w] + RefusedTime(w) + PERIODS[w] + Overdue
      BY <1>1, <2>5 DEF InTime, WrongSince, Reckoning, ReckoningOf
    <2> QED
      BY <1>1, <2>4, <2>6 DEF Reckoning, ReckoningOf
  <1> QED
    BY <1>2 DEF GaugeErrorHeals

\* Whatever GatewayTask stores in the middle of a round, the tachometer and the
\* speedometer show Board A's values, or 0 when it is silent, again within the frame's
\* period, a delay and the lateness of two rounds, with a period more for each frame
\* that found the mailboxes full: across the wrap of the tick, and although one
\* deadline of 0 restarts both schedules.
THEOREM GaugesAreCorrected ==
    ASSUME TimesAreShort, IgnitionIsOn
    PROVE  Spec => []GaugeErrorHeals
  BY GaugeInit, GaugeStep, GaugeInvImplies, PTL DEF Spec

=============================================================================
