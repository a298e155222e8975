---------------------------- MODULE Body_proofs ----------------------------
(***************************************************************************)
(* Theorems about the body signals: the body bridge of the gateway         *)
(* (BodyBridge), for every period, timeout, lateness and set of payloads,  *)
(* and Board D, which makes them (Bcm), for every debounce time and set of *)
(* samples.  The two specifications share no variable: TypeOK, Spec and    *)
(* vars are the bridge's, BcmTypeOK, Bcm_Spec and bcm are the board's.     *)
(***************************************************************************)
EXTENDS BodyBridge, Bcm, SequenceTheorems, TLAPS

-----------------------------------------------------------------------------
(* The arithmetic on the kernel tick, for every width of it.                  *)

LEMMA TickPlusType ==
    ASSUME NEW t \in Tick, NEW d \in Nat, d < TICK_MOD
    PROVE  TickPlus(t, d) \in Tick
  BY TickModAssumption DEF TickPlus, Tick

\* An unsigned age is 0 only at one moment, and grows with the tick below the wrap.
LEMMA ElapsedFacts ==
    ASSUME NEW t \in Tick, NEW u \in Tick
    PROVE  /\ tick_elapsed(t, u) \in 0 .. TICK_MOD - 1
           /\ tick_elapsed(t, t) = 0
           /\ tick_elapsed(t, u) = 0 => t = u
           /\ TickPlus(t, 1) \in Tick
           /\ tick_elapsed(t, u) < TICK_MOD - 1
                => tick_elapsed(TickPlus(t, 1), u) = tick_elapsed(t, u) + 1
  BY TickModAssumption DEF tick_elapsed, TickPlus, Tick

-----------------------------------------------------------------------------
(* Types. *)

LEMMA WordsOfPayloads ==
    ASSUME NEW p \in Payloads \cup {NoPayload}
    PROVE  p \in Words \X Words /\ p[1] \in Words /\ p[2] \in Words
  BY BodyAssumption DEF Words, NoPayload

LEMMA SendToType ==
    ASSUME NEW p \in Words \X Words, bus \in Words \X Words, busy \in 0 .. MaxBusy,
           sent_at \in 0 .. MaxUptime, uptime \in 0 .. MaxUptime, SendTo(p)
    PROVE  /\ bus' \in Words \X Words /\ busy' \in 0 .. MaxBusy
           /\ sent_at' \in 0 .. MaxUptime
           /\ sent_at' = uptime \/ sent_at' = sent_at
  BY BodyAssumption DEF SendTo

LEMMA TrackType ==
    ASSUME Track, uptime' \in 0 .. MaxUptime, wrong_since \in -1 .. MaxUptime
    PROVE  wrong_since' \in -1 .. MaxUptime
  BY BodyAssumption DEF Track

LEMMA TypeInit == Init => TypeOK
  <1> SUFFICES ASSUME Init PROVE TypeOK
    OBVIOUS
  <1>1. 0 \in Tick
    BY TickModAssumption DEF Tick
  <1>2. NoPayload \in Words \X Words
    BY WordsOfPayloads
  <1>3. /\ uptime \in 0 .. MaxUptime /\ busy \in 0 .. MaxBusy /\ sent_at \in 0 .. MaxUptime
        /\ wake \in 0 .. MaxUptime + DELAY /\ rx_at \in 0 .. MaxUptime
        /\ wrong_since \in -1 .. MaxUptime
    BY BodyAssumption DEF Init
  <1> QED
    BY <1>1, <1>2, <1>3 DEF Init, TypeOK

LEMMA TypeStep ==
    ASSUME TypeOK, [Next]_vars
    PROVE  TypeOK'
  <1> USE DEF TypeOK
  <1>1. ASSUME NEW p \in Payloads, OnRx(p)
        PROVE  TypeOK'
    <2>1. /\ bus' \in Words \X Words /\ busy' \in 0 .. MaxBusy /\ sent_at' \in 0 .. MaxUptime
          /\ s_next_body_status_tick' \in Tick
      BY <1>1, WordsOfPayloads, SendToType, TickPlusType, BodyAssumption DEF OnRx
    <2>2. wrong_since' \in -1 .. MaxUptime
      BY <1>1, TrackType DEF OnRx
    <2> QED
      BY <1>1, <2>1, <2>2 DEF OnRx, locals
  <1>2. ASSUME ReadNow
        PROVE  TypeOK'
    BY <1>2 DEF ReadNow, status, wire, ghosts
  <1>3. ASSUME Sleep
        PROVE  pc' = "sleep" /\ wake' \in 0 .. MaxUptime + DELAY
    <2>1. uptime + DELAY \in 0 .. MaxUptime + DELAY
      BY BodyAssumption
    <2> QED
      BY <1>3, <2>1 DEF Sleep
  <1>4. ASSUME CheckDue
        PROVE  TypeOK'
    BY <1>3, <1>4 DEF CheckDue, status, wire
  <1>5. ASSUME CheckRecent
        PROVE  TypeOK'
    BY <1>3, <1>5, TickPlusType, BodyAssumption DEF CheckRecent, status, wire
  <1>6. ASSUME CopyLow \/ CopyHigh
        PROVE  TypeOK'
    <2>1. data' \in Words \X Words /\ pc' \in {"high", "send"}
      BY <1>6, WordsOfPayloads DEF CopyLow, CopyHigh
    <2> QED
      BY <1>6, <2>1 DEF CopyLow, CopyHigh, status, wire, ghosts
  <1>7. ASSUME SendStatus
        PROVE  TypeOK'
    <2>1. /\ bus' \in Words \X Words /\ busy' \in 0 .. MaxBusy /\ sent_at' \in 0 .. MaxUptime
          /\ s_next_body_status_tick' \in Tick
      BY <1>7, SendToType, TickPlusType, BodyAssumption DEF SendStatus
    <2>2. wrong_since' \in -1 .. MaxUptime
      BY <1>7, TrackType DEF SendStatus
    <2> QED
      BY <1>3, <1>7, <2>1, <2>2 DEF SendStatus, status
  <1>8. ASSUME AdvanceTick
        PROVE  TypeOK'
    <2>1. uptime' \in 0 .. MaxUptime
      BY <1>8, BodyAssumption DEF AdvanceTick
    <2>2. tick' \in Tick
      BY <1>8, ElapsedFacts DEF AdvanceTick
    <2>3. wrong_since' \in -1 .. MaxUptime
      BY <1>8, <2>1, TrackType DEF AdvanceTick
    <2> QED
      BY <1>8, <2>1, <2>2, <2>3 DEF AdvanceTick, status, locals, wire
  <1>9. ASSUME UNCHANGED vars
        PROVE  TypeOK'
    BY <1>9 DEF vars, status, locals, wire, ghosts
  <1> QED
    BY <1>1, <1>2, <1>4, <1>5, <1>6, <1>7, <1>8, <1>9 DEF Next, GatewayTask, ClusterTask

\* Every variable of the bridge keeps its type, and what a torn copy puts on the bus
\* is made of words of payloads.
THEOREM TypeCorrect == Spec => []TypeOK
  BY TypeInit, TypeStep, PTL DEF Spec

-----------------------------------------------------------------------------
(* No keep-alive on stale data; the argument is that of SafetyBridge_proofs.   *)

\* When the round read its clock, in true time.
NowAt == uptime - tick_elapsed(tick, now)

InRound == pc # "sleep"

RoundInTime ==
    /\ uptime <= wake + MaxLag /\ sent_at <= uptime
    /\ InRound => wake <= NowAt

\* Within a wrap of the last reception the unsigned ages are true ages.
TrueAges ==
    /\ rx_at <= uptime
    /\ valid /\ uptime - rx_at < TICK_MOD
         => tick_elapsed(tick, last_rx_tick) = uptime - rx_at
    /\ InRound /\ valid /\ rx_at <= NowAt /\ NowAt - rx_at < TICK_MOD
         => tick_elapsed(now, last_rx_tick) = NowAt - rx_at

\* Past the recency check the round holds data that were recent when it read its
\* clock, and data that arrived later are only newer.
RoundOnFreshData ==
    pc \in {"low", "high", "send"} /\ NowAt - rx_at < TICK_MOD => NowAt <= rx_at + TIMEOUT

FreshInv == TypeOK /\ RoundInTime /\ TrueAges /\ RoundOnFreshData /\ NoStaleStatus

LEMMA FreshStep ==
    ASSUME FreshInv, [Next]_vars
    PROVE  FreshInv'
  <1> DEFINE age == tick_elapsed(tick, last_rx_tick)
             age_at_now == tick_elapsed(now, last_rx_tick)
             lag == tick_elapsed(tick, now)
  <1> USE DEF FreshInv, InRound, NowAt, RoundInTime, TrueAges, RoundOnFreshData, NoStaleStatus
  <1>0. TypeOK'
    BY TypeStep
  <1>a. /\ uptime \in Nat /\ wake \in Nat /\ rx_at \in Nat /\ sent_at \in Nat
        /\ tick \in Tick /\ now \in Tick /\ last_rx_tick \in Tick
    BY BodyAssumption DEF TypeOK
  <1>b. /\ TIMEOUT \in Nat /\ MaxLag \in Nat /\ DELAY \in Nat /\ TICK_MOD \in Nat \ {0}
        /\ MaxLag < TICK_MOD
    BY BodyAssumption, TickModAssumption
  <1>c. lag \in 0 .. TICK_MOD - 1 /\ age \in 0 .. TICK_MOD - 1 /\ age_at_now \in 0 .. TICK_MOD - 1
    BY <1>a, ElapsedFacts
  <1>1. ASSUME NEW p \in Payloads, OnRx(p)
        PROVE  FreshInv'
    <2>1. sent_at' = uptime \/ sent_at' = sent_at
      BY <1>1 DEF OnRx, SendTo
    <2>2. /\ rx_at' = uptime /\ tick' = tick /\ uptime' = uptime /\ wake' = wake
          /\ pc' = pc /\ now' = now /\ last_rx_tick' = tick
      BY <1>1 DEF OnRx, locals
    <2>3. tick_elapsed(tick, tick) = 0 /\ (lag = 0 => tick_elapsed(now, tick) = 0)
      BY <1>a, ElapsedFacts
    <2>4. TrueAges'
      BY <1>a, <1>c, <2>2, <2>3
    <2>5. RoundInTime' /\ RoundOnFreshData'
      BY <1>a, <1>b, <1>c, <2>1, <2>2
    <2>6. NoStaleStatus'
      BY <1>a, <1>b, <2>1, <2>2
    <2> QED
      BY <1>0, <2>4, <2>5, <2>6
  <1>2. ASSUME ReadNow
        PROVE  FreshInv'
    <2>1. /\ now' = tick /\ tick' = tick /\ uptime' = uptime /\ wake' = wake /\ rx_at' = rx_at
          /\ valid' = valid /\ last_rx_tick' = last_rx_tick /\ sent_at' = sent_at
          /\ pc' = "due" /\ wake <= uptime
      BY <1>2 DEF ReadNow, status, wire, ghosts
    <2>2. tick_elapsed(tick, tick) = 0 /\ NowAt' = uptime
      BY <1>a, <2>1, ElapsedFacts
    <2>3. RoundInTime'
      BY <1>a, <2>1, <2>2
    <2>4. TrueAges'
      BY <1>a, <2>1, <2>2
    <2> QED
      BY <1>0, <2>1, <2>3, <2>4
  <1>3. ASSUME CheckDue
        PROVE  FreshInv'
    BY <1>0, <1>3, <1>a, <1>b DEF CheckDue, Sleep, status, wire
  <1>4. ASSUME CheckRecent
        PROVE  FreshInv'
    <2>1. CASE is_body_status_recent(now)
      <3>1. NowAt - rx_at < TICK_MOD => NowAt <= rx_at + TIMEOUT
        <4>1. valid /\ age_at_now <= TIMEOUT /\ InRound
          BY <1>4, <2>1 DEF is_body_status_recent, CheckRecent
        <4> QED
          BY <4>1, <1>a, <1>b, <1>c
      <3> QED
        BY <1>0, <1>4, <2>1, <3>1 DEF CheckRecent, status, wire
    <2>2. CASE ~is_body_status_recent(now)
      BY <1>0, <1>4, <1>a, <1>b, <2>2 DEF CheckRecent, Sleep, status, wire
    <2> QED
      BY <2>1, <2>2
  <1>5. ASSUME CopyLow \/ CopyHigh
        PROVE  FreshInv'
    BY <1>0, <1>5 DEF CopyLow, CopyHigh, status, wire, ghosts
  <1>6. ASSUME SendStatus
        PROVE  FreshInv'
    <2>1. sent_at' = uptime \/ sent_at' = sent_at
      BY <1>6 DEF SendStatus, SendTo
    <2>2. uptime - rx_at < TICK_MOD => uptime <= rx_at + TIMEOUT + MaxLag
      BY <1>6, <1>a, <1>b, <1>c DEF SendStatus
    <2>3. /\ rx_at' = rx_at /\ tick' = tick /\ uptime' = uptime /\ wake' = uptime + DELAY
          /\ pc' = "sleep" /\ valid' = valid /\ last_rx_tick' = last_rx_tick
      BY <1>6 DEF SendStatus, Sleep, status
    <2> QED
      BY <1>0, <1>a, <1>b, <2>1, <2>2, <2>3
  <1>7. ASSUME AdvanceTick
        PROVE  FreshInv'
    <2>1. /\ tick' = TickPlus(tick, 1) /\ uptime' = uptime + 1 /\ uptime < wake + MaxLag
          /\ now' = now /\ wake' = wake /\ rx_at' = rx_at /\ pc' = pc /\ sent_at' = sent_at
          /\ valid' = valid /\ last_rx_tick' = last_rx_tick
      BY <1>7 DEF AdvanceTick, status, locals, wire
    <2>2. InRound => tick_elapsed(tick', now) = lag + 1
      BY <1>a, <1>b, <1>c, <2>1, ElapsedFacts
    <2>3. age < TICK_MOD - 1 => tick_elapsed(tick', last_rx_tick) = age + 1
      BY <1>a, <2>1, ElapsedFacts
    <2>4. RoundInTime'
      BY <1>a, <1>b, <1>c, <2>1, <2>2
    <2>5. TrueAges'
      BY <1>a, <1>b, <1>c, <2>1, <2>2, <2>3
    <2>6. RoundOnFreshData'
      BY <1>a, <1>b, <1>c, <2>1, <2>2
    <2> QED
      BY <1>0, <2>1, <2>4, <2>5, <2>6
  <1>8. ASSUME UNCHANGED vars
        PROVE  FreshInv'
    BY <1>0, <1>8 DEF vars, status, locals, wire, ghosts
  <1> QED
    BY <1>1, <1>2, <1>3, <1>4, <1>5, <1>6, <1>7, <1>8 DEF Next, GatewayTask, ClusterTask

\* The keep-alive of the body status stops with its source: no 0x390 frame goes out
\* later than the timeout and the lateness of one round after Board D's last frame,
\* although the frame may be replaced during the check and the copy, and the tick wraps.
THEOREM NoStatusOnStaleData == Spec => []NoStaleStatus
  <1>1. Init => FreshInv
    BY TypeInit, BodyAssumption, TickModAssumption
       DEF Init, FreshInv, InRound, NowAt, RoundInTime, TrueAges, RoundOnFreshData, NoStaleStatus
  <1>2. FreshInv => NoStaleStatus
    BY DEF FreshInv
  <1> QED
    BY <1>1, <1>2, FreshStep, PTL DEF Spec
-----------------------------------------------------------------------------
(* The newest payload reaches CAN2 within a period.  The argument is that of   *)
(* SafetyBridge_proofs: the schedule and the rounds in true time.              *)

\* The period and the lateness are short against half a wrap of the tick: 100 ms
\* and some 20 ms against 24.8 days in the code.
TimesAreShort == 2 * PERIOD <= TICK_MOD /\ 2 * Overdue < TICK_MOD

\* How far the moment d lies ahead of the moment t, negative when it is past.
Ahead(t, d) == IF Due(t, d) THEN 0 - tick_elapsed(t, d) ELSE tick_elapsed(d, t)

\* The deadline in true time.
NextAt == uptime + Ahead(tick, s_next_body_status_tick)

\* The deadline is at most a period ahead, and the round under way, or the next one,
\* ends before it is overdue.
OnSchedule ==
    /\ ~InRound => wake <= uptime + DELAY
    /\ NextAt <= uptime + PERIOD
    /\ wake + MaxLag <= NextAt + Overdue

\* The history variable follows the bus.
HistoryFollows ==
    /\ wrong_since = -1 <=> (~Fresh \/ bus = s_body_status)
    /\ wrong_since <= uptime

\* Since when the newest payload is missing on the bus, the refused frames left aside.
RefusedTime == busy * (PERIOD + Overdue)
WrongSince == wrong_since + RefusedTime

\* The round's copy is not, or will not be, the newest payload.
Outdated == \/ pc = "high" /\ data[1] # s_body_status[1]
            \/ pc = "send" /\ data # s_body_status

\* A round copies an outdated payload only when the newer one came after it had read
\* its clock, and OnRx has then sent the newer one itself; so the next attempt at the
\* newest payload ends within a period, a delay and the lateness.
AttemptInTime ==
    /\ Outdated => NowAt <= rx_at
    /\ wrong_since # -1 =>
         /\ rx_at <= WrongSince
         /\ pc \in {"sleep", "due"} => NextAt <= WrongSince + PERIOD
         /\ wake + MaxLag <= WrongSince + PERIOD + Overdue

StatusInv == FreshInv /\ OnSchedule /\ HistoryFollows /\ AttemptInTime
\* The distance of two moments that are less than half a wrap apart.
LEMMA AheadType ==
    ASSUME NEW t \in Tick, NEW d \in Tick
    PROVE  /\ Ahead(t, d) \in Int /\ 2 * Ahead(t, d) <= TICK_MOD
           /\ Ahead(t, t) = 0
  <1> DEFINE x == tick_elapsed(t, d)
             y == tick_elapsed(d, t)
  <1>1. /\ TICK_MOD \in Nat \ {0} /\ x \in 0 .. TICK_MOD - 1 /\ y \in 0 .. TICK_MOD - 1
        /\ x # 0 => y = TICK_MOD - x
        /\ tick_elapsed(t, t) = 0
    BY TickModAssumption DEF tick_elapsed, Tick
  <1>2. Ahead(t, d) = IF 2 * x < TICK_MOD THEN 0 - x ELSE y
    BY DEF Ahead, Due
  <1>3. Ahead(t, t) = 0
    BY <1>1 DEF Ahead, Due
  <1> HIDE DEF x, y
  <1> QED
    BY <1>1, <1>2, <1>3

LEMMA AheadAdvance ==
    ASSUME NEW t \in Tick, NEW d \in Tick, 2 * (1 - Ahead(t, d)) < TICK_MOD
    PROVE  Ahead(TickPlus(t, 1), d) = Ahead(t, d) - 1
  BY TickModAssumption DEF Ahead, Due, tick_elapsed, TickPlus, Tick

\* A moment p after one that is lag ago.
LEMMA AheadOfPlus ==
    ASSUME NEW t \in Tick, NEW n \in Tick, NEW p \in Nat, p < TICK_MOD, 2 * p <= TICK_MOD,
           2 * tick_elapsed(t, n) < TICK_MOD
    PROVE  Ahead(t, TickPlus(n, p)) = p - tick_elapsed(t, n)
  BY TickModAssumption DEF Ahead, Due, tick_elapsed, TickPlus, Tick

LEMMA AheadOfPast ==
    ASSUME NEW t \in Tick, NEW n \in Tick, 2 * tick_elapsed(t, n) < TICK_MOD
    PROVE  Ahead(t, n) = 0 - tick_elapsed(t, n)
  BY TickModAssumption DEF Ahead, Due, tick_elapsed, Tick

\* What is not due on a clock read lag ago lies after it.
LEMMA NotDueIsAhead ==
    ASSUME NEW t \in Tick, NEW n \in Tick, NEW d \in Tick,
           ~Due(n, d), 2 * tick_elapsed(t, n) < TICK_MOD, -2 * Ahead(t, d) < TICK_MOD
    PROVE  Ahead(t, d) > 0 - tick_elapsed(t, n)
  BY TickModAssumption DEF Ahead, Due, tick_elapsed, Tick

LEMMA WaitedLonger ==
    ASSUME NEW b \in Nat, NEW p \in Nat
    PROVE  b * p \in Nat /\ (b + 1) * p = b * p + p
  OBVIOUS

\* What a step that follows the bus does to the history variable.
LEMMA TrackFacts ==
    ASSUME Track, HistoryFollows, uptime \in Nat, uptime' \in Nat, uptime <= uptime',
           wrong_since \in Int
    PROVE  /\ HistoryFollows'
           /\ wrong_since' # -1 =>
                /\ Fresh' /\ bus' # s_body_status'
                /\ wrong_since' = uptime' \/ (wrong_since' = wrong_since /\ wrong_since # -1)
  BY DEF Track, HistoryFollows

\* The types and the bounds the steps reckon with.
Reckoning ==
    /\ uptime \in Nat /\ wake \in Nat /\ rx_at \in Nat /\ busy \in Nat
    /\ wrong_since \in Int /\ NextAt \in Int
    /\ tick \in Tick /\ now \in Tick /\ s_next_body_status_tick \in Tick
    /\ last_rx_tick \in Tick
    /\ s_body_status \in Words \X Words /\ data \in Words \X Words
    /\ PERIOD \in Nat \ {0} /\ DELAY \in Nat \ {0} /\ MaxLag \in Nat /\ TIMEOUT \in Nat
    /\ TICK_MOD \in Nat \ {0} /\ TIMEOUT < TICK_MOD /\ PERIOD < TICK_MOD
    /\ 2 * PERIOD <= TICK_MOD /\ 2 * (DELAY + 2 * MaxLag - 1) < TICK_MOD
    /\ Overdue = DELAY + 2 * MaxLag - 1
    /\ RefusedTime \in Nat
    /\ uptime <= wake + MaxLag /\ NowAt \in Int
    /\ NowAt = uptime - tick_elapsed(tick, now) /\ tick_elapsed(tick, now) \in Nat
    /\ InRound => wake <= NowAt /\ tick_elapsed(tick, now) <= MaxLag
                  /\ 2 * tick_elapsed(tick, now) < TICK_MOD

LEMMA StatusReckoning ==
    ASSUME TimesAreShort, StatusInv
    PROVE  Reckoning
  <1>1. /\ uptime \in Nat /\ wake \in Nat /\ rx_at \in Nat /\ busy \in Nat
        /\ wrong_since \in Int
        /\ tick \in Tick /\ now \in Tick /\ s_next_body_status_tick \in Tick
        /\ last_rx_tick \in Tick /\ s_body_status \in Words \X Words /\ data \in Words \X Words
    BY BodyAssumption, WordsOfPayloads DEF StatusInv, FreshInv, TypeOK
  <1>2. /\ PERIOD \in Nat \ {0} /\ DELAY \in Nat \ {0} /\ MaxLag \in Nat /\ TIMEOUT \in Nat
        /\ TICK_MOD \in Nat \ {0} /\ TIMEOUT < TICK_MOD /\ PERIOD < TICK_MOD
        /\ 2 * PERIOD <= TICK_MOD /\ 2 * Overdue < TICK_MOD
        /\ Overdue = DELAY + 2 * MaxLag - 1
    BY BodyAssumption, TickModAssumption DEF TimesAreShort, Overdue
  <1>3. NextAt \in Int
    BY <1>1, AheadType DEF NextAt
  <1>4. PERIOD + Overdue \in Nat
    BY <1>2
  <1>5. RefusedTime \in Nat
    BY <1>1, <1>4, WaitedLonger DEF RefusedTime
  <1>6. tick_elapsed(tick, now) \in Nat
    <2>1. tick_elapsed(tick, now) \in 0 .. TICK_MOD - 1
      BY <1>1, ElapsedFacts
    <2> QED
      BY <1>2, <2>1
  <1>7. uptime <= wake + MaxLag /\ (InRound => wake <= NowAt)
    BY DEF StatusInv, FreshInv, RoundInTime
  <1>8. NowAt = uptime - tick_elapsed(tick, now) /\ NowAt \in Int
    BY <1>1, <1>6 DEF NowAt
  <1> HIDE DEF NowAt
  <1>9. InRound => /\ tick_elapsed(tick, now) <= MaxLag
                   /\ 2 * tick_elapsed(tick, now) < TICK_MOD
    BY <1>1, <1>2, <1>6, <1>7, <1>8
  <1> QED
    BY <1>1, <1>2, <1>3, <1>5, <1>6, <1>7, <1>8, <1>9 DEF Reckoning

LEMMA RefusedFacts ==
    ASSUME Reckoning
    PROVE  /\ busy' = busy => RefusedTime' = RefusedTime
           /\ busy' = busy + 1 => RefusedTime' = RefusedTime + PERIOD + Overdue
  <1> DEFINE p == PERIOD + Overdue
  <1>1. p \in Nat /\ busy \in Nat /\ PERIOD \in Nat /\ Overdue \in Int
    BY DEF Reckoning
  <1>2. RefusedTime = busy * p /\ RefusedTime' = busy' * p
    BY DEF RefusedTime, Overdue
  <1>3. (busy + 1) * p = busy * p + p /\ busy * p \in Nat
    BY <1>1, WaitedLonger
  <1>4. busy' = busy => RefusedTime' = RefusedTime
    BY <1>2
  <1>5. busy' = busy + 1 => RefusedTime' = RefusedTime + p
    BY <1>2, <1>3
  <1>6. RefusedTime + p = RefusedTime + PERIOD + Overdue
    BY <1>1, <1>2, <1>3
  <1> QED
    BY <1>4, <1>5, <1>6
\* A payload stored after the round had read its clock, or a round without one.
LEMMA NotRecentIsNew ==
    ASSUME Reckoning, FreshInv, InRound, Fresh, ~is_body_status_recent(now)
    PROVE  NowAt <= rx_at
  <1>1. valid /\ uptime - rx_at <= TIMEOUT
    BY DEF Fresh
  <1>2. SUFFICES ASSUME NowAt > rx_at PROVE FALSE
    BY DEF Reckoning
  <1>3. NowAt <= uptime
    BY DEF Reckoning
  <1>4. rx_at <= NowAt /\ NowAt - rx_at <= TIMEOUT /\ NowAt - rx_at < TICK_MOD
    BY <1>1, <1>2, <1>3 DEF Reckoning
  <1>5. tick_elapsed(now, last_rx_tick) = NowAt - rx_at
    BY <1>1, <1>4 DEF FreshInv, TrueAges
  <1> QED
    BY <1>1, <1>4, <1>5 DEF is_body_status_recent

\* A frame that found the mailboxes full leaves the deadline as far ahead as the
\* count of the refused ones says.
LEMMA RefusedInTime ==
    ASSUME Reckoning, AttemptInTime, wrong_since # -1, wrong_since' = wrong_since,
           busy' = busy + 1
    PROVE  WrongSince' \in Int /\ uptime <= WrongSince' /\ WrongSince' >= WrongSince
  <1>1. RefusedTime' = RefusedTime + PERIOD + Overdue
    BY RefusedFacts
  <1>2. WrongSince' = WrongSince + PERIOD + Overdue /\ WrongSince \in Int
    BY <1>1 DEF WrongSince, Reckoning
  <1>3. wake + MaxLag <= WrongSince + PERIOD + Overdue
    BY DEF AttemptInTime
  <1> QED
    BY <1>2, <1>3 DEF Reckoning

LEMMA WrongNow ==
    ASSUME Reckoning, wrong_since' = uptime, busy' \in {busy, busy + 1}
    PROVE  WrongSince' \in Int /\ uptime <= WrongSince'
  <1>1. CASE busy' = busy
    <2>1. WrongSince' = uptime + RefusedTime
      BY <1>1, RefusedFacts DEF WrongSince
    <2> QED
      BY <2>1 DEF Reckoning
  <1>2. CASE busy' = busy + 1
    <2>1. WrongSince' = uptime + (RefusedTime + PERIOD + Overdue)
      BY <1>2, RefusedFacts DEF WrongSince
    <2>2. PERIOD + Overdue \in Nat /\ RefusedTime \in Nat
      BY DEF Reckoning
    <2> QED
      BY <2>1, <2>2 DEF Reckoning
  <1> QED
    BY <1>1, <1>2

LEMMA OnRxInTime ==
    ASSUME TimesAreShort, StatusInv, NEW p \in Payloads, OnRx(p)
    PROVE  OnSchedule' /\ HistoryFollows' /\ AttemptInTime'
  <1>1. Reckoning /\ OnSchedule /\ HistoryFollows /\ AttemptInTime
    BY StatusReckoning DEF StatusInv
  <1>2. /\ rx_at' = uptime /\ tick' = tick /\ uptime' = uptime /\ wake' = wake
        /\ pc' = pc /\ now' = now /\ data' = data /\ Track
        /\ (InRound' <=> InRound) /\ NowAt' = NowAt
        /\ s_next_body_status_tick' = TickPlus(tick, PERIOD)
        /\ s_body_status' = p
    BY DEF OnRx, locals, InRound, NowAt
  <1>3. /\ HistoryFollows'
        /\ wrong_since' # -1 =>
             /\ bus' # s_body_status'
             /\ wrong_since' = uptime \/ (wrong_since' = wrong_since /\ wrong_since # -1)
    <2>1. uptime \in Nat /\ uptime' \in Nat /\ uptime <= uptime' /\ wrong_since \in Int
      BY <1>1, <1>2 DEF Reckoning
    <2> QED
      BY <1>1, <1>2, <2>1, TrackFacts
  <1>4. NowAt' <= rx_at'
    BY <1>1, <1>2 DEF Reckoning
  <1>5. NextAt' = uptime + PERIOD
    <2>1. tick_elapsed(tick, tick) = 0
      BY <1>1, ElapsedFacts DEF Reckoning
    <2>2. Ahead(tick, TickPlus(tick, PERIOD)) = PERIOD
      BY <1>1, <2>1, AheadOfPlus DEF Reckoning
    <2> QED
      BY <1>2, <2>2 DEF NextAt
  <1>6. wake <= uptime + DELAY
    BY <1>1 DEF OnSchedule, Reckoning
  <1>7. OnSchedule'
    BY <1>1, <1>2, <1>5, <1>6 DEF OnSchedule, Reckoning, Overdue
  <1>8. ASSUME wrong_since' # -1
        PROVE  WrongSince' \in Int /\ uptime <= WrongSince'
    <2>1. busy' = busy + 1
      BY <1>2, <1>3, <1>8 DEF OnRx, SendTo
    <2> QED
      BY <1>1, <1>3, <1>8, <2>1, RefusedInTime, WrongNow
  <1>9. ASSUME wrong_since' # -1
        PROVE  /\ rx_at' <= WrongSince' /\ NextAt' <= WrongSince' + PERIOD
               /\ wake' + MaxLag <= WrongSince' + PERIOD + Overdue
    BY <1>1, <1>2, <1>5, <1>6, <1>8, <1>9 DEF Reckoning
  <1> QED
    BY <1>3, <1>4, <1>7, <1>9 DEF AttemptInTime, Overdue

LEMMA ReadNowInTime ==
    ASSUME TimesAreShort, StatusInv, ReadNow
    PROVE  OnSchedule' /\ HistoryFollows' /\ AttemptInTime'
  <1>1. /\ UNCHANGED <<tick, uptime, status, s_next_body_status_tick, bus, busy, wake,
                       rx_at, wrong_since>>
        /\ pc = "sleep" /\ pc' = "due"
    BY DEF ReadNow, wire, ghosts
  <1>2. ~Outdated' /\ InRound'
    BY <1>1 DEF Outdated, InRound
  <1>3. Fresh' <=> Fresh
    BY <1>1 DEF Fresh, status
  <1> QED
    BY <1>1, <1>2, <1>3
       DEF StatusInv, OnSchedule, HistoryFollows, AttemptInTime, WrongSince, RefusedTime,
           NextAt, status
LEMMA CheckDueInTime ==
    ASSUME TimesAreShort, StatusInv, CheckDue
    PROVE  OnSchedule' /\ HistoryFollows' /\ AttemptInTime'
  <1> DEFINE next == IF s_next_body_status_tick = 0 THEN now ELSE s_next_body_status_tick
  <1>1. Reckoning /\ OnSchedule /\ HistoryFollows /\ AttemptInTime
    BY StatusReckoning DEF StatusInv
  <1>2. /\ UNCHANGED <<tick, uptime, status, now, data, bus, busy, rx_at, wrong_since>>
        /\ pc = "due" /\ s_next_body_status_tick' = next /\ InRound
        /\ IF Due(now, next) THEN pc' = "recent" /\ wake' = wake
           ELSE pc' = "sleep" /\ wake' = uptime + DELAY
    BY DEF CheckDue, wire, Sleep, InRound
  <1>3. /\ ~Outdated' /\ WrongSince' = WrongSince /\ HistoryFollows'
        /\ Fresh' <=> Fresh
    BY <1>1, <1>2 DEF Outdated, WrongSince, RefusedTime, HistoryFollows, Fresh, status
  <1>4. wake <= NowAt /\ NowAt <= uptime /\ uptime <= NowAt + MaxLag /\ NowAt \in Int
    BY <1>1, <1>2 DEF Reckoning
  <1>5. NextAt' = IF s_next_body_status_tick = 0 THEN NowAt ELSE NextAt
    <2>1. Ahead(tick, now) = 0 - tick_elapsed(tick, now)
      BY <1>1, <1>2, AheadOfPast DEF Reckoning
    <2>2. s_next_body_status_tick = 0 => uptime + Ahead(tick, now) = NowAt
      BY <1>1, <2>1 DEF Reckoning
    <2> QED
      BY <1>2, <2>2 DEF NextAt
  <1>6. CASE Due(now, next)
    <2>1. OnSchedule'
      BY <1>1, <1>2, <1>4, <1>5, <1>6 DEF OnSchedule, Reckoning, InRound, Overdue
    <2>2. AttemptInTime'
      BY <1>1, <1>2, <1>3, <1>6 DEF AttemptInTime, Overdue
    <2> QED
      BY <1>3, <2>1, <2>2
  <1>7. CASE ~Due(now, next)
    <2>1. s_next_body_status_tick # 0
      <3>1. tick_elapsed(now, now) = 0
        BY <1>1, ElapsedFacts DEF Reckoning
      <3>2. Due(now, now)
        BY <1>1, <3>1 DEF Due, Reckoning
      <3> QED
        BY <1>7, <3>2
    <2>2. NextAt > NowAt
      <3>1. -2 * Ahead(tick, s_next_body_status_tick) < TICK_MOD
        <4>1. Ahead(tick, s_next_body_status_tick) \in Int
          BY <1>1, AheadType DEF Reckoning
        <4>2. uptime <= uptime + Ahead(tick, s_next_body_status_tick) + Overdue
          BY <1>1 DEF Reckoning, OnSchedule, NextAt
        <4> QED
          BY <1>1, <4>1, <4>2 DEF Reckoning
      <3>2. ~Due(now, s_next_body_status_tick)
        BY <1>7, <2>1
      <3>3. Ahead(tick, s_next_body_status_tick) > 0 - tick_elapsed(tick, now)
        BY <1>1, <1>2, <3>1, <3>2, NotDueIsAhead DEF Reckoning
      <3>4. Ahead(tick, s_next_body_status_tick) \in Int
        BY <1>1, AheadType DEF Reckoning
      <3> QED
        BY <1>1, <3>3, <3>4 DEF Reckoning, NextAt
    <2>3. NextAt' = NextAt
      BY <1>5, <2>1
    <2>4. wake' + MaxLag <= NextAt + Overdue
      BY <1>1, <1>2, <1>4, <1>7, <2>2 DEF Reckoning
    <2>5. OnSchedule'
      BY <1>1, <1>2, <1>7, <2>3, <2>4 DEF OnSchedule, Overdue, Reckoning
    <2>6. wrong_since # -1 => wake' + MaxLag <= WrongSince + PERIOD + Overdue
      BY <1>1, <1>2, <1>7, <2>4 DEF AttemptInTime, Reckoning, WrongSince
    <2>7. AttemptInTime'
      BY <1>1, <1>2, <1>3, <2>3, <2>6 DEF AttemptInTime, Overdue
    <2> QED
      BY <1>3, <2>5, <2>7
  <1> QED
    BY <1>6, <1>7

\* The round ends with the next deadline a period after the clock it read.
LEMMA RoundEnds ==
    ASSUME Reckoning, InRound, Sleep, s_next_body_status_tick' = TickPlus(now, PERIOD),
           tick' = tick, uptime' = uptime
    PROVE  /\ OnSchedule' /\ NextAt' = NowAt + PERIOD
           /\ wake' + MaxLag <= NowAt + PERIOD + Overdue
  <1>1. pc' = "sleep" /\ wake' = uptime + DELAY
    BY DEF Sleep
  <1>2. Ahead(tick, TickPlus(now, PERIOD)) = PERIOD - tick_elapsed(tick, now)
    BY AheadOfPlus DEF Reckoning
  <1>3. NextAt' = NowAt + PERIOD
    BY <1>2 DEF Reckoning, NextAt
  <1>4. /\ wake <= NowAt /\ NowAt <= uptime /\ uptime <= NowAt + MaxLag /\ NowAt \in Int
        /\ uptime \in Nat /\ PERIOD \in Nat \ {0} /\ MaxLag \in Nat /\ DELAY \in Nat
        /\ Overdue = DELAY + 2 * MaxLag - 1
    BY DEF Reckoning
  <1>5. wake' + MaxLag <= NowAt + PERIOD + Overdue
    BY <1>1, <1>4
  <1>6. OnSchedule'
    BY <1>1, <1>3, <1>4, <1>5 DEF OnSchedule, Overdue
  <1> QED
    BY <1>3, <1>5, <1>6
LEMMA CheckRecentInTime ==
    ASSUME TimesAreShort, StatusInv, CheckRecent
    PROVE  OnSchedule' /\ HistoryFollows' /\ AttemptInTime'
  <1>1. Reckoning /\ OnSchedule /\ HistoryFollows /\ AttemptInTime /\ FreshInv
    BY StatusReckoning DEF StatusInv
  <1>2. /\ UNCHANGED <<tick, uptime, status, now, data, bus, busy, rx_at, wrong_since>>
        /\ pc = "recent" /\ InRound
    BY DEF CheckRecent, wire, InRound
  <1>3. /\ WrongSince' = WrongSince /\ HistoryFollows'
        /\ Fresh' <=> Fresh
    BY <1>1, <1>2 DEF WrongSince, RefusedTime, HistoryFollows, Fresh, status
  <1>4. CASE is_body_status_recent(now)
    <2>1. pc' = "low" /\ wake' = wake /\ s_next_body_status_tick' = s_next_body_status_tick
      BY <1>4 DEF CheckRecent
    <2> QED
      BY <1>1, <1>2, <1>3, <2>1
         DEF OnSchedule, AttemptInTime, Outdated, InRound, NextAt, Overdue
  <1>5. CASE ~is_body_status_recent(now)
    <2>1. Sleep /\ s_next_body_status_tick' = TickPlus(now, PERIOD) /\ pc' = "sleep"
      BY <1>5 DEF CheckRecent, Sleep
    <2>2. /\ OnSchedule' /\ NextAt' = NowAt + PERIOD
          /\ wake' + MaxLag <= NowAt + PERIOD + Overdue
      BY <1>1, <1>2, <2>1, RoundEnds
    <2>3. wrong_since # -1 => NowAt <= WrongSince
      <3>1. Fresh => NowAt <= rx_at
        BY <1>1, <1>2, <1>5, NotRecentIsNew
      <3> QED
        BY <1>1, <3>1 DEF HistoryFollows, AttemptInTime, Reckoning, WrongSince
    <2>4. ASSUME wrong_since # -1
          PROVE  /\ rx_at' <= WrongSince' /\ NextAt' <= WrongSince' + PERIOD
                 /\ wake' + MaxLag <= WrongSince' + PERIOD + Overdue
      <3>1. wake' \in Nat
        BY <1>1, <2>1 DEF Sleep, Reckoning
      <3> QED
        BY <1>1, <1>2, <1>3, <2>2, <2>3, <2>4, <3>1
           DEF AttemptInTime, Reckoning, WrongSince
    <2>5. AttemptInTime'
      BY <1>2, <2>1, <2>4 DEF AttemptInTime, Outdated, Overdue
    <2> QED
      BY <1>3, <2>2, <2>5
  <1> QED
    BY <1>4, <1>5

LEMMA CopyInTime ==
    ASSUME TimesAreShort, StatusInv, CopyLow \/ CopyHigh
    PROVE  OnSchedule' /\ HistoryFollows' /\ AttemptInTime'
  <1>1. Reckoning /\ OnSchedule /\ HistoryFollows /\ AttemptInTime
    BY StatusReckoning DEF StatusInv
  <1>2. /\ UNCHANGED <<tick, uptime, status, s_next_body_status_tick, now, bus, busy, wake,
                       rx_at, wrong_since>>
        /\ InRound /\ InRound' /\ pc' \notin {"sleep", "due"}
    BY DEF CopyLow, CopyHigh, wire, ghosts, InRound
  <1>3. /\ WrongSince' = WrongSince /\ HistoryFollows' /\ NextAt' = NextAt /\ NowAt' = NowAt
    BY <1>1, <1>2
       DEF WrongSince, RefusedTime, HistoryFollows, Fresh, NextAt, NowAt, status
  <1>4. OnSchedule'
    BY <1>1, <1>2, <1>3 DEF OnSchedule, Overdue
  <1>5. Outdated' => NowAt <= rx_at
    <2>1. CASE CopyLow
      <3>1. pc' = "high" /\ data'[1] = s_body_status'[1]
        BY <1>1, <2>1 DEF CopyLow, status
      <3> QED
        BY <3>1 DEF Outdated
    <2>2. CASE CopyHigh
      <3>1. pc = "high" /\ pc' = "send" /\ data' = <<data[1], s_body_status[2]>>
            /\ s_body_status' = s_body_status
        BY <2>2 DEF CopyHigh, status
      <3>2. s_body_status = <<s_body_status[1], s_body_status[2]>>
        BY <1>1 DEF Reckoning
      <3>3. Outdated' => Outdated
        BY <3>1, <3>2 DEF Outdated
      <3> QED
        BY <1>1, <3>3 DEF AttemptInTime
    <2> QED
      BY <2>1, <2>2
  <1>6. AttemptInTime'
    BY <1>1, <1>2, <1>3, <1>5 DEF AttemptInTime, Overdue
  <1> QED
    BY <1>3, <1>4, <1>6

LEMMA SendStatusInTime ==
    ASSUME TimesAreShort, StatusInv, SendStatus
    PROVE  OnSchedule' /\ HistoryFollows' /\ AttemptInTime'
  <1>1. Reckoning /\ OnSchedule /\ HistoryFollows /\ AttemptInTime
    BY StatusReckoning DEF StatusInv
  <1>2. /\ tick' = tick /\ uptime' = uptime /\ rx_at' = rx_at /\ Sleep /\ Track
        /\ s_next_body_status_tick' = TickPlus(now, PERIOD)
        /\ pc = "send" /\ pc' = "sleep" /\ InRound
        /\ s_body_status' = s_body_status
    BY DEF SendStatus, Sleep, InRound, status
  <1>3. /\ OnSchedule' /\ NextAt' = NowAt + PERIOD
        /\ wake' + MaxLag <= NowAt + PERIOD + Overdue
    BY <1>1, <1>2, RoundEnds
  <1>4. /\ HistoryFollows'
        /\ wrong_since' # -1 =>
             /\ bus' # s_body_status'
             /\ wrong_since' = uptime \/ (wrong_since' = wrong_since /\ wrong_since # -1)
    <2>1. uptime \in Nat /\ uptime' \in Nat /\ uptime <= uptime' /\ wrong_since \in Int
      BY <1>1, <1>2 DEF Reckoning
    <2> QED
      BY <1>1, <1>2, <2>1, TrackFacts
  <1>5. ASSUME wrong_since' # -1
        PROVE  /\ WrongSince' \in Int /\ NowAt <= WrongSince' /\ rx_at <= WrongSince'
    <2>1. rx_at <= uptime /\ NowAt <= uptime
      BY <1>1 DEF StatusInv, FreshInv, TrueAges, Reckoning
    <2>2. busy' \in {busy, busy + 1}
      BY DEF SendStatus, SendTo
    <2>3. CASE wrong_since' = uptime
      <3>1. WrongSince' \in Int /\ uptime <= WrongSince'
        BY <1>1, <2>2, <2>3, WrongNow
      <3> QED
        BY <1>1, <2>1, <3>1 DEF Reckoning
    <2>4. CASE wrong_since' = wrong_since /\ wrong_since # -1 /\ busy' = busy + 1
      <3>1. WrongSince' \in Int /\ uptime <= WrongSince'
        BY <1>1, <2>4, RefusedInTime
      <3> QED
        BY <1>1, <2>1, <3>1 DEF Reckoning
    <2>5. CASE wrong_since' = wrong_since /\ wrong_since # -1 /\ busy' = busy
      <3>1. bus' = data
        BY <1>1, <2>5 DEF SendStatus, SendTo, Reckoning
      <3>2. Outdated
        BY <1>2, <1>4, <1>5, <3>1 DEF Outdated
      <3>3. NowAt <= rx_at /\ rx_at <= WrongSince
        BY <1>1, <2>5, <3>2 DEF AttemptInTime
      <3>4. WrongSince' = WrongSince /\ WrongSince \in Int
        BY <1>1, <2>5, RefusedFacts DEF WrongSince, Reckoning
      <3> QED
        BY <1>1, <3>3, <3>4 DEF Reckoning
    <2> QED
      BY <1>4, <1>5, <2>2, <2>3, <2>4, <2>5
  <1>6. ~Outdated'
    BY <1>2 DEF Outdated
  <1>7. ASSUME wrong_since' # -1
        PROVE  /\ rx_at' <= WrongSince' /\ NextAt' <= WrongSince' + PERIOD
               /\ wake' + MaxLag <= WrongSince' + PERIOD + Overdue
    <2>1. wake' \in Nat
      BY <1>1, <1>2 DEF Sleep, Reckoning
    <2> QED
      BY <1>1, <1>2, <1>3, <1>5, <1>7, <2>1 DEF Reckoning
  <1> QED
    BY <1>3, <1>4, <1>6, <1>7 DEF AttemptInTime, Overdue
LEMMA AdvanceTickInTime ==
    ASSUME TimesAreShort, StatusInv, AdvanceTick
    PROVE  OnSchedule' /\ HistoryFollows' /\ AttemptInTime'
  <1>1. Reckoning /\ OnSchedule /\ HistoryFollows /\ AttemptInTime
    BY StatusReckoning DEF StatusInv
  <1>2. /\ tick' = TickPlus(tick, 1) /\ uptime' = uptime + 1 /\ uptime < wake + MaxLag
        /\ UNCHANGED <<status, s_next_body_status_tick, pc, now, data, bus, busy, wake, rx_at>>
        /\ Track /\ (InRound' <=> InRound) /\ (Outdated' <=> Outdated)
    BY DEF AdvanceTick, status, locals, wire, InRound, Outdated
  <1>3. Fresh' => Fresh
    BY <1>1, <1>2 DEF Fresh, Reckoning, status
  <1>4. NextAt' = NextAt
    <2> DEFINE a == Ahead(tick, s_next_body_status_tick)
    <2>1. a \in Int /\ NextAt = uptime + a
      BY <1>1, AheadType DEF Reckoning, NextAt
    <2>2. uptime + 1 <= uptime + a + Overdue
      BY <1>1, <1>2, <2>1 DEF OnSchedule, Reckoning
    <2>3. 2 * (1 - a) < TICK_MOD
      BY <1>1, <2>1, <2>2 DEF Reckoning
    <2>4. Ahead(tick', s_next_body_status_tick') = a - 1
      BY <1>1, <1>2, <2>3, AheadAdvance DEF Reckoning
    <2>5. NextAt' = uptime' + Ahead(tick', s_next_body_status_tick')
      BY DEF NextAt
    <2> HIDE DEF a
    <2> QED
      BY <1>1, <1>2, <2>1, <2>4, <2>5 DEF Reckoning
  <1>5. InRound => NowAt' = NowAt
    <2> DEFINE lag == tick_elapsed(tick, now)
    <2>1. SUFFICES ASSUME InRound PROVE NowAt' = NowAt
      OBVIOUS
    <2>2. lag < TICK_MOD - 1
      BY <1>1, <1>2, <2>1 DEF Reckoning
    <2>3. tick_elapsed(tick', now') = lag + 1
      BY <1>1, <1>2, <2>2, ElapsedFacts DEF Reckoning
    <2>4. NowAt' = uptime' - tick_elapsed(tick', now')
      BY DEF NowAt
    <2> HIDE DEF lag
    <2>5. NowAt = uptime - lag /\ lag \in Nat
      BY <1>1 DEF Reckoning, lag
    <2> QED
      BY <1>1, <1>2, <2>3, <2>4, <2>5 DEF Reckoning
  <1>6. OnSchedule'
    BY <1>1, <1>2, <1>4 DEF OnSchedule, Reckoning, Overdue
  <1>7. /\ HistoryFollows'
        /\ wrong_since' # -1 =>
             Fresh' /\ (wrong_since' = uptime' \/ wrong_since' = wrong_since)
    <2>1. uptime \in Nat /\ uptime' \in Nat /\ uptime <= uptime'
          /\ wrong_since \in Int
      BY <1>1, <1>2 DEF Reckoning
    <2> QED
      BY <1>1, <1>2, <2>1, TrackFacts
  <1>8. wrong_since' # -1 => wrong_since # -1 /\ WrongSince' >= WrongSince /\ WrongSince' \in Int
    <2>1. RefusedTime' = RefusedTime
      BY <1>1, <1>2, RefusedFacts
    <2> QED
      BY <1>1, <1>2, <1>3, <1>7, <2>1 DEF HistoryFollows, WrongSince, Reckoning, status
  <1>9. Outdated' => NowAt' <= rx_at'
    BY <1>1, <1>2, <1>5 DEF AttemptInTime, Outdated, InRound
  <1>10. ASSUME wrong_since' # -1
         PROVE  /\ rx_at' <= WrongSince'
                /\ pc' \in {"sleep", "due"} => NextAt' <= WrongSince' + PERIOD
                /\ wake' + MaxLag <= WrongSince' + PERIOD + Overdue
    <2>1. /\ rx_at <= WrongSince
          /\ pc \in {"sleep", "due"} => NextAt <= WrongSince + PERIOD
          /\ wake + MaxLag <= WrongSince + PERIOD + Overdue
      BY <1>1, <1>8, <1>10 DEF AttemptInTime
    <2>2. WrongSince \in Int
      BY <1>1 DEF WrongSince, Reckoning
    <2> QED
      BY <1>1, <1>2, <1>4, <1>8, <1>10, <2>1, <2>2 DEF Reckoning
  <1> QED
    BY <1>6, <1>7, <1>9, <1>10 DEF AttemptInTime, Overdue
LEMMA StatusInit ==
    ASSUME TimesAreShort
    PROVE  Init => StatusInv
  <1> SUFFICES ASSUME Init PROVE StatusInv
    OBVIOUS
  <1>1. FreshInv
    BY TypeInit, BodyAssumption, TickModAssumption
       DEF Init, FreshInv, InRound, NowAt, RoundInTime, TrueAges, RoundOnFreshData, NoStaleStatus
  <1>2. 0 \in Tick
    BY TickModAssumption DEF Tick
  <1>3. NextAt = 0
    BY <1>2, AheadType DEF Init, NextAt
  <1>4. OnSchedule
    BY <1>3, BodyAssumption DEF Init, OnSchedule, InRound, Overdue
  <1>5. HistoryFollows /\ AttemptInTime
    BY DEF Init, HistoryFollows, Fresh, AttemptInTime, Outdated
  <1> QED
    BY <1>1, <1>4, <1>5 DEF StatusInv

LEMMA StatusStep ==
    ASSUME TimesAreShort, StatusInv, [Next]_vars
    PROVE  StatusInv'
  <1>1. FreshInv'
    BY FreshStep DEF StatusInv
  <1>2. ASSUME UNCHANGED vars
        PROVE  OnSchedule' /\ HistoryFollows' /\ AttemptInTime'
    BY <1>2 DEF vars, status, locals, wire, ghosts, StatusInv, OnSchedule, HistoryFollows,
                AttemptInTime, NextAt, NowAt, InRound, Outdated, Fresh, WrongSince, RefusedTime
  <1> QED
    BY <1>1, <1>2, OnRxInTime, ReadNowInTime, CheckDueInTime, CheckRecentInTime, CopyInTime,
       SendStatusInTime, AdvanceTickInTime
       DEF Next, GatewayTask, ClusterTask, StatusInv

LEMMA StatusInvImplies ==
    ASSUME TimesAreShort, StatusInv
    PROVE  StatusErrorHeals
  <1>1. Reckoning
    BY StatusReckoning
  <1>2. Patience = RefusedTime + PERIOD + Overdue /\ Patience \in Nat
    <2> DEFINE p == PERIOD + Overdue
    <2>1. p \in Nat /\ busy \in Nat
      BY <1>1 DEF Reckoning
    <2>2. (busy + 1) * p = busy * p + p /\ busy * p \in Nat
      BY <2>1, WaitedLonger
    <2>3. Patience = RefusedTime + p
      BY <2>2 DEF Patience, RefusedTime
    <2> QED
      BY <1>1, <2>1, <2>3 DEF Reckoning
  <1>3. wrong_since # -1 => uptime <= wrong_since + Patience
    BY <1>1, <1>2 DEF StatusInv, AttemptInTime, WrongSince, Reckoning
  <1> QED
    BY <1>1, <1>2, <1>3 DEF StatusErrorHeals, Reckoning

\* While Board D is alive an overtaken or torn keep-alive is replaced by the newest
\* payload within a period, a delay and the lateness of two rounds, with a period more
\* for each frame that found the mailboxes full, whenever OnRx cuts into the copy and
\* wherever the tick wraps.
THEOREM StatusIsCorrected ==
    ASSUME TimesAreShort
    PROVE  Spec => []StatusErrorHeals
  BY StatusInit, StatusStep, StatusInvImplies, PTL DEF Spec

-----------------------------------------------------------------------------
(* Board D: the types.  A command carries partial assignments of the fields.   *)

Assignments == UNION {[F -> BOOLEAN] : F \in SUBSET Fields}

CommandType ==
    [mode : Modes \cup {"keep"}, writes : Seq(Assignments), override : Overrides \cup {"keep"}]

LEMMA SetIsAssignment ==
    ASSUME NEW F \in SUBSET Fields, NEW v \in BOOLEAN
    PROVE  Set(F, v) \in Assignments
  BY DEF Set, Assignments

LEMMA DoesType ==
    ASSUME NEW mode \in Modes \cup {"keep"}, NEW writes \in Seq(Assignments),
           NEW override \in Overrides \cup {"keep"}
    PROVE  Does(mode, writes, override) \in CommandType
  BY DEF Does, CommandType

LEMMA WritesType ==
    /\ <<>> \in Seq(Assignments)
    /\ \A w \in Assignments : <<w>> \in Seq(Assignments)
    /\ \A w, x \in Assignments : <<w, x>> \in Seq(Assignments)
  OBVIOUS

LEMMA CommandsAreTyped == AllCommands \subseteq CommandType
  <1>0. /\ {"gpio", "uart", "keep"} \subseteq Modes \cup {"keep"} /\ Modes \subseteq Modes \cup {"keep"}
        /\ {"auto", "keep"} \subseteq Overrides \cup {"keep"}
    BY DEF Modes, Overrides
  <1>1. AllOff \in Assignments
    BY DEF AllOff, Assignments
  <1>2. Doors \subseteq Fields /\ Lamps \subseteq Fields /\ Buttons \subseteq Fields
    BY DEF Fields, Switches
  <1>3. handle_mode \cup handle_ign \cup handle_reset \subseteq CommandType
    <2>1. ASSUME NEW c \in handle_mode
          PROVE  c \in CommandType
      BY <1>0, <2>1, DoesType, WritesType DEF handle_mode
    <2>2. ASSUME NEW c \in handle_ign
          PROVE  c \in CommandType
      BY <1>0, <2>2, DoesType, WritesType DEF handle_ign
    <2>3. <<AllOff>> \in Seq(Assignments)
      BY <1>1, WritesType
    <2>4. Does("gpio", <<AllOff>>, "auto") \in CommandType
      BY <1>0, <2>3, DoesType
    <2> QED
      BY <2>1, <2>2, <2>4 DEF handle_reset
  <1>4. ASSUME NEW F \in SUBSET Fields, NEW v \in BOOLEAN
        PROVE  Sets(F, v) \in CommandType
    BY <1>0, SetIsAssignment, DoesType, WritesType DEF Sets
  <1>a. ASSUME NEW f \in Fields, NEW v \in BOOLEAN
        PROVE  Sets({f}, v) \in CommandType
    BY <1>4
  <1>5. handle_door \subseteq CommandType
    BY <1>2, <1>4 DEF handle_door
  <1>6. ASSUME NEW c \in handle_lamp_field
        PROVE  c \in CommandType
    <2>1. PICK l \in Lamps, v \in BOOLEAN : c = Sets({l}, v)
      BY DEF handle_lamp_field
    <2> QED
      BY <1>2, <1>a, <2>1
  <1>7. handle_turn \subseteq CommandType
    <2>1. ASSUME NEW b \in Buttons, NEW v \in BOOLEAN
          PROVE  SetsBoth(b, v) \in CommandType
      <3>1. Set({b}, v) \in Assignments /\ Set(Buttons \ {b}, v) \in Assignments
        BY <1>2, SetIsAssignment
      <3> QED
        BY <1>0, <3>1, DoesType, WritesType DEF SetsBoth
    <2>2. ASSUME NEW c \in {Sets({b}, v) : b \in Buttons, v \in BOOLEAN}
          PROVE  c \in CommandType
      <3>1. PICK b \in Buttons, v \in BOOLEAN : c = Sets({b}, v)
        OBVIOUS
      <3> QED
        BY <1>2, <1>a, <3>1
    <2>3. ASSUME NEW c \in {SetsBoth(b, v) : b \in Buttons \cap {"turn_left"}, v \in BOOLEAN}
          PROVE  c \in CommandType
      <3>1. PICK b \in Buttons \cap {"turn_left"}, v \in BOOLEAN : c = SetsBoth(b, v)
        OBVIOUS
      <3> QED
        BY <2>1, <3>1
    <2> QED
      BY <2>2, <2>3 DEF handle_turn
  <1>8. handle_all \subseteq CommandType
    <2>1. Does("uart", <<AllOff>>, "keep") \in CommandType
      BY <1>0, <1>1, DoesType, WritesType
    <2> QED
      BY <1>2, <1>4, <2>1 DEF handle_all
  <1> QED
    BY <1>3, <1>5, <1>6, <1>7, <1>8 DEF AllCommands

\* Between two commands none is left over.
CommandOK == cmd \in CommandType /\ (pc_cli = "idle" => cmd.writes = <<>>)

BcmInv == BcmTypeOK /\ CommandOK

LEMMA BcmInit == Bcm_Init => BcmInv
  <1> SUFFICES ASSUME Bcm_Init
               PROVE  BcmInv
    OBVIOUS
  <1> USE DEF Bcm_Init
  <1>1. AllOff \in Input
    BY DEF AllOff, Input
  <1>2. cmd \in CommandType /\ cmd.writes = <<>>
    BY DEF NoCommand, Does, CommandType
  <1>3. SAMPLES \in Nat \ {0}
    BY BcmAssumption
  <1>4. button \in [Buttons -> [raw_active : BOOLEAN, same_count : 0 .. SAMPLES,
                                stable_active : BOOLEAN]]
    BY <1>3
  <1>5. samples \in [Buttons -> [1 .. SAMPLES -> BOOLEAN]] /\ armed \in [Buttons -> BOOLEAN]
        /\ settled \in [Fields -> SUBSET BOOLEAN]
    OBVIOUS
  <1>6. /\ s_state \in Input /\ pins \in Input /\ polled \in Input /\ copy \in Input
        /\ s_mode \in Modes /\ s_ign_override \in Overrides
    BY <1>1 DEF Input, Modes, Overrides
  <1>7. BcmTypeOK
    BY <1>2, <1>4, <1>5, <1>6 DEF BcmTypeOK
  <1> QED
    BY <1>2, <1>7 DEF BcmInv, CommandOK

\* The readings of a button move up by one.
LEMMA Reading ==
    ASSUME NEW s \in [1 .. SAMPLES -> BOOLEAN], NEW v \in BOOLEAN
    PROVE  /\ Append(Tail(s), v) \in [1 .. SAMPLES -> BOOLEAN]
           /\ Append(Tail(s), v)[SAMPLES] = v
           /\ \A i \in 1 .. SAMPLES - 1 : Append(Tail(s), v)[i] = s[i + 1]
  <1>1. SAMPLES \in Nat \ {0}
    BY BcmAssumption
  <1>2. s \in Seq(BOOLEAN) /\ Len(s) = SAMPLES
    BY <1>1
  <1>3. Tail(s) \in Seq(BOOLEAN) /\ Len(Tail(s)) = SAMPLES - 1
        /\ \A i \in 1 .. SAMPLES - 1 : Tail(s)[i] = s[i + 1]
    BY <1>1, <1>2
  <1>4. Append(Tail(s), v) \in Seq(BOOLEAN) /\ Len(Append(Tail(s), v)) = SAMPLES
    BY <1>1, <1>3
  <1>5. Append(Tail(s), v) \in [1 .. SAMPLES -> BOOLEAN]
    BY <1>4, LenProperties
  <1> QED
    BY <1>1, <1>3, <1>5

LEMMA DebouncedType ==
    ASSUME NEW b \in [raw_active : BOOLEAN, same_count : 0 .. SAMPLES, stable_active : BOOLEAN],
           NEW raw \in BOOLEAN
    PROVE  Debounced(b, raw) \in
               [raw_active : BOOLEAN, same_count : 0 .. SAMPLES, stable_active : BOOLEAN]
  BY BcmAssumption DEF Debounced

LEMMA ContinueType ==
    ASSUME NEW writes \in Seq(Assignments), cmd \in CommandType, Continue(writes)
    PROVE  /\ cmd' \in CommandType
           /\ pc_cli' \in {"idle", "read"}
           /\ pc_cli' = "read" => cmd'.writes # <<>>
           /\ pc_cli' = "idle" => cmd'.writes = <<>>
  <1>1. NoCommand \in CommandType /\ NoCommand.writes = <<>>
    BY DEF NoCommand, Does, CommandType
  <1> QED
    BY <1>1 DEF Continue, CommandType

LEMMA BcmStep ==
    ASSUME BcmInv, [Bcm_Next]_bcm
    PROVE  BcmInv'
  <1> USE DEF BcmInv, CommandOK, BcmTypeOK
  <1>a. Buttons \subseteq Fields /\ Switches \subseteq Fields
    BY DEF Fields
  <1>1. CASE PollBegin
    BY <1>1 DEF PollBegin, cli, world
  <1>2. CASE PollCopy
    BY <1>2 DEF PollCopy, cli, world
  <1>3. CASE PollPins
    <2>1. polled' \in Input
      BY <1>3, <1>a DEF PollPins, Input
    <2>2. button' \in [Buttons -> [raw_active : BOOLEAN, same_count : 0 .. SAMPLES,
                                   stable_active : BOOLEAN]]
      <3>1. \A b \in Buttons : pins[b] \in BOOLEAN
        BY <1>a DEF Input
      <3> QED
        BY <1>3, <3>1, DebouncedType DEF PollPins
    <2>3. samples' \in [Buttons -> [1 .. SAMPLES -> BOOLEAN]]
      <3>1. \A b \in Buttons : pins[b] \in BOOLEAN
        BY <1>a DEF Input
      <3>2. \A b \in Buttons : Append(Tail(samples[b]), pins[b]) \in [1 .. SAMPLES -> BOOLEAN]
        BY <3>1, Reading
      <3> QED
        BY <1>3, <3>2 DEF PollPins
    <2>4. armed' \in [Buttons -> BOOLEAN]
      BY <1>3, Zenon DEF PollPins
    <2> QED
      BY <1>3, <2>1, <2>2, <2>3, <2>4 DEF PollPins, cli, world
  <1>4. CASE PollWrite
    <2>1. polled' \in Input
      BY <1>4 DEF PollWrite, AllOff, Input
    <2> QED
      BY <1>4, <2>1 DEF PollWrite, cli, world
  <1>5. CASE SetMode
    <2>1. cmd.writes \in Seq(Assignments)
      BY DEF CommandType
    <2>2. /\ s_mode' \in Modes /\ s_ign_override' \in Overrides
          /\ settled' \in [Fields -> SUBSET BOOLEAN]
      BY <1>5 DEF SetMode, CommandType
    <2> QED
      BY <1>5, <2>1, <2>2, ContinueType DEF SetMode, input, world
  <1>6. CASE ReadState
    BY <1>6 DEF ReadState, input, world
  <1>7. CASE WriteState
    <2> DEFINE w == Head(cmd.writes)
    <2>1. w \in Assignments /\ Tail(cmd.writes) \in Seq(Assignments)
      BY <1>7 DEF WriteState, CommandType
    <2>2. \A f \in Fields : f \in DOMAIN w => w[f] \in BOOLEAN
      BY <2>1 DEF Assignments
    <2>3. s_state' \in Input
      BY <1>7, <2>2 DEF WriteState, Input
    <2>4. settled' \in [Fields -> SUBSET BOOLEAN]
      BY <1>7, <2>2 DEF WriteState
    <2>5. copy' \in Input
      BY <1>7 DEF WriteState, AllOff, Input
    <2> QED
      BY <1>7, <2>1, <2>3, <2>4, <2>5, ContinueType DEF WriteState, input, world
  <1>8. CASE SendBodyStatus
    BY <1>8 DEF SendBodyStatus, input, cli, world
  <1>9. ASSUME NEW c \in Commands, Type(c)
        PROVE  BcmInv'
    <2>1. c \in CommandType
      BY BcmAssumption, CommandsAreTyped
    <2> QED
      BY <1>9, <2>1 DEF Type, input, world
  <1>10. ASSUME NEW f \in Fields, MovePin(f)
         PROVE  BcmInv'
    <2>1. pins' \in Input
      BY <1>10 DEF MovePin, Input
    <2> QED
      BY <1>10, <2>1 DEF MovePin, input, cli
  <1>11. CASE Ignition
    BY <1>11 DEF Ignition, input, cli
  <1>12. CASE UNCHANGED bcm
    BY <1>12 DEF bcm, input, cli, world
  <1> QED
    BY <1>1, <1>2, <1>3, <1>4, <1>5, <1>6, <1>7, <1>8, <1>9, <1>10, <1>11, <1>12
       DEF Bcm_Next, InputTask, Command, Driver

-----------------------------------------------------------------------------
(* A value that a command has settled.                                         *)

\* As long as a field has a settled value no poll is under way, and a command that
\* has copied the state has copied that value.
HoldInv ==
    \A f \in Fields :
        settled[f] # BOOLEAN =>
            s_mode = "uart" /\ pc_poll = "wait" /\ (pc_cli = "write" => copy[f] \in settled[f])

LEMMA HoldStep ==
    ASSUME BcmInv, UartValueHolds, HoldInv, [Bcm_Next]_bcm
    PROVE  (UartValueHolds /\ HoldInv)'
  <1> USE DEF UartValueHolds, HoldInv
  <1>a. /\ s_state \in [Fields -> BOOLEAN] /\ polled \in [Fields -> BOOLEAN]
        /\ copy \in [Fields -> BOOLEAN] /\ settled \in [Fields -> SUBSET BOOLEAN]
    BY DEF BcmInv, BcmTypeOK, Input
  <1>1. CASE PollBegin \/ PollCopy \/ PollPins
    BY <1>1 DEF PollBegin, PollCopy, PollPins, cli
  <1>2. CASE PollWrite
    <2>1. \A f \in Fields : settled[f] = BOOLEAN
      BY <1>2 DEF PollWrite
    <2> QED
      BY <1>2, <1>a, <2>1 DEF PollWrite, cli
  <1>3. CASE SetMode
    <2>1. pc_cli' # "write"
      BY <1>3 DEF SetMode, Continue
    <2>2. CASE cmd.mode = "gpio"
      BY <1>3, <1>a, <2>1, <2>2 DEF SetMode, input
    <2>3. CASE cmd.mode # "gpio"
      <3>1. cmd.mode \in {"keep", "uart"}
        BY <2>3 DEF BcmInv, CommandOK, CommandType, Modes
      <3> QED
        BY <1>3, <2>1, <2>3, <3>1 DEF SetMode, input
    <2> QED
      BY <2>2, <2>3
  <1>4. CASE ReadState
    BY <1>4 DEF ReadState, input
  <1>5. CASE WriteState
    <2> DEFINE w == Head(cmd.writes)
    <2>1. w \in Assignments
      BY <1>5 DEF WriteState, CommandType, BcmInv, BcmTypeOK, CommandOK
    <2>2. \A f \in Fields : f \in DOMAIN w => w[f] \in BOOLEAN
      BY <2>1 DEF Assignments
    <2>3. pc_cli' # "write"
      BY <1>5 DEF WriteState, Continue
    <2>4. s_state' = [f \in Fields |-> IF f \in DOMAIN w THEN w[f] ELSE copy[f]]
          /\ UNCHANGED <<s_mode, pc_poll>> /\ pc_cli = "write"
      BY <1>5 DEF WriteState, input
    <2>5. CASE s_mode = "uart" /\ pc_poll = "wait"
      <3>1. settled' = [f \in Fields |-> IF f \in DOMAIN w THEN {w[f]} ELSE settled[f]]
        BY <1>5, <2>5 DEF WriteState
      <3> QED
        BY <1>a, <2>2, <2>3, <2>4, <2>5, <3>1
    <2>6. CASE ~(s_mode = "uart" /\ pc_poll = "wait")
      <3>1. settled' = settled
        BY <1>5, <2>6 DEF WriteState
      <3>2. \A f \in Fields : settled[f] = BOOLEAN
        BY <2>6
      <3> QED
        BY <1>a, <2>2, <2>3, <2>4, <3>1, <3>2
    <2> QED
      BY <2>5, <2>6
  <1>6. ASSUME NEW c \in Commands, Type(c)
        PROVE  (UartValueHolds /\ HoldInv)'
    BY <1>6 DEF Type, input
  <1>7. ASSUME NEW f \in Fields, MovePin(f) \/ Ignition
        PROVE  (UartValueHolds /\ HoldInv)'
    BY <1>7 DEF MovePin, Ignition, input, cli
  <1>8. CASE SendBodyStatus \/ Ignition \/ UNCHANGED bcm
    BY <1>8 DEF SendBodyStatus, Ignition, bcm, input, cli
  <1> QED
    BY <1>1, <1>2, <1>3, <1>4, <1>5, <1>6, <1>7, <1>8 DEF Bcm_Next, InputTask, Command, Driver

-----------------------------------------------------------------------------
(* The debounced buttons.                                                      *)

\* The counter counts readings that were made, and a button that counts as released
\* has been read so often enough to be pressed again.
ButtonInv ==
    \A b \in Buttons :
        /\ ~button[b].stable_active => armed[b]
        /\ \A i \in 1 .. SAMPLES :
             i >= SAMPLES - button[b].same_count => samples[b][i] = button[b].raw_active

\* What a change of the debounced state takes.
LEMMA Repeated ==
    ASSUME BcmInv, ButtonInv, NEW b \in Buttons,
           Debounced(button[b], pins[b]).stable_active # button[b].stable_active
    PROVE  /\ Debounced(button[b], pins[b]).stable_active = pins[b]
           /\ \A i \in 1 .. SAMPLES : samples[b][i] = pins[b]
  <1>1. SAMPLES \in Nat \ {0}
    BY BcmAssumption
  <1>2. button[b] \in [raw_active : BOOLEAN, same_count : 0 .. SAMPLES, stable_active : BOOLEAN]
    BY DEF BcmInv, BcmTypeOK
  <1>3. pins[b] = button[b].raw_active /\ button[b].same_count + 1 >= SAMPLES
        /\ Debounced(button[b], pins[b]).stable_active = pins[b]
    BY <1>1, <1>2 DEF Debounced
  <1>4. \A i \in 1 .. SAMPLES : i >= SAMPLES - button[b].same_count
    BY <1>1, <1>2, <1>3
  <1> QED
    BY <1>3, <1>4 DEF ButtonInv

LEMMA PinsStep ==
    ASSUME BcmInv, ButtonInv, PollPins
    PROVE  ButtonInv'
  <1> SUFFICES ASSUME NEW b \in Buttons
               PROVE  /\ ~button'[b].stable_active => armed'[b]
                      /\ \A i \in 1 .. SAMPLES :
                           i >= SAMPLES - button'[b].same_count
                           => samples'[b][i] = button'[b].raw_active
    BY DEF ButtonInv
  <1> DEFINE old == button[b]
             new == Debounced(old, pins[b])
  <1>1. SAMPLES \in Nat \ {0} /\ pins[b] \in BOOLEAN /\ samples[b] \in [1 .. SAMPLES -> BOOLEAN]
        /\ old \in [raw_active : BOOLEAN, same_count : 0 .. SAMPLES, stable_active : BOOLEAN]
    BY BcmAssumption DEF BcmInv, BcmTypeOK, Input, Fields
  <1>2. button'[b] = new /\ samples'[b] = Append(Tail(samples[b]), pins[b])
    BY DEF PollPins
  <1>3. armed'[b] <=> (IF Pressed(old, pins[b]) THEN FALSE
                       ELSE armed[b] \/ \A s \in {pins[b]} \cup {samples[b][i] : i \in 1 .. SAMPLES} : ~s)
    BY Zenon DEF PollPins
  <1>4. ~new.stable_active => armed'[b]
    <2>1. CASE new.stable_active = old.stable_active
      BY <1>3, <2>1 DEF Pressed, ButtonInv
    <2>2. CASE new.stable_active # old.stable_active
      <3>1. new.stable_active = pins[b] /\ \A i \in 1 .. SAMPLES : samples[b][i] = pins[b]
        BY <2>2, Repeated
      <3> QED
        BY <1>3, <3>1, Zenon DEF Pressed
    <2> QED
      BY <2>1, <2>2
  <1>5. ASSUME NEW i \in 1 .. SAMPLES, i >= SAMPLES - new.same_count
        PROVE  samples'[b][i] = new.raw_active
    <2>1. new.raw_active = pins[b]
      BY DEF Debounced
    <2>2. CASE i = SAMPLES
      BY <1>1, <1>2, <2>1, <2>2, Reading
    <2>3. CASE i # SAMPLES
      <3>1. new.same_count # 0 /\ i \in 1 .. SAMPLES - 1
        BY <1>1, <1>5, <2>3, DebouncedType
      <3>2. pins[b] = old.raw_active /\ new.same_count <= old.same_count + 1
        BY <1>1, <3>1 DEF Debounced
      <3>3. i + 1 \in 1 .. SAMPLES /\ i + 1 >= SAMPLES - old.same_count
        <4>1. new.same_count \in Nat
          BY <1>1, DebouncedType
        <4> QED
          BY <1>1, <1>5, <3>1, <3>2, <4>1
      <3>4. samples[b][i + 1] = old.raw_active
        BY <3>3 DEF ButtonInv
      <3> QED
        BY <1>1, <1>2, <2>1, <3>1, <3>2, <3>4, Reading
    <2> QED
      BY <2>2, <2>3
  <1> QED
    BY <1>2, <1>4, <1>5

LEMMA ButtonStep ==
    ASSUME BcmInv, ButtonInv, [Bcm_Next]_bcm
    PROVE  ButtonInv'
  <1>1. CASE PollPins
    BY <1>1, PinsStep
  <1>2. CASE UNCHANGED <<button, samples, armed>>
    BY <1>2 DEF ButtonInv
  <1> QED
    BY <1>1, <1>2
       DEF Bcm_Next, InputTask, Command, Driver, PollBegin, PollCopy, PollWrite, SetMode,
           ReadState, WriteState, SendBodyStatus, Type, MovePin, Ignition, bcm, input

\* Only a press toggles.
LEMMA ToggleStep ==
    ASSUME BcmInv, ButtonInv, [Bcm_Next]_bcm, NEW b \in Buttons,
           pc_poll = "pins", pc_poll' = "write", polled'[b] # polled[b]
    PROVE  armed[b] /\ pins[b] /\ \A i \in 1 .. SAMPLES : samples[b][i]
  <1>1. PollPins
    BY DEF Bcm_Next, InputTask, Command, Driver, PollBegin, PollCopy, PollWrite, SetMode,
           ReadState, WriteState, SendBodyStatus, Type, MovePin, Ignition, bcm, input
  <1>2. b \in Fields /\ b \notin Switches
    BY BcmAssumption DEF Fields
  <1>3. Pressed(button[b], pins[b])
    BY <1>1, <1>2 DEF PollPins
  <1>4. /\ Debounced(button[b], pins[b]).stable_active /\ ~button[b].stable_active
    BY <1>3 DEF Pressed
  <1> QED
    BY <1>4, Repeated DEF ButtonInv

-----------------------------------------------------------------------------

AllBcm == BcmInv /\ UartValueHolds /\ HoldInv /\ ButtonInv

LEMMA BcmInvariant == Bcm_Spec => []AllBcm
  <1>1. Bcm_Init => UartValueHolds /\ HoldInv
    BY DEF Bcm_Init, UartValueHolds, HoldInv, AllOff
  <1>2. ASSUME Bcm_Init
        PROVE  ButtonInv
    <2>1. \A b \in Buttons : armed[b] /\ button[b].raw_active = FALSE
                            /\ \A i \in 1 .. SAMPLES : samples[b][i] = FALSE
      BY <1>2 DEF Bcm_Init
    <2> QED
      BY <2>1, Zenon DEF ButtonInv
  <1>3. AllBcm /\ [Bcm_Next]_bcm => AllBcm'
    BY BcmStep, HoldStep, ButtonStep DEF AllBcm
  <1> QED
    BY <1>1, <1>2, <1>3, BcmInit, PTL DEF AllBcm, Bcm_Spec

\* bcm_input.c, bcm_cli.c: the flags, the counters and the copies of both tasks keep their
\* types; no counter leaves the debounce limit, and no command loses its writes.
THEOREM BcmTypeCorrect == Bcm_Spec => []BcmTypeOK
  BY BcmInvariant, PTL DEF AllBcm, BcmInv

\* README.md:79 of Board D: in the mode "uart" a value written while no poll was under way
\* stays, however polls and commands interleave and for any doors, lamps and buttons.
THEOREM WrittenValueStays == Bcm_Spec => []UartValueHolds
  BY BcmInvariant, PTL DEF AllBcm

\* bcm_input.c, debounce_pressed: a toggle takes SAMPLES + 1 active readings in a row, and
\* as many inactive ones since the last toggle, through all changes of the mode.
THEOREM TogglesArePresses == Bcm_Spec => OneTogglePerPress
  <1>1. AllBcm /\ [Bcm_Next]_bcm
        => [\A b \in Buttons :
              (pc_poll = "pins" /\ pc_poll' = "write" /\ polled'[b] # polled[b])
              => armed[b] /\ pins[b] /\ \A i \in 1 .. SAMPLES : samples[b][i]]_bcm
    BY ToggleStep DEF AllBcm
  <1> QED
    BY <1>1, BcmInvariant, PTL DEF Bcm_Spec, OneTogglePerPress

=============================================================================
