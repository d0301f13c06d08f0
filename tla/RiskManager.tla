---------------------------- MODULE RiskManager ----------------------------
(***************************************************************************)
(* core/src/risk/RiskManager.{hpp,cpp}: the gate every trade plan passes,  *)
(* with the lookups of NewsCalendar it makes.                              *)
(*                                                                         *)
(* evaluate runs on several threads (the processor thread and the slow     *)
(* tick).  It reads the clock and applies R1-R9 without the lock, then     *)
(* takes mtx_ for R10-R13 and R15, so an evaluation is two actions and the *)
(* clock it judges with may be old by the second.  record_trade_end gets   *)
(* the time BotApp::tick read when it began.  Times are in one clock unit; *)
(* prices, sizes and balances are integers in units in which the value of  *)
(* an order is size * price, percentages and ratios are in hundredths, and *)
(* basis points are cross-multiplied instead of divided.                   *)
(***************************************************************************)
EXTENDS Integers, Sequences, FiniteSetsExt

CONSTANTS
    Threads,          \* threads that call evaluate
    Tickers,
    Requests,         \* arguments of evaluate: [plan, account, listing]
    Calendars,        \* event sets NewsCalendar may be loaded with
    FundingTimes,     \* funding times the feed may announce
    Limits,           \* the Config fields R2-R9 and R15 use, a record
    MaxTrades, TradesWindow, MaxTradeHistory,               \* Config, R10
    MaxLosses, LossWindow, Cooloff, MaxLossHistory,         \* Config, R11
    Minute, NewsBlackout, StaleAfter, RequireFresh,         \* Config, R12
    FundingPre, FundingPost,                                \* Config, R13
    MaxEnded,         \* bound: trades recorded between two resets of the streak
    Horizon           \* bound: the clock stops here

(* The bound on a history is never below the count its rule needs, as in the
   defaults (10000 against 6 and 3). *)
ASSUME RiskConfig ==
    /\ MaxTrades \in Nat \ {0} /\ TradesWindow \in Nat
    /\ MaxTradeHistory \in Nat /\ MaxTrades <= MaxTradeHistory
    /\ MaxLosses \in Nat \ {0} /\ LossWindow \in Nat /\ Cooloff \in Nat
    /\ MaxLossHistory \in Nat /\ MaxLosses <= MaxLossHistory
    /\ Minute \in Nat \ {0}
    /\ FundingTimes \subseteq Nat
    /\ Horizon \in Nat /\ MaxEnded \in Nat

ASSUME RequestShape ==
    /\ Limits.max_per_trade_risk_bp \in Int /\ Limits.max_position_value_pct \in Int
    /\ \A r \in Requests :
          /\ r.plan.entry \in Int /\ r.plan.stop \in Int
          /\ r.account.equity \in Int
          /\ r.listing.size_increment \in Int

Global == "global"      \* the ticker of an event without one

VARIABLES
    now,                   \* the injected clock
    tick_now,              \* the time BotApp::tick read when it began
    calls,                 \* evaluations between the clock read and the lock
    trade_history,         \* trade_history_: times of accepted plans
    loss_history,          \* loss_history_: ends of trades
    last_loss_streak_ts,   \* last_loss_streak_ts_, NoStreak for the epoch
    funding_times, prev_funding_times,
    calendar,              \* the events of NewsCalendar
    decision,              \* the last decision evaluate returned
    accepted,              \* history: times of all accepted plans
    ended,                 \* history: all trade ends since the last reset of the streak
    last_streak            \* history: time of the last streak of losses in ended

gate == <<trade_history, loss_history, last_loss_streak_ts>>
funding == <<funding_times, prev_funding_times>>
history == <<accepted, ended, last_streak>>
vars == <<now, tick_now, calls, gate, funding, calendar, decision, history>>

NoStreak == -1
NoTime == -1
Idle == [at |-> "idle"]
TradeEnds == [ts : Nat, is_loss : BOOLEAN]
NoDecision == [reason |-> "NoDecision"]

Init ==
    /\ now = 0
    /\ tick_now = 0
    /\ calls = [t \in Threads |-> Idle]
    /\ trade_history = <<>>
    /\ loss_history = <<>>
    /\ last_loss_streak_ts = NoStreak
    /\ funding_times = [k \in Tickers |-> NoTime]
    /\ prev_funding_times = [k \in Tickers |-> NoTime]
    /\ calendar \in Calendars
    /\ decision = NoDecision
    /\ accepted = <<>>
    /\ ended = <<>>
    /\ last_streak = NoStreak

-----------------------------------------------------------------------------
(* R1-R9, without the lock *)

Abs(x) == IF x < 0 THEN -x ELSE x

StopDistance(r) == Abs(r.plan.entry - r.plan.stop)

OnSide(r, price, side) ==
    IF r.plan.side = side THEN price < r.plan.entry ELSE price > r.plan.entry

\* max_stop in hundredths of a basis point, widened for thin tickers, at most 100 bps.
MaxStop(r) == Min({Limits.max_stop_bps * r.listing.stop_scale, 10000})

\* Mutant: the number of lots is rounded to nearest.
RoundNearest(size, step) ==
    IF step > 0 THEN ((size + step \div 2) \div step) * step ELSE size

RoundDown(size, step) == IF step > 0 THEN (size \div step) * step ELSE size

\* The fixed-risk size, before any rounding to the instrument.
RawSize(r) ==
    (r.account.equity * Limits.max_per_trade_risk_bp) \div (10000 * StopDistance(r))

HasMeta(r) == r.listing.price_increment > 0 /\ r.listing.size_increment > 0

NormalSize(r) ==
    IF HasMeta(r) THEN RoundDown(RawSize(r), r.listing.size_increment) ELSE RawSize(r)

(* The value cap comes after the check against min_size, which is not made
   again on the capped size. *)
Size(r) ==
    IF NormalSize(r) * r.plan.entry * 100 > r.account.equity * Limits.max_position_value_pct
    THEN RoundDown((r.account.equity * Limits.max_position_value_pct)
                     \div (100 * r.plan.entry), r.listing.size_increment)
    ELSE NormalSize(r)

\* Input checks and R1-R5: the account and the universe.
AccountReason(r) ==
    LET p == r.plan
        a == r.account
        u == r.listing
        listed == p.ticker \in Limits.whitelist
        held == Cardinality({i \in DOMAIN a.active_tickers : a.active_tickers[i] = p.ticker})
    IN  IF a.starting_equity <= 0 \/ Limits.max_leverage <= 0 THEN "InternalError"
        ELSE IF a.kill THEN "KillSwitchActive"
        ELSE IF (a.realized + a.unrealized) * 10000
                  <= -(Limits.max_daily_loss_bp * a.starting_equity)
          THEN "DailyLossLimitHit"
        ELSE IF a.positions >= Limits.max_concurrent_positions THEN "TooManyPositions"
        ELSE IF (held > 0 /\ ~Limits.allow_hedge) \/ held >= Limits.max_positions_per_ticker
          THEN "DuplicatePosition"
        ELSE IF ~u.in_pool /\ ~u.boosted /\ ~listed THEN "NotInUniverse"
        ELSE IF ~u.boosted /\ ~listed /\ ~u.strategy_enabled THEN "NotInUniverse"
        ELSE "None"

\* R6: side and distance of the stop.
StopReason(r) ==
    LET p == r.plan
        dist == StopDistance(r)
    IN  IF p.stop <= 0 THEN "InvalidStopSide"
        ELSE IF dist = 0 THEN "StopTooTight"
        ELSE IF ~OnSide(r, p.stop, "Buy") THEN "InvalidStopSide"
        ELSE IF dist * 10000 < Limits.min_stop_bps * p.entry THEN "StopTooTight"
        ELSE IF dist * 1000000 > MaxStop(r) * p.entry THEN "StopTooWide"
        ELSE "None"

\* R7: sides and reward of the targets.
TargetReason(r) ==
    LET p == r.plan
    IN  IF \/ p.tp1 <= 0
           \/ ~OnSide(r, p.tp1, "Sell")
           \/ Abs(p.tp1 - p.entry) * 100 < Limits.min_rr_ratio * StopDistance(r)
           \/ p.tp2 > 0 /\ ~OnSide(r, p.tp2, "Sell")
        THEN "PoorRewardRisk"
        ELSE "None"

\* R8 and R9: size and margin.
SizeReason(r) ==
    IF HasMeta(r) /\ NormalSize(r) < r.listing.min_size THEN "SizeBelowMinimum"
    ELSE IF Size(r) * r.plan.entry * 100
              > r.account.free_balance * Limits.margin_safety_ratio * Limits.max_leverage
      THEN "InsufficientMargin"
    ELSE "None"

\* The first rule of R1-R9 that rejects, "None" when all pass.
StaticReason(r) ==
    IF r.plan.entry <= 0 THEN "InternalError"
    ELSE IF AccountReason(r) # "None" THEN AccountReason(r)
    ELSE IF StopReason(r) # "None" THEN StopReason(r)
    ELSE IF TargetReason(r) # "None" THEN TargetReason(r)
    ELSE SizeReason(r)

\* evaluate up to the lock: a plan R1-R9 rejects changes nothing.
EvaluateRejected(t, r) ==
    /\ calls[t] = Idle
    /\ StaticReason(r) # "None"
    /\ decision' = [reason |-> StaticReason(r), request |-> r]
    /\ UNCHANGED <<now, tick_now, calls, gate, funding, calendar, history>>

EvaluateBegin(t, r) ==
    /\ calls[t] = Idle
    /\ StaticReason(r) = "None"
    /\ calls' = [calls EXCEPT ![t] = [at |-> "lock", now |-> now, request |-> r]]
    /\ UNCHANGED <<now, tick_now, gate, funding, calendar, decision, history>>

-----------------------------------------------------------------------------
(* R10-R15, under mtx_ *)

(* Popping n entries from the front of a history with these times: first down
   to its capacity, then the ones that at time at are older than window. *)
Dropped(times, n, capacity, at, window) ==
    /\ Len(times) - n <= capacity
    /\ n < Len(times) => at - times[n + 1] <= window
    /\ \A i \in 1..n : Len(times) - i >= capacity \/ at - times[i] > window

Rest(h, n) == SubSeq(h, n + 1, Len(h))

\* Mutant: a trade as old as the window is already forgotten.
ForgetsShort(t, n) ==
    Dropped(trade_history, n, MaxTradeHistory, calls[t].now, TradesWindow - 1)

\* R10 drops n trades from trade_history_, at the clock the call read.
Forgets(t, n) ==
    Dropped(trade_history, n, MaxTradeHistory, calls[t].now, TradesWindow)

\* Mutant: the cooloff ends one unit early.
CoolingShort(t) ==
    last_loss_streak_ts # NoStreak /\ calls[t].now - last_loss_streak_ts < Cooloff - 1

\* R11: the cooloff of the last streak is not over at the clock the call read.
Cooling(t) ==
    last_loss_streak_ts # NoStreak /\ calls[t].now - last_loss_streak_ts < Cooloff

\* minutes_to_next_news over the events of one ticker and the global ones.
NewsAhead(at, who) == {e.ts : e \in {e \in calendar : e.ts >= at /\ e.ticker \in who}}

NewsNear(at, k) ==
    LET ahead == NewsAhead(at, {k, Global})
    IN  ahead # {} /\ (Min(ahead) - at) \div Minute <= NewsBlackout

\* R12b: the last event is long past, or the next global one is far away.
NewsStale(at) ==
    LET all == {e.ts : e \in calendar}
        ahead == NewsAhead(at, {Global})
    IN  \/ all # {} /\ Max(all) <= at /\ (at - Max(all)) \div Minute > StaleAfter
        \/ ahead # {} /\ (Min(ahead) - at) \div Minute > StaleAfter

FundingNear(at, k) ==
    LET next == funding_times[k]
        prev == prev_funding_times[k]
    IN  \/ next # NoTime /\ next - at > 0 /\ next - at <= FundingPre
        \/ prev # NoTime /\ at - prev >= 0 /\ at - prev <= FundingPost

Slipped(r) ==
    r.account.mark > 0 /\ Abs(r.account.mark - r.plan.entry) * 10000
                            > Limits.max_entry_slippage_bps * r.account.mark

\* The first of R12, R12b, R13 and R15 that rejects, "None" when all pass.
LateReason(t) ==
    LET at == calls[t].now
        r == calls[t].request
    IN  IF NewsNear(at, r.plan.ticker) THEN "NewsBlackout"
        ELSE IF RequireFresh /\ NewsStale(at) THEN "NewsBlackout"
        ELSE IF FundingNear(at, r.plan.ticker) THEN "FundingBlackout"
        ELSE IF Slipped(r) THEN "EntrySlippageExceeded"
        ELSE "None"

Return(t, reason) ==
    /\ calls' = [calls EXCEPT ![t] = Idle]
    /\ decision' = [reason |-> reason, request |-> calls[t].request]

\* R10 rejects; the entries it dropped stay dropped.
EvaluateRate(t) ==
    /\ calls[t] # Idle
    /\ \E n \in 0..Len(trade_history) :
          /\ Forgets(t, n)
          /\ Len(trade_history) - n >= MaxTrades
          /\ trade_history' = Rest(trade_history, n)
    /\ Return(t, "TradeRateLimitHit")
    /\ UNCHANGED <<now, tick_now, loss_history, last_loss_streak_ts, funding, calendar, history>>

\* R10 passes, R11 rejects.
EvaluateCooloff(t) ==
    /\ calls[t] # Idle
    /\ \E n \in 0..Len(trade_history) :
          /\ Forgets(t, n)
          /\ Len(trade_history) - n < MaxTrades
          /\ trade_history' = Rest(trade_history, n)
    /\ Cooling(t)
    /\ Return(t, "LossStreakCircuitBreaker")
    /\ UNCHANGED <<now, tick_now, loss_history, last_loss_streak_ts, funding, calendar, history>>

(* R11 lets the plan through: the streak, if there was one, is over and is
   forgotten with the losses that made it, whatever the later rules say. *)
ResetStreak ==
    /\ last_loss_streak_ts' = NoStreak
    /\ loss_history' = IF last_loss_streak_ts # NoStreak THEN <<>> ELSE loss_history
    /\ ended' = IF last_loss_streak_ts # NoStreak THEN <<>> ELSE ended

\* R12-R15 reject.
EvaluateLate(t) ==
    /\ calls[t] # Idle
    /\ \E n \in 0..Len(trade_history) :
          /\ Forgets(t, n)
          /\ Len(trade_history) - n < MaxTrades
          /\ trade_history' = Rest(trade_history, n)
    /\ ~Cooling(t)
    /\ ResetStreak
    /\ LateReason(t) # "None"
    /\ Return(t, LateReason(t))
    /\ UNCHANGED <<now, tick_now, funding, calendar, accepted, last_streak>>

\* All rules pass: the clock is read again for the time of the trade.
EvaluateAccept(t) ==
    /\ calls[t] # Idle
    /\ \E n \in 0..Len(trade_history) :
          /\ Forgets(t, n)
          /\ Len(trade_history) - n < MaxTrades
          /\ trade_history' = Append(Rest(trade_history, n), now)
    /\ ~Cooling(t)
    /\ ResetStreak
    /\ LateReason(t) = "None"
    /\ Return(t, "None")
    /\ accepted' = Append(accepted, now)
    /\ UNCHANGED <<now, tick_now, funding, calendar, last_streak>>

-----------------------------------------------------------------------------
(* The other operations *)

\* BotApp::tick reads its clock; the trades it processes are recorded with it.
TickBegin ==
    /\ tick_now' = now
    /\ UNCHANGED <<now, calls, gate, funding, calendar, decision, history>>

\* consecutive_losses >= max_consecutive_losses, counted from the back.
EndsInStreak(h) ==
    /\ Len(h) >= MaxLosses
    /\ \A i \in (Len(h) - MaxLosses + 1)..Len(h) : h[i].is_loss

(* What R11 calls a streak, on the full history of trade ends: the last
   MaxLosses trades lost, all within LossWindow of the last one. *)
StreakIn(e) ==
    /\ Len(e) >= MaxLosses
    /\ \A i \in (Len(e) - MaxLosses + 1)..Len(e) :
          e[i].is_loss /\ e[Len(e)].ts - e[i].ts <= LossWindow

RecordTradeEnd(is_loss) ==
    LET end == [ts |-> tick_now, is_loss |-> is_loss]
        h == Append(loss_history, end)
    IN  /\ Len(ended) < MaxEnded
        /\ \E n \in 0..Len(h) :
              /\ Dropped([i \in 1..Len(h) |-> h[i].ts], n, MaxLossHistory, tick_now, LossWindow)
              /\ loss_history' = Rest(h, n)
        /\ last_loss_streak_ts' =
              IF EndsInStreak(loss_history') THEN tick_now ELSE last_loss_streak_ts
        /\ ended' = Append(ended, end)
        /\ last_streak' = IF StreakIn(ended') THEN tick_now ELSE last_streak
        /\ UNCHANGED <<now, tick_now, calls, trade_history, funding, calendar, decision, accepted>>

(* update_funding_time, called when the feed's next funding time differs from
   the last one announced. *)
UpdateFundingTime(k, ts) ==
    /\ funding_times[k] # ts
    /\ prev_funding_times' = [prev_funding_times EXCEPT ![k] =
          IF funding_times[k] # NoTime THEN funding_times[k]
          ELSE IF ts < now THEN ts ELSE @]
    /\ funding_times' = [funding_times EXCEPT ![k] = ts]
    /\ UNCHANGED <<now, tick_now, calls, gate, calendar, decision, history>>

\* NewsCalendar::reload by the watcher thread: the events are swapped at once.
ReloadCalendar(c) ==
    /\ calendar' = c
    /\ UNCHANGED <<now, tick_now, calls, gate, funding, decision, history>>

TimePasses ==
    /\ now < Horizon
    /\ now' = now + 1
    /\ UNCHANGED <<tick_now, calls, gate, funding, calendar, decision, history>>

Next ==
    \/ \E t \in Threads, r \in Requests : EvaluateRejected(t, r) \/ EvaluateBegin(t, r)
    \/ \E t \in Threads :
          EvaluateRate(t) \/ EvaluateCooloff(t) \/ EvaluateLate(t) \/ EvaluateAccept(t)
    \/ TickBegin
    \/ \E is_loss \in BOOLEAN : RecordTradeEnd(is_loss)
    \/ \E k \in Tickers, ts \in FundingTimes : UpdateFundingTime(k, ts)
    \/ \E c \in Calendars : ReloadCalendar(c)
    \/ TimePasses

Spec == Init /\ [][Next]_vars

-----------------------------------------------------------------------------
(* Properties *)

\* RiskManager's members hold values of their C++ types; histories hold past times.
TypeOK ==
    /\ now \in Nat
    /\ tick_now \in 0..now
    /\ calls \in [Threads -> {Idle} \cup [at : {"lock"}, now : 0..now, request : Requests]]
    /\ trade_history \in Seq(0..now)
    /\ loss_history \in Seq(TradeEnds)
    /\ last_loss_streak_ts \in 0..now \cup {NoStreak}
    /\ funding_times \in [Tickers -> Nat \cup {NoTime}]
    /\ prev_funding_times \in [Tickers -> Nat \cup {NoTime}]
    /\ decision # NoDecision => decision.request \in Requests
    /\ accepted \in Seq(0..now)
    /\ ended \in Seq(TradeEnds)
    /\ last_streak \in 0..now \cup {NoStreak}

(* R10 holds over every sliding window, not only at the moments it is
   evaluated: more than MaxTrades accepted plans always span more than
   TradesWindow, although threads prune trade_history_ with clocks they read
   before waiting for mtx_. *)
SlidingRateLimit ==
    \A i \in 1..(Len(accepted) - MaxTrades) :
        accepted[i + MaxTrades] - accepted[i] > TradesWindow

(* R11: no plan is accepted within Cooloff of a streak of losses, as seen on the
   full history of trade ends; an expired streak that one thread resets while
   another waits for mtx_, and trimmed loss histories, included. *)
CooloffRespected ==
    [][accepted' # accepted =>
          last_streak = NoStreak \/ now - last_streak >= Cooloff]_vars

(* R8: an accepted order risks at most max_per_trade_risk_pct of the equity at
   its stop and is worth at most max_position_value_pct of it, after rounding,
   capping and rounding again. *)
SizedWithinLimits ==
    decision # NoDecision /\ decision.reason = "None" =>
        LET r == decision.request
        IN  /\ Size(r) * StopDistance(r) * 10000
                 <= r.account.equity * Limits.max_per_trade_risk_bp
            /\ Size(r) * r.plan.entry * 100
                 <= r.account.equity * Limits.max_position_value_pct

=============================================================================
