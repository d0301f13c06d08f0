------------------------- MODULE RiskManagerProofs -------------------------
(***************************************************************************)
(* Theorems about RiskManager, for every set of threads and requests and   *)
(* every configuration, and about what trading is stopped by or lives by:  *)
(* the calendar follows the news file (News), a start finds the state      *)
(* saved last (Journal), a clock that is off is noticed (ClockDrift).      *)
(*                                                                         *)
(* SlidingRateLimit needs RateInv (trade_history_ is the recent end of all *)
(* accepted plans), CooloffRespected needs StreakInv (loss_history_ is an  *)
(* end of all trade ends that holds every streak), SizedWithinLimits needs *)
(* PassedStatic.                                                           *)
(***************************************************************************)
EXTENDS RiskManager, Journal, News, ClockDrift, SumProofs, FiniteSetTheorems, TLAPS

\* What is left of a sequence after n entries are popped from its front.
LEMMA RestShape ==
    ASSUME NEW S, NEW h \in Seq(S), NEW n \in 0..Len(h)
    PROVE  /\ Rest(h, n) \in Seq(S)
           /\ Len(Rest(h, n)) = Len(h) - n
           /\ \A i \in 1..(Len(h) - n) : Rest(h, n)[i] = h[n + i]
  BY DEF Rest

\* A sequence of past times stays one when the clock advances.
LEMMA PastStays ==
    ASSUME NEW m \in Nat, NEW n \in Nat, m <= n, NEW h \in Seq(0..m)
    PROVE  h \in Seq(0..n)
<1>1. 0..m \subseteq 0..n
  OBVIOUS
<1> QED BY <1>1

\* Popping from trade_history_ keeps it a sequence of past times (R10).
LEMMA HistoryTyped ==
    ASSUME TypeOK, NEW n \in 0..Len(trade_history)
    PROVE  /\ Rest(trade_history, n) \in Seq(0..now)
           /\ Append(Rest(trade_history, n), now) \in Seq(0..now)
<1>1. trade_history \in Seq(0..now) /\ now \in 0..now
  BY DEF TypeOK
<1>2. Rest(trade_history, n) \in Seq(0..now)
  BY <1>1, RestShape
<1> QED BY <1>1, <1>2

\* The evaluations waiting for mtx_ hold a clock value that was read before.
LEMMA CallShape ==
    ASSUME TypeOK, NEW t \in Threads, calls[t] # Idle
    PROVE  calls[t].now \in 0..now /\ calls[t].request \in Requests
  BY DEF TypeOK

\* A return of evaluate leaves the calls and the decision well typed.
LEMMA ReturnTyped ==
    ASSUME TypeOK, NEW t \in Threads, calls[t] # Idle, NEW reason, Return(t, reason), now' = now
    PROVE  /\ calls' \in [Threads -> {Idle} \cup [at : {"lock"}, now : 0..now', request : Requests]]
           /\ decision' # NoDecision => decision'.request \in Requests
<1>1. calls[t].request \in Requests
  BY CallShape
<1>2. decision'.request = calls[t].request
  BY DEF Return
<1>3. calls' \in [Threads -> {Idle} \cup [at : {"lock"}, now : 0..now', request : Requests]]
  BY DEF Return, TypeOK
<1> QED BY <1>1, <1>2, <1>3

\* Resetting the streak clears loss_history_ or leaves it.
LEMMA ResetTyped ==
    ASSUME TypeOK, ResetStreak, now' = now
    PROVE  /\ loss_history' \in Seq(TradeEnds)
           /\ ended' \in Seq(TradeEnds)
           /\ last_loss_streak_ts' \in 0..now' \cup {NoStreak}
  BY DEF TypeOK, ResetStreak

\* record_trade_end appends an end of a trade and pops from the front.
LEMMA RecordTyped ==
    ASSUME TypeOK, NEW is_loss \in BOOLEAN, RecordTradeEnd(is_loss)
    PROVE  TypeOK'
<1> DEFINE end == [ts |-> tick_now, is_loss |-> is_loss]
           h == Append(loss_history, end)
<1>1. end \in TradeEnds
  BY DEF TypeOK, TradeEnds
<1>2. h \in Seq(TradeEnds) /\ Append(ended, end) \in Seq(TradeEnds)
  BY <1>1 DEF TypeOK
<1>3. PICK n \in 0..Len(h) : loss_history' = Rest(h, n)
  BY DEF RecordTradeEnd
<1>4. loss_history' \in Seq(TradeEnds)
  BY <1>2, <1>3, RestShape
<1>5. ended' \in Seq(TradeEnds)
  BY <1>2 DEF RecordTradeEnd
<1>6. last_loss_streak_ts' \in 0..now' \cup {NoStreak} /\ last_streak' \in 0..now' \cup {NoStreak}
  BY DEF RecordTradeEnd, TypeOK
<1> QED BY <1>4, <1>5, <1>6 DEF RecordTradeEnd, TypeOK, funding

\* Every step of Next preserves the type invariant.
LEMMA TypeStep == TypeOK /\ [Next]_vars => TypeOK'
<1> SUFFICES ASSUME TypeOK, [Next]_vars PROVE TypeOK'
  OBVIOUS
<1>1. ASSUME NEW t \in Threads, NEW r \in Requests, EvaluateRejected(t, r) PROVE TypeOK'
  BY <1>1 DEF EvaluateRejected, TypeOK, gate, funding, history
<1>2. ASSUME NEW t \in Threads, NEW r \in Requests, EvaluateBegin(t, r) PROVE TypeOK'
  BY <1>2 DEF EvaluateBegin, TypeOK, gate, funding, history
<1>3. ASSUME NEW t \in Threads, EvaluateRate(t) PROVE TypeOK'
  <2>1. trade_history' \in Seq(0..now') /\ now' = now
    BY <1>3, HistoryTyped DEF EvaluateRate
  <2>2. Return(t, "TradeRateLimitHit") /\ calls[t] # Idle
    BY <1>3 DEF EvaluateRate
  <2> QED BY <1>3, <2>1, <2>2, ReturnTyped DEF EvaluateRate, TypeOK, funding, history
<1>4. ASSUME NEW t \in Threads, EvaluateCooloff(t) PROVE TypeOK'
  <2>1. trade_history' \in Seq(0..now') /\ now' = now
    BY <1>4, HistoryTyped DEF EvaluateCooloff
  <2>2. Return(t, "LossStreakCircuitBreaker") /\ calls[t] # Idle
    BY <1>4 DEF EvaluateCooloff
  <2> QED BY <1>4, <2>1, <2>2, ReturnTyped DEF EvaluateCooloff, TypeOK, funding, history
<1>5. ASSUME NEW t \in Threads, EvaluateLate(t) PROVE TypeOK'
  <2>1. trade_history' \in Seq(0..now') /\ now' = now
    BY <1>5, HistoryTyped DEF EvaluateLate
  <2>2. Return(t, LateReason(t)) /\ calls[t] # Idle /\ ResetStreak
    BY <1>5 DEF EvaluateLate
  <2> QED BY <1>5, <2>1, <2>2, ReturnTyped, ResetTyped DEF EvaluateLate, TypeOK, funding
<1>6. ASSUME NEW t \in Threads, EvaluateAccept(t) PROVE TypeOK'
  <2>1. trade_history' \in Seq(0..now') /\ now' = now
    BY <1>6, HistoryTyped DEF EvaluateAccept
  <2>2. Return(t, "None") /\ calls[t] # Idle /\ ResetStreak
    BY <1>6 DEF EvaluateAccept
  <2>3. accepted' \in Seq(0..now')
    BY <1>6, <2>1 DEF EvaluateAccept, TypeOK
  <2> QED BY <1>6, <2>1, <2>2, <2>3, ReturnTyped, ResetTyped DEF EvaluateAccept, TypeOK, funding
<1>7. CASE TickBegin
  BY <1>7 DEF TickBegin, TypeOK, gate, funding, history
<1>8. ASSUME NEW is_loss \in BOOLEAN, RecordTradeEnd(is_loss) PROVE TypeOK'
  BY <1>8, RecordTyped
<1>9. ASSUME NEW k \in Tickers, NEW ts \in FundingTimes, UpdateFundingTime(k, ts) PROVE TypeOK'
  BY <1>9, RiskConfig DEF UpdateFundingTime, TypeOK, gate, history
<1>10. ASSUME NEW c \in Calendars, ReloadCalendar(c) PROVE TypeOK'
  BY <1>10 DEF ReloadCalendar, TypeOK, gate, funding, history
<1>11. CASE TimePasses
  <2>1. now' \in Nat /\ now <= now' /\ 0..now \subseteq 0..now'
    BY <1>11 DEF TimePasses, TypeOK
  <2>2. trade_history' \in Seq(0..now') /\ accepted' \in Seq(0..now')
    BY <1>11, <2>1, PastStays DEF TimePasses, TypeOK, gate, history
  <2> QED BY <1>11, <2>1, <2>2 DEF TimePasses, TypeOK, gate, funding, history
<1>12. CASE UNCHANGED vars
  BY <1>12 DEF vars, TypeOK, gate, funding, history
<1> QED
  BY <1>1, <1>2, <1>3, <1>4, <1>5, <1>6, <1>7, <1>8, <1>9, <1>10, <1>11, <1>12 DEF Next

\* Init is well typed.
LEMMA TypeInit == Init => TypeOK
  BY DEF Init, TypeOK

\* RiskManager's members are well typed and hold only times of the past, for
\* any threads, requests and configuration (all methods of RiskManager).
THEOREM TypeCorrect == Spec => []TypeOK
  BY TypeInit, TypeStep, PTL DEF Spec

-----------------------------------------------------------------------------
(* R10 *)

(* trade_history_ is the end of all accepted plans, never longer than the
   limit, and a plan it has forgotten is older than the window. *)
RateInv ==
    /\ Len(trade_history) <= MaxTrades
    /\ Len(trade_history) <= Len(accepted)
    /\ \A i \in 1..Len(trade_history) :
          trade_history[i] = accepted[Len(accepted) - Len(trade_history) + i]
    /\ \A i \in 1..(Len(accepted) - Len(trade_history)) : now - accepted[i] > TradesWindow
    /\ SlidingRateLimit

\* Dropping old trades at a clock read earlier keeps RateInv.
LEMMA ForgetKeepsRate ==
    ASSUME TypeOK, RateInv, NEW t \in Threads, calls[t] # Idle,
           NEW n \in 0..Len(trade_history), Forgets(t, n)
    PROVE  LET h == Rest(trade_history, n)
           IN  /\ h \in Seq(0..now)
               /\ Len(h) = Len(trade_history) - n
               /\ \A i \in 1..Len(h) : h[i] = accepted[Len(accepted) - Len(h) + i]
               /\ \A i \in 1..(Len(accepted) - Len(h)) : now - accepted[i] > TradesWindow
<1> DEFINE h == Rest(trade_history, n)
           L == Len(trade_history)
           A == Len(accepted)
<1>1. L \in Nat /\ A \in Nat /\ trade_history \in Seq(0..now) /\ now \in Nat
      /\ accepted \in Seq(0..now)
  BY DEF TypeOK
<1>2. h \in Seq(0..now) /\ Len(h) = L - n /\ \A i \in 1..(L - n) : h[i] = trade_history[n + i]
  BY <1>1, RestShape
<1>3. \A i \in 1..Len(h) : h[i] = accepted[A - Len(h) + i]
  <2> TAKE i \in 1..Len(h)
  <2>1. h[i] = trade_history[n + i] /\ Len(h) = L - n
    BY <1>2
  <2>2. n + i \in 1..L /\ A - L + (n + i) = A - Len(h) + i
    BY <1>1, <1>2
  <2>3. trade_history[n + i] = accepted[A - L + (n + i)]
    BY <2>2 DEF RateInv
  <2> QED BY <2>1, <2>2, <2>3
<1>4. \A i \in 1..n : now - trade_history[i] > TradesWindow
  <2> TAKE i \in 1..n
  <2>1. calls[t].now \in 0..now
    BY CallShape
  <2>2. ~(L - i >= MaxTradeHistory)
    BY <1>1, RiskConfig DEF RateInv
  <2>3. L - i >= MaxTradeHistory \/ calls[t].now - trade_history[i] > TradesWindow
    BY DEF Forgets, Dropped
  <2>4. calls[t].now - trade_history[i] > TradesWindow
    BY <2>2, <2>3
  <2>5. trade_history[i] \in 0..now
    BY <1>1
  <2> QED BY <1>1, <2>1, <2>4, <2>5, RiskConfig, SMTT(30)
<1>5. ASSUME NEW i \in 1..(A - Len(h)) PROVE now - accepted[i] > TradesWindow
  <2>1. CASE i \in 1..(A - L)
    BY <2>1 DEF RateInv
  <2>2. CASE i \notin 1..(A - L)
    <3>1. i - (A - L) \in 1..n
      BY <1>1, <1>2, <2>2 DEF RateInv
    <3>2. trade_history[i - (A - L)] = accepted[i]
      BY <1>1, <3>1 DEF RateInv
    <3> QED BY <1>4, <3>1, <3>2
  <2> QED BY <2>1, <2>2
<1> QED BY <1>2, <1>3, <1>5

\* Accepting a plan keeps RateInv: the plan MaxTrades before it is forgotten.
LEMMA AcceptKeepsRate ==
    ASSUME TypeOK, RateInv, NEW t \in Threads, EvaluateAccept(t)
    PROVE  RateInv'
<1>1. PICK n \in 0..Len(trade_history) :
        /\ Forgets(t, n)
        /\ Len(trade_history) - n < MaxTrades
        /\ trade_history' = Append(Rest(trade_history, n), now)
  BY DEF EvaluateAccept
<1> DEFINE h == Rest(trade_history, n)
           A == Len(accepted)
<1>2. calls[t] # Idle /\ accepted' = Append(accepted, now) /\ now' = now
  BY DEF EvaluateAccept
<1>3. /\ h \in Seq(0..now)
      /\ Len(h) = Len(trade_history) - n
      /\ \A i \in 1..Len(h) : h[i] = accepted[A - Len(h) + i]
      /\ \A i \in 1..(A - Len(h)) : now - accepted[i] > TradesWindow
  BY <1>1, <1>2, ForgetKeepsRate
<1>4. accepted \in Seq(0..now) /\ A \in Nat /\ now \in Nat /\ Len(trade_history) \in Nat
      /\ Len(trade_history) <= A
  BY DEF TypeOK, RateInv
<1> HIDE DEF h
<1>5. /\ Len(trade_history') = Len(h) + 1
      /\ Len(accepted') = A + 1
      /\ accepted'[A + 1] = now
      /\ \A i \in 1..A : accepted'[i] = accepted[i]
      /\ trade_history'[Len(h) + 1] = now
      /\ \A i \in 1..Len(h) : trade_history'[i] = h[i]
  BY <1>1, <1>2, <1>3, <1>4 DEF h
<1>6. Len(h) \in Nat /\ Len(h) < MaxTrades /\ Len(h) <= A
  BY <1>1, <1>3, <1>4
<1>7. \A i \in 1..Len(trade_history') :
        trade_history'[i] = accepted'[Len(accepted') - Len(trade_history') + i]
  <2>1. Len(accepted') - Len(trade_history') = A - Len(h)
    BY <1>4, <1>5, <1>6
  <2>2. ASSUME NEW i \in 1..(Len(h) + 1) PROVE trade_history'[i] = accepted'[A - Len(h) + i]
    <3>1. CASE i = Len(h) + 1
      <4>1. A - Len(h) + i = A + 1
        BY <1>4, <1>6, <3>1
      <4> QED BY <1>5, <3>1, <4>1
    <3>2. CASE i \in 1..Len(h)
      <4>1. A - Len(h) + i \in 1..A
        BY <1>4, <1>6, <3>2
      <4>2. accepted'[A - Len(h) + i] = accepted[A - Len(h) + i]
        BY <1>5, <4>1
      <4> QED BY <1>3, <1>5, <3>2, <4>2
    <3> QED BY <1>6, <3>1, <3>2
  <2> QED BY <1>5, <2>1, <2>2
<1>8. \A i \in 1..(Len(accepted') - Len(trade_history')) : now' - accepted'[i] > TradesWindow
  BY <1>2, <1>3, <1>4, <1>5, <1>6, SMTT(30)
<1>9. SlidingRateLimit'
  <2> SUFFICES ASSUME NEW i \in 1..(A + 1 - MaxTrades)
               PROVE  accepted'[i + MaxTrades] - accepted'[i] > TradesWindow
    <3>1. Len(accepted') - MaxTrades = A + 1 - MaxTrades
      BY <1>4, <1>5, RiskConfig
    <3> QED BY <3>1 DEF SlidingRateLimit
  <2>1. i \in 1..A /\ i + MaxTrades \in 1..(A + 1)
    BY <1>4, RiskConfig
  <2>2. CASE i + MaxTrades = A + 1
    <3>1. i \in 1..(A - Len(h))
      BY <1>4, <1>6, <2>1, <2>2, RiskConfig
    <3> QED BY <1>3, <1>5, <2>1, <2>2, <3>1
  <2>3. CASE i + MaxTrades # A + 1
    <3>1. i \in 1..(A - MaxTrades) /\ i + MaxTrades \in 1..A
      BY <1>4, <2>1, <2>3, RiskConfig, SMTT(30)
    <3> QED BY <1>5, <2>1, <3>1 DEF RateInv, SlidingRateLimit
  <2> QED BY <2>2, <2>3
<1> QED BY <1>4, <1>5, <1>6, <1>7, <1>8, <1>9, RiskConfig DEF RateInv

\* A rejection under the lock only forgets old trades.
LEMMA RejectKeepsRate ==
    ASSUME TypeOK, RateInv, NEW t \in Threads, calls[t] # Idle,
           NEW n \in 0..Len(trade_history), Forgets(t, n),
           trade_history' = Rest(trade_history, n), accepted' = accepted, now' = now
    PROVE  RateInv'
<1> DEFINE h == Rest(trade_history, n)
<1>1. Len(trade_history) \in Nat /\ Len(accepted) \in Nat
  BY DEF TypeOK
<1>2. /\ Len(h) = Len(trade_history) - n
      /\ \A i \in 1..Len(h) : h[i] = accepted[Len(accepted) - Len(h) + i]
      /\ \A i \in 1..(Len(accepted) - Len(h)) : now - accepted[i] > TradesWindow
  BY ForgetKeepsRate
<1> HIDE DEF h
<1>3. trade_history' = h
  BY DEF h
<1>4. Len(h) <= MaxTrades /\ Len(h) <= Len(accepted)
  BY <1>1, <1>2, RiskConfig DEF RateInv
<1>5. SlidingRateLimit'
  BY DEF RateInv, SlidingRateLimit
<1> QED BY <1>2, <1>3, <1>4, <1>5 DEF RateInv

LEMMA RateStep == TypeOK /\ RateInv /\ [Next]_vars => RateInv'
<1> SUFFICES ASSUME TypeOK, RateInv, [Next]_vars PROVE RateInv'
  OBVIOUS
<1>1. ASSUME NEW t \in Threads, EvaluateRate(t) \/ EvaluateCooloff(t) \/ EvaluateLate(t)
      PROVE  RateInv'
  <2>1. PICK n \in 0..Len(trade_history) :
          Forgets(t, n) /\ trade_history' = Rest(trade_history, n)
    BY <1>1 DEF EvaluateRate, EvaluateCooloff, EvaluateLate
  <2>2. calls[t] # Idle /\ accepted' = accepted /\ now' = now
    BY <1>1 DEF EvaluateRate, EvaluateCooloff, EvaluateLate, history
  <2> QED BY <2>1, <2>2, RejectKeepsRate
<1>2. ASSUME NEW t \in Threads, EvaluateAccept(t) PROVE RateInv'
  BY <1>2, AcceptKeepsRate
<1>3. CASE UNCHANGED <<trade_history, accepted, now>>
  BY <1>3 DEF RateInv, SlidingRateLimit
<1>4. CASE TimePasses
  <2>1. trade_history' = trade_history /\ accepted' = accepted /\ now' = now + 1
    BY <1>4 DEF TimePasses, gate, history
  <2>2. now \in Nat /\ accepted \in Seq(0..now) /\ Len(accepted) \in Nat
        /\ Len(trade_history) \in Nat
    BY DEF TypeOK
  <2>3. \A i \in 1..(Len(accepted) - Len(trade_history)) : now' - accepted[i] > TradesWindow
    <3> TAKE i \in 1..(Len(accepted) - Len(trade_history))
    <3>1. accepted[i] \in 0..now
      BY <2>2
    <3> QED BY <2>1, <2>2, <3>1, RiskConfig, SMTT(30) DEF RateInv
  <2> QED BY <2>1, <2>3 DEF RateInv, SlidingRateLimit
<1> QED
  BY <1>1, <1>2, <1>3, <1>4
  DEF Next, EvaluateRejected, EvaluateBegin, TickBegin, RecordTradeEnd, UpdateFundingTime,
      ReloadCalendar, gate, history, vars

\* R10 as a sliding window: for any number of threads, whatever clocks they hold
\* when they get mtx_, more than MaxTrades accepted plans span more than TradesWindow.
THEOREM RateAlwaysLimited == Spec => []SlidingRateLimit
<1>1. Init => RateInv
  BY RiskConfig DEF Init, RateInv, SlidingRateLimit
<1>2. RateInv => SlidingRateLimit
  BY DEF RateInv
<1> QED BY <1>1, <1>2, RateStep, TypeCorrect, PTL DEF Spec

-----------------------------------------------------------------------------
(* R11 *)

(* loss_history_ is the end of all trade ends since the last reset, what it
   lost cannot be part of a streak, and the streak it armed is the last one
   unless that one's cooloff is over. *)
StreakInv ==
    /\ Len(loss_history) <= Len(ended)
    /\ \A i \in 1..Len(loss_history) :
          loss_history[i] = ended[Len(ended) - Len(loss_history) + i]
    /\ \A i \in 1..(Len(ended) - Len(loss_history)) :
          Len(ended) - i >= MaxLossHistory \/ tick_now - ended[i].ts > LossWindow
    /\ last_streak <= tick_now
    /\ \/ last_streak = NoStreak
       \/ last_loss_streak_ts >= last_streak
       \/ now - last_streak >= Cooloff

\* What record_trade_end keeps is the end of the longer history of trade ends.
LEMMA RecordKeepsEnd ==
    ASSUME TypeOK, StreakInv, NEW is_loss \in BOOLEAN, RecordTradeEnd(is_loss)
    PROVE  /\ Len(loss_history') <= Len(ended')
           /\ \A i \in 1..Len(loss_history') :
                 loss_history'[i] = ended'[Len(ended') - Len(loss_history') + i]
           /\ \A i \in 1..(Len(ended') - Len(loss_history')) :
                 Len(ended') - i >= MaxLossHistory \/ tick_now - ended'[i].ts > LossWindow
           /\ ended' \in Seq(TradeEnds) /\ loss_history' \in Seq(TradeEnds)
           /\ ended' # <<>> /\ ended'[Len(ended')].ts = tick_now
<1> DEFINE end == [ts |-> tick_now, is_loss |-> is_loss]
           h == Append(loss_history, end)
           L == Len(loss_history)
           E == Len(ended)
<1>1. /\ end \in TradeEnds
      /\ loss_history \in Seq(TradeEnds) /\ ended \in Seq(TradeEnds)
      /\ L \in Nat /\ E \in Nat /\ L <= E
      /\ end.ts = tick_now
  BY DEF TypeOK, TradeEnds, StreakInv
<1>2. PICK n \in 0..Len(h) :
        /\ Dropped([i \in 1..Len(h) |-> h[i].ts], n, MaxLossHistory, tick_now, LossWindow)
        /\ loss_history' = Rest(h, n)
  BY DEF RecordTradeEnd
<1>3. ended' = Append(ended, end)
  BY DEF RecordTradeEnd
<1> HIDE DEF end
<1>4. /\ h \in Seq(TradeEnds)
      /\ Len(h) = L + 1
      /\ h[L + 1] = end
      /\ \A i \in 1..L : h[i] = loss_history[i]
  BY <1>1
<1>5. /\ ended' \in Seq(TradeEnds)
      /\ Len(ended') = E + 1
      /\ ended'[E + 1] = end
      /\ \A i \in 1..E : ended'[i] = ended[i]
  BY <1>1, <1>3
<1> HIDE DEF h
<1>6. /\ loss_history' \in Seq(TradeEnds)
      /\ Len(loss_history') = L + 1 - n
      /\ \A i \in 1..(L + 1 - n) : loss_history'[i] = h[n + i]
  <2>1. /\ Rest(h, n) \in Seq(TradeEnds)
        /\ Len(Rest(h, n)) = Len(h) - n
        /\ \A i \in 1..(Len(h) - n) : Rest(h, n)[i] = h[n + i]
    BY <1>4, RestShape
  <2>2. loss_history' = Rest(h, n)
    BY <1>2
  <2> QED BY <1>4, <2>1, <2>2
<1>7. \A i \in 1..n : L + 1 - i >= MaxLossHistory \/ tick_now - h[i].ts > LossWindow
  <2> DEFINE times == [i \in 1..Len(h) |-> h[i].ts]
  <2>1. Len(times) = L + 1 /\ \A i \in 1..n : times[i] = h[i].ts
    BY <1>1, <1>2, <1>4
  <2> QED BY <1>2, <2>1 DEF Dropped
\* An element of h is the element of ended' at the same distance from the end.
<1>8. \A i \in 1..(L + 1) : h[i] = ended'[E - L + i]
  <2> TAKE i \in 1..(L + 1)
  <2>1. CASE i = L + 1
    <3>1. E - L + i = E + 1
      BY <1>1, <2>1
    <3> QED BY <1>4, <1>5, <2>1, <3>1
  <2>2. CASE i \in 1..L
    <3>1. E - L + i \in 1..E
      BY <1>1, <2>2
    <3> QED BY <1>4, <1>5, <2>2, <3>1 DEF StreakInv
  <2> QED BY <1>1, <2>1, <2>2
<1>9. n \in 0..(L + 1)
  BY <1>2, <1>4
<1>10. \A i \in 1..Len(loss_history') :
         loss_history'[i] = ended'[Len(ended') - Len(loss_history') + i]
  <2>1. Len(ended') - Len(loss_history') = E - L + n
    BY <1>1, <1>5, <1>6, <1>9
  <2>2. ASSUME NEW i \in 1..(L + 1 - n) PROVE loss_history'[i] = ended'[E - L + n + i]
    <3>1. n + i \in 1..(L + 1) /\ E - L + (n + i) = E - L + n + i
      BY <1>1, <1>9
    <3> QED BY <1>6, <1>8, <3>1
  <2> QED BY <1>6, <2>1, <2>2
<1>11. ASSUME NEW i \in 1..(E - L + n)
       PROVE  E + 1 - i >= MaxLossHistory \/ tick_now - ended'[i].ts > LossWindow
  <2>1. CASE i \in 1..(E - L)
    <3>1. ended'[i] = ended[i]
      BY <1>1, <1>5, <2>1
    <3>2. E - i >= MaxLossHistory \/ tick_now - ended[i].ts > LossWindow
      BY <2>1 DEF StreakInv
    <3> QED BY <1>1, <3>1, <3>2, RiskConfig
  <2>2. CASE i \notin 1..(E - L)
    <3>1. i - (E - L) \in 1..n /\ E - L + (i - (E - L)) = i
      BY <1>1, <1>9, <2>2
    <3>2. i - (E - L) \in 1..(L + 1)
      BY <1>9, <3>1
    <3>3. h[i - (E - L)] = ended'[i]
      BY <1>8, <3>1, <3>2
    <3>4. L + 1 - (i - (E - L)) = E + 1 - i
      BY <1>1
    <3> QED BY <1>7, <3>1, <3>3, <3>4
  <2> QED BY <2>1, <2>2
<1>12. Len(ended') - Len(loss_history') = E - L + n
  BY <1>1, <1>5, <1>6, <1>9
<1>13. ended' # <<>> /\ ended'[Len(ended')].ts = tick_now
  BY <1>1, <1>5
<1>14. Len(loss_history') <= Len(ended')
  BY <1>1, <1>5, <1>6, <1>9
<1> QED BY <1>5, <1>6, <1>10, <1>11, <1>12, <1>13, <1>14

\* The breaker sees every streak: trimming never removes a part of one.
LEMMA StreakIsSeen ==
    ASSUME TypeOK, StreakInv, NEW is_loss \in BOOLEAN, RecordTradeEnd(is_loss),
           StreakIn(ended')
    PROVE  EndsInStreak(loss_history')
<1> DEFINE L == Len(loss_history')
           E == Len(ended')
<1>1. /\ L <= E
      /\ \A i \in 1..L : loss_history'[i] = ended'[E - L + i]
      /\ \A i \in 1..(E - L) : E - i >= MaxLossHistory \/ tick_now - ended'[i].ts > LossWindow
      /\ ended'[E].ts = tick_now
      /\ L \in Nat /\ E \in Nat
  BY RecordKeepsEnd
<1>2. /\ E >= MaxLosses
      /\ \A i \in (E - MaxLosses + 1)..E : ended'[i].is_loss /\ tick_now - ended'[i].ts <= LossWindow
  BY <1>1 DEF StreakIn
<1> HIDE DEF L, E
<1>3. L >= MaxLosses
  <2> SUFFICES ASSUME L < MaxLosses PROVE FALSE
    BY <1>1, RiskConfig
  <2> DEFINE i == E - MaxLosses + 1
  <2>1. i \in 1..(E - L) /\ i \in (E - MaxLosses + 1)..E /\ E - i < MaxLossHistory
    BY <1>1, <1>2, RiskConfig
  <2>2. tick_now - ended'[i].ts > LossWindow
    BY <1>1, <2>1, RiskConfig
  <2>3. tick_now - ended'[i].ts <= LossWindow
    BY <1>2, <2>1
  <2>4. tick_now - ended'[i].ts \in Int
    <3>1. ended' \in Seq(TradeEnds)
      BY RecordKeepsEnd
    <3>2. i \in 1..Len(ended')
      BY <1>1, <2>1 DEF E
    <3>3. ended'[i] \in TradeEnds /\ tick_now \in Int
      BY <3>1, <3>2 DEF TypeOK
    <3>4. ended'[i].ts \in Nat
      BY <3>3 DEF TradeEnds
    <3> QED BY <3>3, <3>4
  <2> QED BY <2>2, <2>3, <2>4, RiskConfig
<1>4. \A i \in (L - MaxLosses + 1)..L : loss_history'[i].is_loss
  <2> TAKE i \in (L - MaxLosses + 1)..L
  <2>1. i \in 1..L /\ E - L + i \in (E - MaxLosses + 1)..E
    BY <1>1, <1>3, RiskConfig
  <2> QED BY <1>1, <1>2, <2>1
<1> QED BY <1>3, <1>4 DEF EndsInStreak, L

\* An interval that has lasted long enough has done so later, too.
LEMMA LaterIsLonger ==
    ASSUME NEW a \in Int, NEW b \in Int, NEW c \in Int, NEW d \in Int, a <= b, a - c >= d
    PROVE  b - c >= d
  OBVIOUS

\* record_trade_end keeps StreakInv.
LEMMA RecordKeepsStreak ==
    ASSUME TypeOK, StreakInv, NEW is_loss \in BOOLEAN, RecordTradeEnd(is_loss)
    PROVE  StreakInv'
<1>1. /\ tick_now' = tick_now /\ now' = now
      /\ last_loss_streak_ts' =
            IF EndsInStreak(loss_history') THEN tick_now ELSE last_loss_streak_ts
      /\ last_streak' = IF StreakIn(ended') THEN tick_now ELSE last_streak
  BY DEF RecordTradeEnd
<1>2. /\ tick_now \in Int /\ now \in Int /\ last_streak \in Int /\ last_loss_streak_ts \in Int
      /\ last_streak <= tick_now
  BY DEF TypeOK, StreakInv, NoStreak
<1>3. last_streak' <= tick_now'
  BY <1>1, <1>2
<1>4. \/ last_streak' = NoStreak
      \/ last_loss_streak_ts' >= last_streak'
      \/ now' - last_streak' >= Cooloff
  <2>1. CASE StreakIn(ended')
    BY <1>1, <1>2, <2>1, StreakIsSeen
  <2>2. CASE ~StreakIn(ended') /\ EndsInStreak(loss_history')
    BY <1>1, <1>2, <2>2
  <2>3. CASE ~StreakIn(ended') /\ ~EndsInStreak(loss_history')
    BY <1>1, <2>3 DEF StreakInv
  <2> QED BY <2>1, <2>2, <2>3
<1>5. /\ Len(loss_history') <= Len(ended')
      /\ \A i \in 1..Len(loss_history') :
            loss_history'[i] = ended'[Len(ended') - Len(loss_history') + i]
      /\ \A i \in 1..(Len(ended') - Len(loss_history')) :
            Len(ended') - i >= MaxLossHistory \/ tick_now - ended'[i].ts > LossWindow
  BY RecordKeepsEnd
<1> QED BY <1>1, <1>3, <1>4, <1>5 DEF StreakInv

\* R11 passes only when the last streak is over.
LEMMA PassingIsCooledOff ==
    ASSUME TypeOK, StreakInv, NEW t \in Threads, calls[t] # Idle, ~Cooling(t)
    PROVE  last_streak = NoStreak \/ now - last_streak >= Cooloff
<1>1. /\ now \in Int /\ last_streak \in 0..now \cup {NoStreak}
      /\ last_loss_streak_ts \in 0..now \cup {NoStreak}
      /\ calls[t].now \in 0..now
  BY CallShape DEF TypeOK
<1>2. CASE last_loss_streak_ts = NoStreak
  BY <1>1, <1>2 DEF StreakInv, NoStreak
<1>3. CASE last_loss_streak_ts # NoStreak
  BY <1>1, <1>3, RiskConfig, SMTT(30) DEF StreakInv, Cooling, NoStreak
<1> QED BY <1>2, <1>3

\* Resetting an expired streak keeps StreakInv.
LEMMA ResetKeepsStreak ==
    ASSUME TypeOK, StreakInv, NEW t \in Threads, calls[t] # Idle, ~Cooling(t), ResetStreak,
           now' = now, tick_now' = tick_now, last_streak' = last_streak
    PROVE  StreakInv'
<1>1. last_streak' = NoStreak \/ now' - last_streak' >= Cooloff
  BY PassingIsCooledOff
<1>2. CASE last_loss_streak_ts # NoStreak
  <2>1. loss_history' = <<>> /\ ended' = <<>>
    BY <1>2 DEF ResetStreak
  <2> QED BY <1>1, <2>1 DEF StreakInv
<1>3. CASE last_loss_streak_ts = NoStreak
  <2>1. loss_history' = loss_history /\ ended' = ended
    BY <1>3 DEF ResetStreak
  <2> QED BY <1>1, <2>1 DEF StreakInv
<1> QED BY <1>2, <1>3

LEMMA StreakStep == TypeOK /\ StreakInv /\ [Next]_vars => StreakInv'
<1> SUFFICES ASSUME TypeOK, StreakInv, [Next]_vars PROVE StreakInv'
  OBVIOUS
<1>1. ASSUME NEW t \in Threads, EvaluateLate(t) \/ EvaluateAccept(t) PROVE StreakInv'
  <2>1. /\ calls[t] # Idle /\ ~Cooling(t) /\ ResetStreak
        /\ now' = now /\ tick_now' = tick_now /\ last_streak' = last_streak
    BY <1>1 DEF EvaluateLate, EvaluateAccept
  <2> QED BY <2>1, ResetKeepsStreak
<1>2. ASSUME NEW is_loss \in BOOLEAN, RecordTradeEnd(is_loss) PROVE StreakInv'
  BY <1>2, RecordKeepsStreak
<1>3. CASE UNCHANGED <<loss_history, last_loss_streak_ts, ended, last_streak, now, tick_now>>
  BY <1>3 DEF StreakInv
\* Time only moves further away from what was lost and from the last streak.
<1>4. CASE TickBegin \/ TimePasses
  <2>1. /\ loss_history' = loss_history
        /\ ended' = ended
        /\ last_loss_streak_ts' = last_loss_streak_ts
        /\ last_streak' = last_streak
    BY <1>4 DEF TickBegin, TimePasses, gate, history
  <2>2. /\ now \in Int /\ now' \in Int /\ now <= now'
        /\ tick_now \in Int /\ tick_now' \in Int /\ tick_now <= tick_now'
        /\ last_streak \in Int
    BY <1>4 DEF TickBegin, TimePasses, TypeOK, NoStreak
  <2>3. ASSUME NEW i \in 1..(Len(ended) - Len(loss_history))
        PROVE  Len(ended) - i >= MaxLossHistory \/ tick_now' - ended[i].ts > LossWindow
    <3>1. i \in 1..Len(ended) /\ ended \in Seq(TradeEnds)
      BY DEF TypeOK
    <3>2. ended[i] \in TradeEnds
      BY <3>1
    <3>3. ended[i].ts \in Nat
      BY <3>2 DEF TradeEnds
    <3>4. tick_now - ended[i].ts > LossWindow => tick_now' - ended[i].ts > LossWindow
      BY <2>2, <3>3, RiskConfig
    <3>5. Len(ended) - i >= MaxLossHistory \/ tick_now - ended[i].ts > LossWindow
      BY DEF StreakInv
    <3> QED BY <3>4, <3>5
  <2>4. last_streak <= tick_now /\ (\/ last_streak = NoStreak
                                    \/ last_loss_streak_ts >= last_streak
                                    \/ now - last_streak >= Cooloff)
    BY DEF StreakInv
  <2>5. now - last_streak >= Cooloff => now' - last_streak >= Cooloff
    <3>1. Cooloff \in Int
      BY RiskConfig
    <3> QED BY <2>2, <3>1, LaterIsLonger
  <2>6. last_streak <= tick_now'
    BY <2>2, <2>4
  <2> QED BY <2>1, <2>3, <2>4, <2>5, <2>6 DEF StreakInv
<1> QED
  BY <1>1, <1>2, <1>3, <1>4
  DEF Next, EvaluateRejected, EvaluateBegin, EvaluateRate, EvaluateCooloff, UpdateFundingTime,
      ReloadCalendar, gate, history, vars

\* R11: for any number of threads and any configuration no plan is accepted
\* within Cooloff of a streak of losses.
THEOREM CooloffAlwaysRespected == Spec => CooloffRespected
<1>1. Init => StreakInv
  BY RiskConfig DEF Init, StreakInv, NoStreak
<1>2. TypeOK /\ StreakInv /\ [Next]_vars =>
        [accepted' # accepted => last_streak = NoStreak \/ now - last_streak >= Cooloff]_vars
  <2> SUFFICES ASSUME TypeOK, StreakInv, Next, accepted' # accepted
               PROVE  last_streak = NoStreak \/ now - last_streak >= Cooloff
    OBVIOUS
  <2>1. PICK t \in Threads : EvaluateAccept(t)
    BY DEF Next, EvaluateRejected, EvaluateBegin, EvaluateRate, EvaluateCooloff, EvaluateLate,
           TickBegin, RecordTradeEnd, UpdateFundingTime, ReloadCalendar, TimePasses, history
  <2>2. calls[t] # Idle /\ ~Cooling(t)
    BY <2>1 DEF EvaluateAccept
  <2> QED BY <2>2, PassingIsCooledOff
<1> QED BY <1>1, <1>2, StreakStep, TypeCorrect, PTL DEF Spec, CooloffRespected

-----------------------------------------------------------------------------
(* R8 *)

\* Rounding down to a lot never gives more.
LEMMA RoundDownBound ==
    ASSUME NEW size \in Int, NEW step \in Int
    PROVE  RoundDown(size, step) \in Int /\ RoundDown(size, step) <= size
<1>1. CASE step > 0
  <2>1. size \div step \in Int /\ (size \div step) * step <= size
    BY <1>1, Z3
  <2> QED BY <1>1, <2>1 DEF RoundDown
<1>2. CASE ~(step > 0)
  BY <1>2 DEF RoundDown
<1> QED BY <1>1, <1>2

LEMMA DivBound ==
    ASSUME NEW a \in Int, NEW b \in Int, b > 0
    PROVE  a \div b \in Int /\ (a \div b) * b <= a
  BY Z3

\* Multiplying by a positive number keeps the order.
LEMMA ProductMonotone ==
    ASSUME NEW a \in Int, NEW b \in Int, NEW c \in Int, a <= b, c > 0
    PROVE  \A v \in Int : b * c <= v => a * c <= v
  BY Z3

LEMMA ProductReflects ==
    ASSUME NEW a \in Int, NEW b \in Int, NEW c \in Int, c > 0, a * c * 100 < b * c * 100
    PROVE  a <= b
  BY Z3

\* An evaluation waits for the lock only when R1-R9 let its plan through.
PassedStatic ==
    /\ \A t \in Threads : calls[t] # Idle => StaticReason(calls[t].request) = "None"
    /\ decision # NoDecision /\ decision.reason = "None" =>
          StaticReason(decision.request) = "None"

LEMMA StaticStep == TypeOK /\ PassedStatic /\ [Next]_vars => PassedStatic'
<1> SUFFICES ASSUME TypeOK, PassedStatic, [Next]_vars PROVE PassedStatic'
  OBVIOUS
<1>1. ASSUME NEW t \in Threads, NEW r \in Requests, EvaluateRejected(t, r) PROVE PassedStatic'
  BY <1>1 DEF EvaluateRejected, PassedStatic
<1>2. ASSUME NEW t \in Threads, NEW r \in Requests, EvaluateBegin(t, r) PROVE PassedStatic'
  BY <1>2 DEF EvaluateBegin, PassedStatic, TypeOK
<1>3. ASSUME NEW t \in Threads, NEW reason, calls[t] # Idle, Return(t, reason)
      PROVE  PassedStatic'
  BY <1>3 DEF Return, PassedStatic, TypeOK
<1>4. CASE UNCHANGED <<calls, decision>>
  BY <1>4 DEF PassedStatic
<1> QED
  BY <1>1, <1>2, <1>3, <1>4
  DEF Next, EvaluateRate, EvaluateCooloff, EvaluateLate, EvaluateAccept, TickBegin,
      RecordTradeEnd, UpdateFundingTime, ReloadCalendar, TimePasses, vars

\* A plan that passes R1-R9 has a positive entry price and a stop away from it.
LEMMA PassedShape ==
    ASSUME NEW r \in Requests, StaticReason(r) = "None"
    PROVE  /\ r.plan.entry \in Int /\ r.plan.entry > 0
           /\ StopDistance(r) \in Int /\ StopDistance(r) > 0
<1>1. r.plan.entry > 0 /\ StopReason(r) = "None"
  BY RequestShape DEF StaticReason
<1>2. StopDistance(r) # 0
  BY <1>1 DEF StopReason
<1>3. StopDistance(r) \in Int /\ StopDistance(r) >= 0
  BY RequestShape DEF StopDistance, Abs
<1> QED BY <1>1, <1>2, <1>3, RequestShape

\* The size R8 computes keeps both limits.
LEMMA SizeBounds ==
    ASSUME NEW r \in Requests, StaticReason(r) = "None"
    PROVE  /\ Size(r) * StopDistance(r) * 10000
                 <= r.account.equity * Limits.max_per_trade_risk_bp
           /\ Size(r) * r.plan.entry * 100
                 <= r.account.equity * Limits.max_position_value_pct
<1> DEFINE d == StopDistance(r)
           e == r.plan.entry
           risk == r.account.equity * Limits.max_per_trade_risk_bp
           value == r.account.equity * Limits.max_position_value_pct
           step == r.listing.size_increment
           raw == risk \div (10000 * d)
           most == value \div (100 * e)
<1>1. /\ d \in Int /\ d > 0 /\ e \in Int /\ e > 0 /\ risk \in Int /\ value \in Int
      /\ step \in Int
      /\ 10000 * d \in Int /\ 10000 * d > 0 /\ 100 * e \in Int /\ 100 * e > 0
  BY PassedShape, RequestShape
<1>2. RawSize(r) = raw
  BY DEF RawSize
<1>3. Size(r) = IF NormalSize(r) * e * 100 > value THEN RoundDown(most, step) ELSE NormalSize(r)
  BY DEF Size
<1> HIDE DEF d, e, risk, value, step
<1>4. raw \in Int /\ raw * (10000 * d) <= risk
  BY <1>1, DivBound
<1>5. most \in Int /\ most * (100 * e) <= value
  BY <1>1, DivBound
<1> HIDE DEF raw, most
<1>6. NormalSize(r) \in Int /\ NormalSize(r) <= raw
  <2>1. RoundDown(raw, step) \in Int /\ RoundDown(raw, step) <= raw
    BY <1>1, <1>4, RoundDownBound
  <2>2. NormalSize(r) = RoundDown(raw, step) \/ NormalSize(r) = raw
    BY <1>2 DEF NormalSize, step
  <2> QED BY <1>4, <2>1, <2>2
<1>7. RoundDown(most, step) \in Int /\ RoundDown(most, step) <= most
  BY <1>1, <1>5, RoundDownBound
\* Both cases: the cap only ever lowers the size.
<1>8. Size(r) \in Int /\ Size(r) <= raw /\ Size(r) * e * 100 <= value
  <2>1. CASE NormalSize(r) * e * 100 > value
    <3>1. RoundDown(most, step) * (100 * e) <= value
      BY <1>1, <1>5, <1>7, ProductMonotone
    <3>2. RoundDown(most, step) * e * 100 <= value
      BY <1>1, <1>7, <3>1
    <3>3. RoundDown(most, step) * e * 100 < NormalSize(r) * e * 100
      BY <1>1, <1>6, <1>7, <2>1, <3>2
    <3>4. RoundDown(most, step) <= NormalSize(r)
      BY <1>1, <1>6, <1>7, <3>3, ProductReflects
    <3> QED BY <1>3, <1>4, <1>6, <1>7, <2>1, <3>2, <3>4
  <2>2. CASE ~(NormalSize(r) * e * 100 > value)
    BY <1>1, <1>3, <1>6, <2>2
  <2> QED BY <2>1, <2>2
<1>9. Size(r) * (10000 * d) <= risk
  BY <1>1, <1>4, <1>8, ProductMonotone
<1>10. Size(r) * d * 10000 <= risk
  BY <1>1, <1>8, <1>9
<1> QED BY <1>8, <1>10 DEF d, e, risk, value

\* R8: for every request an accepted order risks no more than the configured
\* share of the equity at its stop and is worth no more than the value cap.
THEOREM AlwaysSizedWithinLimits == Spec => []SizedWithinLimits
<1>1. Init => PassedStatic
  BY DEF Init, PassedStatic
<1>2. TypeOK /\ PassedStatic => SizedWithinLimits
  BY SizeBounds DEF TypeOK, PassedStatic, SizedWithinLimits
<1> QED BY <1>1, <1>2, StaticStep, TypeCorrect, PTL DEF Spec

-----------------------------------------------------------------------------
(* News.  The watcher is at one of four places: before its first reload, about *)
(* to reload, between parsing and swapping, or at rest.  What an edit leaves   *)
(* behind it, an event, a signal or missed, is what makes the next step read   *)
(* the file again, so nothing need be known of a watcher about to reload.      *)

NewsTypeOK ==
    /\ file \in [inode : Nat, edit : Nat, valid : BOOLEAN, open : BOOLEAN]
    /\ hup \in [flag : BOOLEAN, sent : Nat]
    /\ alarm \in BOOLEAN /\ missed \in BOOLEAN
    /\ edits \in Nat
    /\ watcher \in {"off", "arms", "never", "idle", "rearm", "reload", "swap"}

\* Nobody will be told of an edit any more.
Untold == ~alarm /\ ~hup.flag /\ ~missed /\ file.valid

NewsInv ==
    /\ NewsTypeOK
    /\ watcher \in {"arms", "idle"} /\ Untold => loaded = file.edit
    /\ watcher = "swap" /\ Untold => parsed = file.edit

LEMMA ChangeTypes ==
    ASSUME NewsTypeOK, NEW f \in [inode : Nat, edit : Nat, valid : BOOLEAN, open : BOOLEAN],
           Change(f)
    PROVE  /\ file' = f /\ alarm' \in BOOLEAN /\ missed' \in BOOLEAN
           /\ UNCHANGED <<hup, watcher, loaded, parsed>>
BY DEF Change, NewsTypeOK

\* Whatever is done to the file, a watcher at rest or about to swap is told,
\* or it was missed.
LEMMA ChangeIsTold ==
    ASSUME NewsInv, NEW f \in [inode : Nat, edit : Nat, valid : BOOLEAN, open : BOOLEAN],
           Change(f), edits' \in Nat
    PROVE  NewsInv'
<1>1. /\ file' = f /\ alarm' \in BOOLEAN /\ missed' \in BOOLEAN
      /\ UNCHANGED <<hup, watcher, loaded, parsed>>
  BY ChangeTypes DEF NewsInv
<1>2. NewsTypeOK' BY <1>1 DEF NewsInv, NewsTypeOK
<1>3. watcher \in {"arms", "idle", "swap"} => alarm' \/ hup.flag \/ missed'
  BY DEF Change
<1>4. hup'.flag = hup.flag /\ watcher' = watcher BY <1>1
<1>5. watcher' \in {"arms", "idle", "swap"} => ~Untold'
  BY <1>3, <1>4 DEF Untold
<1> QED BY <1>2, <1>5 DEF NewsInv

LEMMA NewsInitially == NewsInit => NewsInv
<1> SUFFICES ASSUME NewsInit PROVE NewsInv OBVIOUS
<1>1. file \in [inode : Nat, edit : Nat, valid : BOOLEAN, open : BOOLEAN]
  BY DEF NewsInit
<1> QED BY <1>1 DEF NewsInit, NewsInv, NewsTypeOK

LEMMA NewsStep == NewsInv /\ [NewsNext]_newsVars => NewsInv'
<1> SUFFICES ASSUME NewsInv, [NewsNext]_newsVars PROVE NewsInv' OBVIOUS
<1> DEFINE FileType == [inode : Nat, edit : Nat, valid : BOOLEAN, open : BOOLEAN]
<1> USE DEF NewsInv, NewsTypeOK, Untold
<1>1. CASE OpenInPlace_
  <2>1. [file EXCEPT !.open = TRUE, !.valid = FALSE] \in FileType OBVIOUS
  <2> QED BY <1>1, <2>1, ChangeIsTold DEF OpenInPlace_
<1>2. CASE WriteNews
  <2>1. PICK valid \in BOOLEAN :
            Change([file EXCEPT !.edit = edits + 1, !.valid = valid, !.open = FALSE])
    BY <1>2 DEF WriteNews
  <2>2. [file EXCEPT !.edit = edits + 1, !.valid = valid, !.open = FALSE] \in FileType
    <3> DEFINE f == [file EXCEPT !.edit = edits + 1]
    <3>1. edits + 1 \in Nat OBVIOUS
    <3>2. f \in FileType BY <3>1, Zenon
    <3> HIDE DEF f
    <3>3. [f EXCEPT !.valid = valid, !.open = FALSE] \in FileType BY <3>2
    <3> QED BY <3>3 DEF f
  <2> QED BY <1>2, <2>1, <2>2, ChangeIsTold DEF WriteNews
<1>3. CASE Replace
  <2>1. PICK valid \in BOOLEAN, open \in BOOLEAN :
            Change([inode |-> edits + 1, edit |-> edits + 1, valid |-> valid /\ ~open,
                    open |-> open])
    BY <1>3 DEF Replace
  <2>2. [inode |-> edits + 1, edit |-> edits + 1, valid |-> valid /\ ~open, open |-> open]
            \in FileType
    OBVIOUS
  <2> QED BY <1>3, <2>1, <2>2, ChangeIsTold DEF Replace
<1>4. CASE Remove
  <2>1. Absent \in FileType BY DEF Absent
  <2> QED BY <1>4, <2>1, ChangeIsTold DEF Remove
<1>5. CASE Hangup
  <2>1. hup' \in [flag : BOOLEAN, sent : Nat] /\ hup'.flag BY <1>5 DEF Hangup
  <2> QED BY <1>5, <2>1 DEF Hangup
<1>6. CASE LoadNews BY <1>6 DEF LoadNews, Parsed
<1>7. CASE StartWatching BY <1>7 DEF StartWatching
<1>8. CASE TakeHangup BY <1>8 DEF TakeHangup
<1>9. CASE TakeEvents BY <1>9 DEF TakeEvents
<1>10. CASE Rearm BY <1>10 DEF Rearm
<1>11. CASE Reload BY <1>11 DEF Reload, Parsed
<1>12. CASE Swap BY <1>12 DEF Swap
<1>13. CASE UNCHANGED newsVars BY <1>13 DEF newsVars
<1> QED BY <1>1, <1>2, <1>3, <1>4, <1>5, <1>6, <1>7, <1>8, <1>9, <1>10, <1>11, <1>12, <1>13
        DEF NewsNext

\* The calendar follows the news file (watch_loop_): at rest it has the events
\* of the file as it is, however many edits, signals and reloads crossed.
THEOREM CalendarIsFollowed == NewsSpec => []CalendarFollows
<1>1. NewsInv => CalendarFollows BY DEF NewsInv, CalendarFollows, Untold
<1> QED BY <1>1, NewsInitially, NewsStep, PTL DEF NewsSpec

-----------------------------------------------------------------------------
(* Journal.  With a lock file at most one instance runs, so a save under way  *)
(* is that of the newest state; while no fault went unnoticed, what has been  *)
(* renamed is a whole file of a state that was given, not older than the last *)
(* save that returned.                                                        *)

Saving == {"opens", "writes", "renames", "syncs"}
JsonType == [n : Int, version : Int, keys : SUBSET Fields, values : SUBSET Fields]
ReadType == [n : Int, state : SUBSET Fields]

JournalTypeOK ==
    /\ files \in [main : JsonType, durable : JsonType, tmp : JsonType]
    /\ told \in Seq(SUBSET Fields)
    /\ proc \in [Instances -> [pc : Saving \cup {"dead", "runs"}, data : 0..Len(told),
                              read : ReadType]]
    /\ returned \in 0..Len(told)
    /\ lockable \in BOOLEAN /\ unsure \in BOOLEAN
    /\ breaks \in Nat

\* A save under way is of a state that was given.
Began == \A i \in Instances : proc[i].pc \in Saving => proc[i].data > 0

OneWorks == lockable => \A i \in Instances : proc[i].pc # "dead" => flocked = i

\* f is the file of a state that was given, if it is not of an older version,
\* and not older than save n, if there was one.
Whole(f, given, n) ==
    /\ f.n \in -1..Len(given)
    /\ f.n > 0 => f = ToJson(f.n, given[f.n])
    /\ f.n >= n \/ n = 0

\* r was read from such a file.
Genuine(r, given) == r.n > 0 => r.n <= Len(given) /\ r.state = given[r.n] \ RuntimeOnly

SavesNewest(i) ==
    /\ proc[i].pc \in Saving => proc[i].data = Len(told) /\ Len(told) > 0
    /\ proc[i].pc = "renames" => files.tmp = ToJson(Len(told), told[Len(told)])
    /\ proc[i].pc = "syncs" => files.main = ToJson(Len(told), told[Len(told)])

FilesWhole ==
    /\ Whole(files.main, told, returned) /\ Whole(files.durable, told, returned)
    /\ \A i \in Instances : SavesNewest(i) /\ Genuine(proc[i].read, told)

JournalInv ==
    /\ JournalTypeOK
    /\ Began
    /\ OneWorks
    /\ lockable /\ ~unsure => FilesWhole

LEMMA JournalInitially == JournalInit => JournalInv
<1> SUFFICES ASSUME JournalInit PROVE JournalInv OBVIOUS
<1>1. PICK f \in {NoFile} \cup Legacy : files = [main |-> f, durable |-> f, tmp |-> NoFile]
  BY DEF JournalInit
<1>2. NoFile \in JsonType /\ NoFile.n = -1 BY DEF NoFile, JsonType
<1>3. ASSUME NEW g \in Legacy PROVE g \in JsonType /\ g.n = 0
  BY <1>3 DEF Legacy, JsonType, Fields, Required_, Optional_
<1>4. f \in JsonType /\ f.n \in {-1, 0} BY <1>2, <1>3
<1>5. files.main = f /\ files.durable = f BY <1>1
<1>6. files \in [main : JsonType, durable : JsonType, tmp : JsonType]
  BY <1>1, <1>2, <1>4
<1>7. told = <<>> /\ Len(told) = 0 /\ told \in Seq(SUBSET Fields) /\ returned = 0
  BY DEF JournalInit
<1>8. Nothing \in ReadType /\ Nothing.n = -1 BY DEF Nothing, ReadType
<1>9. Dead = [pc |-> "dead", data |-> 0, read |-> Nothing] BY DEF Dead
<1>10. \A i \in Instances : proc[i].pc = "dead" /\ proc[i].read = Nothing
  BY <1>9 DEF JournalInit
<1>11. proc \in [Instances -> [pc : Saving \cup {"dead", "runs"}, data : 0..Len(told),
                              read : ReadType]]
  BY <1>7, <1>8, <1>9 DEF JournalInit
<1>12. JournalTypeOK
  <2>1. lockable \in BOOLEAN /\ unsure = FALSE /\ breaks = 0 BY DEF JournalInit
  <2>2. returned \in 0..Len(told) /\ breaks \in Nat BY <1>7, <2>1
  <2> QED BY <1>6, <1>7, <1>11, <2>1, <2>2 DEF JournalTypeOK
<1>13. FilesWhole
  BY <1>4, <1>5, <1>7, <1>8, <1>10 DEF FilesWhole, Whole, SavesNewest, Genuine, Saving
<1> QED BY <1>10, <1>12, <1>13 DEF JournalInv, OneWorks, Began, Saving

\* A file that a save wrote is loaded as its state, but for the fields that are
\* not written.
LEMMA LoadedAsSaved ==
    ASSUME NEW n \in Nat, NEW state \in SUBSET Fields
    PROVE  /\ ToJson(n, state) \in JsonType /\ ToJson(n, state).n = n /\ ToJson(n, state) # Torn
           /\ FromJson(ToJson(n, state)) = [n |-> n, state |-> state \ RuntimeOnly]
<1> DEFINE f == ToJson(n, state)
<1>1. f = [n |-> n, version |-> 1, keys |-> Required_ \cup Optional_,
           values |-> state \ RuntimeOnly]
  BY DEF ToJson
<1> HIDE DEF f
<1>2. (state \ RuntimeOnly) \cap (Required_ \cup Optional_) = state \ RuntimeOnly
  BY DEF Fields
<1>3. /\ f.n = n /\ f.version = 1 /\ f.keys = Required_ \cup Optional_
      /\ f.values = state \ RuntimeOnly
  BY <1>1
<1>4. FromJson(f) = [n |-> n, state |-> state \ RuntimeOnly]
  BY <1>2, <1>3 DEF FromJson
<1>5. f \in JsonType BY <1>1 DEF JsonType, Fields
<1>6. f # Torn BY <1>3 DEF Torn
<1> QED BY <1>3, <1>4, <1>5, <1>6 DEF f

\* What a process moves on to changes nothing else of it.
LEMMA Moved ==
    ASSUME JournalTypeOK, NEW i \in Instances, NEW to \in Saving \cup {"dead", "runs"},
           proc' = [proc EXCEPT ![i].pc = to]
    PROVE  /\ proc' \in [Instances -> [pc : Saving \cup {"dead", "runs"}, data : 0..Len(told),
                                       read : ReadType]]
           /\ \A j \in Instances : /\ proc'[j].pc = IF j = i THEN to ELSE proc[j].pc
                                   /\ proc'[j].data = proc[j].data
                                   /\ proc'[j].read = proc[j].read
<1> DEFINE P == [pc : Saving \cup {"dead", "runs"}, data : 0..Len(told), read : ReadType]
<1>1. proc \in [Instances -> P] BY DEF JournalTypeOK
<1>2. proc[i] \in P BY <1>1
<1>3. [proc[i] EXCEPT !.pc = to] \in P BY <1>2
<1>4. proc' = [proc EXCEPT ![i] = [proc[i] EXCEPT !.pc = to]] BY <1>1
<1>5. \A j \in Instances : proc'[j] = IF j = i THEN [proc[i] EXCEPT !.pc = to] ELSE proc[j]
  BY <1>1, <1>4
<1>6. proc' \in [Instances -> P] BY <1>1, <1>3, <1>4
<1> QED BY <1>2, <1>5, <1>6

\* load, by the only instance there is with a lock file.
LEMMA StartUpKeeps ==
    ASSUME JournalInv, NEW i \in Instances, StartUp(i) PROVE JournalInv'
<1> DEFINE r == FromJson(files.main)
<1>1. files.main \in JsonType BY DEF JournalInv, JournalTypeOK
<1>2. r \in ReadType BY <1>1 DEF FromJson, Nothing, ReadType, JsonType
<1> HIDE DEF r
<1>3. proc' = [proc EXCEPT ![i] = [pc |-> "runs", data |-> 0, read |-> r]]
  BY DEF StartUp, r
<1>4. \A j \in Instances : proc'[j] = IF j = i THEN [pc |-> "runs", data |-> 0, read |-> r]
                                     ELSE proc[j]
  BY <1>3 DEF JournalInv, JournalTypeOK
<1>5. UNCHANGED <<files, lockable, told, returned, unsure, breaks>> BY DEF StartUp
<1>6. 0 \in 0..Len(told) BY DEF JournalInv, JournalTypeOK
<1>7. JournalTypeOK'
  BY <1>2, <1>3, <1>5, <1>6 DEF JournalInv, JournalTypeOK
<1>8. Began' BY <1>4 DEF JournalInv, Began, Saving
<1>9. OneWorks'
  <2>1. SUFFICES ASSUME lockable, NEW j \in Instances, proc'[j].pc # "dead" PROVE flocked' = j
    BY <1>5 DEF OneWorks
  <2>2. flocked = Nobody /\ flocked' = i BY <2>1 DEF StartUp
  <2>3. j # i => flocked = j BY <1>4, <2>1 DEF JournalInv, OneWorks
  <2> QED BY <2>2, <2>3, InstancesAssumption
<1>10. ASSUME FilesWhole PROVE FilesWhole'
  <2>1. Genuine(r, told)
    <3> DEFINE n == files.main.n
    <3>1. CASE n > 0
      <4>1. n \in Nat /\ n \in 1..Len(told) /\ files.main = ToJson(n, told[n])
        BY <1>1, <1>10, <3>1 DEF FilesWhole, Whole, JsonType
      <4>2. told[n] \in SUBSET Fields BY <4>1 DEF JournalInv, JournalTypeOK
      <4>3. r = [n |-> n, state |-> told[n] \ RuntimeOnly]
        BY <4>1, <4>2, LoadedAsSaved DEF r
      <4> QED BY <4>1, <4>3 DEF Genuine
    <3>2. CASE ~(n > 0)
      BY <3>2 DEF r, FromJson, Nothing, Genuine
    <3> QED BY <3>1, <3>2
  <2>2. \A j \in Instances : SavesNewest(j)' /\ Genuine(proc[j].read, told)'
    BY <1>4, <1>5, <1>10, <2>1 DEF FilesWhole, SavesNewest, Genuine, Saving
  <2> QED BY <1>5, <1>10, <2>2 DEF FilesWhole, Whole
<1> QED BY <1>5, <1>7, <1>8, <1>9, <1>10 DEF JournalInv

\* save, its first line: the instance that runs is now writing the newest state.
LEMMA SaveBeginKeeps ==
    ASSUME JournalInv, NEW i \in Instances, SaveBegin(i) PROVE JournalInv'
<1> USE DEF JournalInv
<1>1. PICK state \in Given : told' = Append(told, state) BY DEF SaveBegin
<1>2. state \in SUBSET Fields BY GivenAssumption
<1>3. told \in Seq(SUBSET Fields) BY DEF JournalTypeOK
<1>4. /\ told' \in Seq(SUBSET Fields) /\ Len(told') = Len(told) + 1
      /\ \A n \in 1..Len(told) : told'[n] = told[n]
  BY <1>1, <1>2, <1>3
<1>5. UNCHANGED <<files, flocked, lockable, returned, unsure, breaks>> BY DEF SaveBegin
<1> DEFINE D == 0..Len(told)
           P(n) == [pc : Saving \cup {"dead", "runs"}, data : 0..n, read : ReadType]
           q == [pc |-> "opens", data |-> Len(told) + 1, read |-> proc[i].read]
<1>6. Len(told) \in Nat /\ proc \in [Instances -> P(Len(told))] /\ proc[i] \in P(Len(told))
  BY <1>3 DEF JournalTypeOK
<1>7. \A j \in Instances : proc'[j] = IF j = i THEN q ELSE proc[j]
  <2>1. proc' = [[proc EXCEPT ![i].pc = "opens"] EXCEPT ![i].data = Len(told) + 1]
    BY DEF SaveBegin
  <2>2. [proc EXCEPT ![i].pc = "opens"] = [proc EXCEPT ![i] = [@ EXCEPT !.pc = "opens"]]
    BY <1>6
  <2> QED BY <1>6, <2>1, <2>2
<1>8. proc' \in [Instances -> P(Len(told) + 1)]
  <2>1. q \in P(Len(told) + 1) BY <1>6 DEF Saving
  <2>2. \A j \in Instances : proc[j] \in P(Len(told) + 1) BY <1>6
  <2>3. DOMAIN proc' = Instances /\ proc' = [j \in Instances |-> proc'[j]]
    BY <1>6 DEF SaveBegin
  <2> QED BY <1>7, <2>1, <2>2, <2>3
<1>9. JournalTypeOK'
  BY <1>4, <1>5, <1>6, <1>8 DEF JournalTypeOK
<1>10. proc[i].pc = "runs" BY DEF SaveBegin
<1>11. Began'
  <2>1. ASSUME NEW j \in Instances, proc'[j].pc \in Saving PROVE proc'[j].data > 0
    <3>1. j = i => proc'[j].data = Len(told) + 1 BY <1>7
    <3>2. j # i => proc'[j] = proc[j] BY <1>7
    <3> QED BY <1>6, <2>1, <3>1, <3>2 DEF Began
  <2> QED BY <2>1 DEF Began
<1>12. OneWorks'
  <2>1. ASSUME NEW j \in Instances, proc'[j].pc # "dead" PROVE proc[j].pc # "dead"
    BY <1>7, <1>10, <2>1
  <2> QED BY <1>5, <2>1 DEF OneWorks
<1>13. ASSUME lockable, FilesWhole PROVE FilesWhole'
  <2>1. ASSUME NEW f, Whole(f, told, returned) PROVE Whole(f, told', returned)
    BY <1>4, <1>6, <2>1 DEF Whole
  <2>2. Whole(files.main, told, returned)' /\ Whole(files.durable, told, returned)'
    BY <1>5, <1>13, <2>1 DEF FilesWhole
  <2>3. \A j \in Instances : j # i => proc[j].pc = "dead"
    BY <1>10, <1>13 DEF OneWorks
  <2>4. ASSUME NEW j \in Instances PROVE SavesNewest(j)'
    <3>1. CASE j = i
      <4>1. proc'[j].pc = "opens" /\ proc'[j].data = Len(told) + 1 BY <1>7, <3>1
      <4> QED BY <1>4, <1>6, <4>1 DEF SavesNewest, Saving
    <3>2. CASE j # i
      <4>1. proc'[j].pc = "dead" BY <1>7, <2>3, <3>2
      <4> QED BY <4>1 DEF SavesNewest, Saving
    <3> QED BY <3>1, <3>2
  <2>5. ASSUME NEW j \in Instances PROVE Genuine(proc[j].read, told)'
    <3>1. proc'[j].read = proc[j].read BY <1>7
    <3>2. Genuine(proc[j].read, told) /\ proc[j].read.n \in Int
      BY <1>6, <1>13 DEF FilesWhole, ReadType
    <3>3. ASSUME proc[j].read.n > 0, proc[j].read.n <= Len(told)
          PROVE  told'[proc[j].read.n] = told[proc[j].read.n]
      BY <1>4, <1>6, <3>2, <3>3
    <3> QED BY <1>4, <1>6, <3>1, <3>2, <3>3 DEF Genuine
  <2> QED BY <2>2, <2>4, <2>5 DEF FilesWhole
<1> QED BY <1>5, <1>9, <1>11, <1>12, <1>13

\* What the steps of a save have in common: one instance moves on, and nothing
\* is saved anew.
MovesOn(i, to) ==
    /\ proc' = [proc EXCEPT ![i].pc = to]
    /\ UNCHANGED <<flocked, lockable, told>>

\* Such a step keeps the invariant when it leaves whole files behind, and the
\* one that its own instance will work on.
LEMMA StepKeeps ==
    ASSUME JournalInv, NEW i \in Instances, NEW to \in Saving \cup {"runs"}, MovesOn(i, to),
           proc[i].pc # "dead", returned' \in 0..Len(told),
           files' \in [main : JsonType, durable : JsonType, tmp : JsonType],
           unsure' \in BOOLEAN, breaks' \in Nat,
           to \in Saving => proc[i].pc \in Saving,
           lockable /\ ~unsure' =>
               /\ ~unsure
               /\ FilesWhole =>
                     /\ Whole(files'.main, told, returned')
                     /\ Whole(files'.durable, told, returned')
                     /\ to = "renames" => files'.tmp = ToJson(Len(told), told[Len(told)])
                     /\ to = "syncs" => files'.main = ToJson(Len(told), told[Len(told)])
    PROVE  JournalInv'
<1> USE DEF JournalInv
<1>1. /\ proc' \in [Instances -> [pc : Saving \cup {"dead", "runs"}, data : 0..Len(told),
                                  read : ReadType]]
      /\ \A j \in Instances : /\ proc'[j].pc = IF j = i THEN to ELSE proc[j].pc
                              /\ proc'[j].data = proc[j].data
                              /\ proc'[j].read = proc[j].read
  BY Moved DEF MovesOn
<1>2. UNCHANGED <<flocked, lockable, told>> BY DEF MovesOn
<1>3. JournalTypeOK' BY <1>1, <1>2 DEF JournalTypeOK
<1>4. OneWorks'
  <2>1. ASSUME NEW j \in Instances, proc'[j].pc # "dead" PROVE proc[j].pc # "dead"
    BY <1>1, <2>1
  <2> QED BY <1>2, <2>1 DEF OneWorks
<1>5. ASSUME lockable, ~unsure' PROVE FilesWhole'
  <2>1. FilesWhole BY <1>5
  <2>2. \A j \in Instances : j # i => proc[j].pc = "dead" BY <1>5 DEF OneWorks
  <2>3. SavesNewest(i)'
    BY <1>1, <1>2, <1>5, <2>1 DEF SavesNewest, FilesWhole
  <2>4. ASSUME NEW j \in Instances, j # i PROVE SavesNewest(j)'
    <3>1. proc'[j].pc = "dead" BY <1>1, <2>2, <2>4
    <3> QED BY <3>1 DEF SavesNewest, Saving
  <2>5. ASSUME NEW j \in Instances PROVE Genuine(proc[j].read, told)'
    BY <1>1, <1>2, <2>1 DEF FilesWhole
  <2>6. Whole(files.main, told, returned)' /\ Whole(files.durable, told, returned)'
    BY <1>2, <1>5, <2>1
  <2> QED BY <2>3, <2>4, <2>5, <2>6 DEF FilesWhole
<1>6. Began'
  <2>1. ASSUME NEW j \in Instances, proc'[j].pc \in Saving PROVE proc'[j].data > 0
    <3>1. proc[j].pc \in Saving /\ proc'[j].data = proc[j].data BY <1>1, <2>1
    <3> QED BY <3>1 DEF Began
  <2> QED BY <2>1 DEF Began
<1> QED BY <1>2, <1>3, <1>4, <1>5, <1>6

\* What a step of a save finds of its own instance.
LEMMA Saves ==
    ASSUME JournalInv, NEW i \in Instances, proc[i].pc \in Saving
    PROVE  /\ proc[i].pc # "dead" /\ proc[i].data \in 1..Len(told) /\ Len(told) \in Nat
           /\ told[proc[i].data] \in SUBSET Fields
           /\ lockable /\ ~unsure =>
                 /\ FilesWhole /\ SavesNewest(i)
                 /\ proc[i].data = Len(told) /\ Len(told) > 0
                 /\ told[Len(told)] \in SUBSET Fields
<1>1. proc[i] \in [pc : Saving \cup {"dead", "runs"}, data : 0..Len(told), read : ReadType]
  BY DEF JournalInv, JournalTypeOK
<1>2. told \in Seq(SUBSET Fields) /\ Len(told) \in Nat BY DEF JournalInv, JournalTypeOK
<1>3. ASSUME lockable, ~unsure
      PROVE  FilesWhole /\ SavesNewest(i) /\ proc[i].data = Len(told) /\ Len(told) > 0
  BY <1>3 DEF JournalInv, FilesWhole, SavesNewest
<1>4. Len(told) > 0 => told[Len(told)] \in SUBSET Fields BY <1>2
<1>5. proc[i].data \in 1..Len(told) BY <1>1, <1>2 DEF JournalInv, Began
<1>6. told[proc[i].data] \in SUBSET Fields BY <1>2, <1>5
<1> QED BY <1>2, <1>3, <1>4, <1>5, <1>6 DEF Saving

LEMMA OpenTmpKeeps ==
    ASSUME JournalInv, NEW i \in Instances, OpenTmp(i) PROVE JournalInv'
<1>1. MovesOn(i, "writes") /\ proc[i].pc = "opens" /\ UNCHANGED <<returned, unsure, breaks>>
  BY DEF OpenTmp, Move, MovesOn
<1>2. /\ files' \in [main : JsonType, durable : JsonType, tmp : JsonType]
      /\ files'.main = files.main /\ files'.durable = files.durable
  <2>1. Torn \in JsonType BY DEF Torn, JsonType
  <2> QED BY <2>1 DEF OpenTmp, JournalInv, JournalTypeOK
<1>3. returned' \in 0..Len(told) /\ unsure' \in BOOLEAN /\ breaks' \in Nat
  BY <1>1 DEF JournalInv, JournalTypeOK
<1> QED BY <1>1, <1>2, <1>3, StepKeeps DEF FilesWhole, Saving

LEMMA SaveFailsKeeps ==
    ASSUME JournalInv, NEW i \in Instances, SaveFails(i) PROVE JournalInv'
<1>1. MovesOn(i, "runs") /\ proc[i].pc # "dead" /\ UNCHANGED <<files, returned, unsure>>
  BY DEF SaveFails, MovesOn
<1>2. breaks' \in Nat BY DEF SaveFails, Break, JournalInv, JournalTypeOK
<1>3. /\ files' \in [main : JsonType, durable : JsonType, tmp : JsonType]
      /\ returned' \in 0..Len(told) /\ unsure' \in BOOLEAN
  BY <1>1 DEF JournalInv, JournalTypeOK
<1> QED BY <1>1, <1>2, <1>3, StepKeeps DEF FilesWhole, Saving

LEMMA WriteKeeps ==
    ASSUME JournalInv, NEW i \in Instances, Write(i) PROVE JournalInv'
<1>1. MovesOn(i, "renames") /\ proc[i].pc = "writes" /\ UNCHANGED returned
  BY DEF Write, Move, MovesOn
<1>2. returned' \in 0..Len(told) BY <1>1 DEF JournalInv, JournalTypeOK
<1>3. CASE files' = [files EXCEPT !.tmp = ToJson(proc[i].data, told[proc[i].data])]
           /\ UNCHANGED <<unsure, breaks>>
  <2> DEFINE f == ToJson(proc[i].data, told[proc[i].data])
  <2>1. f \in JsonType
    <3>1. proc[i].data \in Nat /\ told[proc[i].data] \in SUBSET Fields
      BY <1>1, Saves DEF Saving
    <3> QED BY <3>1, LoadedAsSaved
  <2>2. /\ files' \in [main : JsonType, durable : JsonType, tmp : JsonType]
        /\ files'.main = files.main /\ files'.durable = files.durable /\ files'.tmp = f
    BY <1>3, <2>1 DEF JournalInv, JournalTypeOK
  <2>3. lockable /\ ~unsure => f = ToJson(Len(told), told[Len(told)])
    BY <1>1, Saves DEF Saving
  <2>4. unsure' \in BOOLEAN /\ breaks' \in Nat BY <1>3 DEF JournalInv, JournalTypeOK
  <2> HIDE DEF f
  <2> QED BY <1>1, <1>2, <1>3, <2>2, <2>3, <2>4, StepKeeps DEF FilesWhole, Saving
<1>4. CASE Break /\ unsure' = TRUE /\ UNCHANGED files
  <2>1. breaks' \in Nat BY <1>4 DEF Break, JournalInv, JournalTypeOK
  <2>2. files' \in [main : JsonType, durable : JsonType, tmp : JsonType]
    BY <1>4 DEF JournalInv, JournalTypeOK
  <2> QED BY <1>1, <1>2, <1>4, <2>1, <2>2, StepKeeps DEF Saving
<1> QED BY <1>3, <1>4 DEF Write

LEMMA RenameKeeps ==
    ASSUME JournalInv, NEW i \in Instances, Rename(i) PROVE JournalInv'
<1>1. MovesOn(i, "syncs") /\ proc[i].pc = "renames" /\ UNCHANGED <<returned, unsure, breaks>>
  BY DEF Rename, Move, MovesOn
<1>2. returned' \in 0..Len(told) /\ unsure' \in BOOLEAN /\ breaks' \in Nat
  BY <1>1 DEF JournalInv, JournalTypeOK
<1>3. /\ files' \in [main : JsonType, durable : JsonType, tmp : JsonType]
      /\ files'.main = files.tmp /\ files'.durable = files.durable
  <2>1. NoFile \in JsonType BY DEF NoFile, JsonType
  <2>2. files' = [main |-> files.tmp, durable |-> files.durable, tmp |-> NoFile]
    BY DEF Rename, JournalInv, JournalTypeOK
  <2> QED BY <2>1, <2>2 DEF JournalInv, JournalTypeOK
<1>4. ASSUME lockable, ~unsure
      PROVE  /\ files.tmp = ToJson(Len(told), told[Len(told)])
             /\ Whole(files.tmp, told, returned)
  <2>1. /\ files.tmp = ToJson(Len(told), told[Len(told)])
        /\ Len(told) \in Nat /\ Len(told) > 0 /\ told[Len(told)] \in SUBSET Fields
    BY <1>1, <1>4, Saves DEF SavesNewest, Saving
  <2>2. files.tmp.n = Len(told) BY <2>1, LoadedAsSaved
  <2> QED BY <1>1, <1>2, <2>1, <2>2 DEF Whole
<1> QED BY <1>1, <1>2, <1>3, <1>4, StepKeeps DEF FilesWhole, Saving

LEMMA SyncDirectoryKeeps ==
    ASSUME JournalInv, NEW i \in Instances, SyncDirectory(i) PROVE JournalInv'
<1>1. MovesOn(i, "runs") /\ proc[i].pc = "syncs" /\ returned' = proc[i].data
  BY DEF SyncDirectory, Move, MovesOn
<1>2. returned' \in 0..Len(told) BY <1>1, Saves DEF Saving
<1>3. CASE files' = [files EXCEPT !.durable = files.main] /\ UNCHANGED <<unsure, breaks>>
  <2>1. /\ files' \in [main : JsonType, durable : JsonType, tmp : JsonType]
        /\ files'.main = files.main /\ files'.durable = files.main
    BY <1>3 DEF JournalInv, JournalTypeOK
  <2>2. unsure' \in BOOLEAN /\ breaks' \in Nat BY <1>3 DEF JournalInv, JournalTypeOK
  <2>3. ASSUME lockable, ~unsure PROVE Whole(files.main, told, returned')
    <3>1. /\ files.main = ToJson(Len(told), told[Len(told)]) /\ proc[i].data = Len(told)
          /\ Len(told) \in Nat /\ Len(told) > 0 /\ told[Len(told)] \in SUBSET Fields
      BY <1>1, <2>3, Saves DEF SavesNewest, Saving
    <3>2. files.main.n = Len(told) BY <3>1, LoadedAsSaved
    <3> QED BY <1>1, <3>1, <3>2 DEF Whole
  <2> QED BY <1>1, <1>2, <1>3, <2>1, <2>2, <2>3, StepKeeps DEF Saving
<1>4. CASE Break /\ unsure' = TRUE /\ UNCHANGED files
  <2>1. breaks' \in Nat BY <1>4 DEF Break, JournalInv, JournalTypeOK
  <2>2. files' \in [main : JsonType, durable : JsonType, tmp : JsonType]
    BY <1>4 DEF JournalInv, JournalTypeOK
  <2> QED BY <1>1, <1>2, <1>4, <2>1, <2>2, StepKeeps DEF Saving
<1> QED BY <1>3, <1>4 DEF SyncDirectory

\* Who ends gives up the lock; the files stay as they are.
LEMMA DieKeeps ==
    ASSUME JournalInv, NEW i \in Instances, Die(i) PROVE JournalInv'
<1> USE DEF JournalInv
<1>1. UNCHANGED <<files, lockable, told, returned, unsure>> BY DEF Die
<1>2. /\ Nothing \in ReadType /\ Nothing.n = -1
      /\ Dead = [pc |-> "dead", data |-> 0, read |-> Nothing]
  BY DEF Nothing, ReadType, Dead
<1>3. Len(told) \in Nat BY DEF JournalTypeOK
<1>4. Dead \in [pc : Saving \cup {"dead", "runs"}, data : 0..Len(told), read : ReadType]
  BY <1>2, <1>3
<1>5. \A j \in Instances : proc'[j] = IF j = i THEN Dead ELSE proc[j]
  BY DEF Die, JournalTypeOK
<1>6. Dead.pc = "dead" /\ Dead.read.n = -1 BY <1>2
<1>7. JournalTypeOK'
  <2>1. breaks' \in Nat BY DEF Die, Break, JournalTypeOK
  <2>2. proc' \in [Instances -> [pc : Saving \cup {"dead", "runs"}, data : 0..Len(told),
                                read : ReadType]]
    BY <1>4 DEF Die, JournalTypeOK
  <2> QED BY <1>1, <2>1, <2>2 DEF JournalTypeOK
<1>8. Began' BY <1>5, <1>6 DEF Began, Saving
<1>9. OneWorks'
  <2>1. ASSUME lockable, NEW j \in Instances, proc'[j].pc # "dead" PROVE flocked' = j
    <3>1. j # i /\ proc'[j] = proc[j] BY <1>5, <1>6, <2>1
    <3>2. flocked = j BY <2>1, <3>1 DEF OneWorks
    <3> QED BY <3>1, <3>2 DEF Die
  <2> QED BY <1>1, <2>1 DEF OneWorks
<1>10. ASSUME FilesWhole PROVE FilesWhole'
  <2>1. ASSUME NEW j \in Instances PROVE SavesNewest(j)'
    <3>1. CASE j = i
      <4>1. proc'[j].pc = "dead" BY <1>5, <1>6, <3>1
      <4> QED BY <4>1 DEF SavesNewest, Saving
    <3>2. CASE j # i
      <4>1. proc'[j] = proc[j] BY <1>5, <3>2
      <4> QED BY <1>1, <1>10, <4>1 DEF SavesNewest, FilesWhole
    <3> QED BY <3>1, <3>2
  <2>2. ASSUME NEW j \in Instances PROVE Genuine(proc[j].read, told)'
    BY <1>1, <1>5, <1>6, <1>10 DEF Genuine, FilesWhole
  <2> QED BY <1>1, <1>10, <2>1, <2>2 DEF FilesWhole
<1> QED BY <1>1, <1>7, <1>8, <1>9, <1>10

\* Power returns to a machine with what was synced, or with more of it.
LEMMA PowerLossKeeps ==
    ASSUME JournalInv, PowerLoss PROVE JournalInv'
<1> USE DEF JournalInv
<1>1. UNCHANGED <<lockable, told, returned, unsure>> BY DEF PowerLoss
<1>2. PICK f \in {files.main, files.durable} : files' = [main |-> f, durable |-> f, tmp |-> Torn]
  BY DEF PowerLoss
<1>3. Torn \in JsonType BY DEF Torn, JsonType
<1>4. f \in JsonType BY DEF JournalTypeOK
<1>5. /\ Nothing \in ReadType /\ Nothing.n = -1
      /\ Dead = [pc |-> "dead", data |-> 0, read |-> Nothing]
  BY DEF Nothing, ReadType, Dead
<1>6. Len(told) \in Nat /\ breaks' \in Nat BY DEF PowerLoss, Break, JournalTypeOK
<1>7. \A j \in Instances : proc'[j].pc = "dead" /\ proc'[j].read.n = -1
  BY <1>5 DEF PowerLoss
<1>8. JournalTypeOK'
  <2>1. files' \in [main : JsonType, durable : JsonType, tmp : JsonType]
    BY <1>2, <1>3, <1>4
  <2>2. proc' \in [Instances -> [pc : Saving \cup {"dead", "runs"}, data : 0..Len(told),
                                read : ReadType]]
    BY <1>5, <1>6 DEF PowerLoss
  <2> QED BY <1>1, <1>6, <2>1, <2>2 DEF JournalTypeOK
<1>9. Began' /\ OneWorks' BY <1>7 DEF Began, OneWorks, Saving
<1>10. ASSUME FilesWhole PROVE FilesWhole'
  <2>1. files'.main = f /\ files'.durable = f BY <1>2
  <2>2. \A j \in Instances : SavesNewest(j)' /\ Genuine(proc[j].read, told)'
    BY <1>7 DEF SavesNewest, Genuine, Saving
  <2> QED BY <1>1, <1>10, <2>1, <2>2 DEF FilesWhole
<1> QED BY <1>1, <1>8, <1>9, <1>10

LEMMA JournalStep == JournalInv /\ [JournalNext]_journalVars => JournalInv'
<1> SUFFICES ASSUME JournalInv, [JournalNext]_journalVars PROVE JournalInv' OBVIOUS
<1>1. ASSUME NEW i \in Instances,
             \/ StartUp(i) \/ SaveBegin(i) \/ OpenTmp(i) \/ SaveFails(i) \/ Write(i)
             \/ Rename(i) \/ SyncDirectory(i) \/ Die(i)
      PROVE  JournalInv'
  BY <1>1, StartUpKeeps, SaveBeginKeeps, OpenTmpKeeps, SaveFailsKeeps, WriteKeeps, RenameKeeps,
     SyncDirectoryKeeps, DieKeeps
<1>2. CASE PowerLoss BY <1>2, PowerLossKeeps
<1>3. CASE UNCHANGED journalVars
  BY <1>3 DEF journalVars, JournalInv, JournalTypeOK, Began, OneWorks, FilesWhole, Whole, Genuine,
              SavesNewest
<1> QED BY <1>1, <1>2, <1>3 DEF JournalNext

LEMMA JournalInvWhole == JournalInv => JournalWhole
<1> SUFFICES ASSUME JournalInv, lockable, ~unsure PROVE JournalWhole BY DEF JournalWhole
<1>1. FilesWhole /\ told \in Seq(SUBSET Fields) BY DEF JournalInv, JournalTypeOK
<1>2. ASSUME NEW f \in {files.main, files.durable}
      PROVE  /\ f.n >= returned \/ returned = 0
             /\ f.n > 0 => FromJson(f) = [n |-> f.n, state |-> told[f.n] \ RuntimeOnly]
             /\ f # Torn
  <2>1. f \in JsonType BY DEF JournalInv, JournalTypeOK
  <2>2. Whole(f, told, returned) BY <1>1 DEF FilesWhole
  <2>3. f # Torn BY <1>1, <2>2 DEF Whole, Torn
  <2>4. ASSUME f.n > 0 PROVE FromJson(f) = [n |-> f.n, state |-> told[f.n] \ RuntimeOnly]
    <3>1. f.n \in 1..Len(told) /\ f = ToJson(f.n, told[f.n])
      BY <2>1, <2>2, <2>4 DEF Whole, JsonType
    <3>2. f.n \in Nat /\ told[f.n] \in SUBSET Fields BY <1>1, <3>1
    <3> QED BY <3>1, <3>2, LoadedAsSaved
  <2> QED BY <2>2, <2>3, <2>4 DEF Whole
<1>3. Cardinality({i \in Instances : proc[i].pc # "dead"}) <= 1
  <2> DEFINE alive == {i \in Instances : proc[i].pc # "dead"}
  <2>1. alive \subseteq {flocked} BY DEF JournalInv, OneWorks
  <2>2. IsFiniteSet({flocked}) /\ Cardinality({flocked}) = 1 BY FS_Singleton
  <2> QED BY <2>1, <2>2, FS_Subset
<1>4. \A i \in Instances : proc[i].read.n > 0 =>
          proc[i].read.state = told[proc[i].read.n] \ RuntimeOnly
  BY <1>1 DEF FilesWhole, Genuine
<1> QED BY <1>2, <1>3, <1>4 DEF JournalWhole

\* AccountStatePersister: a start finds the state whose save returned last, or a
\* later one, whole, whenever the process before it died and whatever power was
\* lost; and one instance at a time works on the file.
THEOREM JournalIsWhole == JournalSpec => []JournalWhole
<1> QED BY JournalInitially, JournalStep, JournalInvWhole, PTL DEF JournalSpec

-----------------------------------------------------------------------------
(* ClockDrift. *)

\* An entry of the window is what was true, but for half a round trip.
DriftInv ==
    /\ samples \in [Slots -> Int] /\ truth \in [Slots -> Int] /\ next_slot \in Slots
    /\ average = Average(samples) /\ offset \in Int /\ moment \in Moments
    /\ \A i \in Slots : -Error <= samples[i] - truth[i] /\ samples[i] - truth[i] <= Error
    /\ triggered \in BOOLEAN /\ handler \in BOOLEAN /\ polled \in BOOLEAN
    /\ kills = IF triggered THEN 1 ELSE 0
    /\ triggered => handler
    /\ polled /\ handler /\ Magnitude(average) >= MaxDrift => triggered

LEMMA SlotsAre ==
    IsFiniteSet(Slots) /\ Cardinality(Slots) = WindowSize /\ 0 \in Slots
    /\ \A i \in Slots : (i + 1) % WindowSize \in Slots
<1>1. WindowSize \in Nat \ {0} BY DriftAssumption
<1>2. 0 <= WindowSize - 1 /\ WindowSize - 1 \in Int BY <1>1
<1>3. IsFiniteSet(0..WindowSize - 1) /\ Cardinality(0..WindowSize - 1) = WindowSize - 1 - 0 + 1
  BY <1>2, FS_Interval
<1>4. \A i \in 0..WindowSize - 1 : (i + 1) % WindowSize \in 0..WindowSize - 1
  <2> SUFFICES ASSUME NEW i \in 0..WindowSize - 1 PROVE (i + 1) % WindowSize \in 0..WindowSize - 1
    OBVIOUS
  <2>1. i + 1 \in Int BY <1>1
  <2>2. \A n \in Int : n % WindowSize \in 0..WindowSize - 1 BY <1>1
  <2> QED BY <2>1, <2>2
<1> QED BY <1>1, <1>2, <1>3, <1>4 DEF Slots

LEMMA AverageIs == ASSUME NEW w PROVE Average(w) = Quotient(SumOver(w, Slots), WindowSize)
BY DEF Average, SumOver, MapThenSumSet

\* The seconds of an answer are the moment, in this era or the next.
LEMMA SecondsAre ==
    ASSUME NEW m \in Nat, Era \div 2 <= m, m < Era + Era \div 2
    PROVE  Seconds1900(m % Era) = m
<1> DEFINE h == Era \div 2
           q == m \div Era
           r == m % Era
<1>1. Era \in Nat \ {0} /\ Era % 2 = 0 BY DriftAssumption
<1>2. h \in Nat /\ Era = 2 * h BY <1>1
<1>3. q \in Int /\ r \in 0..(Era - 1) /\ m = Era * q + r BY <1>1
<1>4. q < 2
  <2>1. m < 2 * Era BY <1>1, <1>2
  <2> QED BY <1>1, <2>1, DivSide
<1>5. 0 <= q
  <2>1. 0 * Era <= m BY <1>1
  <2> QED BY <1>1, <2>1, DivSide
<1> HIDE DEF q, r
<1>6. CASE q = 0
  <2>1. m = r BY <1>1, <1>3, <1>6
  <2>2. r >= h BY <2>1
  <2> QED BY <2>1, <2>2 DEF Seconds1900, r, h
<1>7. CASE q = 1
  <2>1. m = r + Era BY <1>1, <1>3, <1>7
  <2>2. ~(r >= h) BY <1>1, <1>2, <1>3, <2>1
  <2> QED BY <2>1, <2>2 DEF Seconds1900, r, h
<1> QED BY <1>3, <1>4, <1>5, <1>6, <1>7

LEMMA QueryIs ==
    ASSUME moment \in Moments, offset \in Int, NEW x \in Delays, NEW y \in Delays,
           Query(x, y).answered
    PROVE  /\ Query(x, y).sample \in Int
           /\ -Error <= Query(x, y).sample - offset /\ Query(x, y).sample - offset <= Error
<1>1. x \in Nat /\ y \in Nat /\ moment \in Nat BY DriftAssumption
<1>2. Era \div 2 <= moment + x /\ moment + x < Era + Era \div 2 BY DriftAssumption
<1>3. Seconds1900((moment + x) % Era) = moment + x BY <1>1, <1>2, SecondsAre
<1>4. ~(x + y > Timeout) BY DEF Query, NoAnswer
<1>5. Query(x, y).sample = (moment + offset + x + y) - ((moment + x) + (x + y) \div 2)
  BY <1>3, <1>4 DEF Query
<1>6. Timeout \in Nat /\ Timeout % 2 = 0 BY DriftAssumption
<1> QED BY <1>1, <1>4, <1>5, <1>6 DEF Error

LEMMA AnswerIs ==
    ASSUME moment \in Moments, offset \in Int,
           NEW there \in [Sources -> Delays], NEW back \in [Sources -> Delays], NEW a,
           a = FirstAnswer([s \in Sources |-> Query(there[s], back[s])]), a.answered
    PROVE  a.sample \in Int /\ -Error <= a.sample - offset /\ a.sample - offset <= Error
<1> DEFINE answers == [s \in Sources |-> Query(there[s], back[s])]
           good == {s \in Sources : answers[s].answered}
<1>1. good # {} BY DEF FirstAnswer, NoAnswer
<1>2. good \subseteq Nat BY DriftAssumption
<1>3. \E n \in good : \A m \in good : n <= m BY <1>1, <1>2, NatMin
<1>4. Min(good) \in good BY <1>3 DEF Min
<1>5. a = answers[Min(good)] BY <1>1 DEF FirstAnswer
<1>6. PICK s \in Sources : a = Query(there[s], back[s]) BY <1>4, <1>5
<1> QED BY <1>6, QueryIs

\* The average of a window is on the side that all its entries are on.
LEMMA AverageSide ==
    ASSUME NEW w \in [Slots -> Int], NEW c \in Nat
    PROVE  /\ Average(w) \in Int
           /\ (\A i \in Slots : c <= w[i]) => c <= Average(w)
           /\ (\A i \in Slots : w[i] <= -c) => Average(w) <= -c
           /\ (\A i \in Slots : Magnitude(w[i]) < c) => Magnitude(Average(w)) < c
<1> DEFINE n == WindowSize
           z == SumOver(w, Slots)
           k(d) == [i \in Slots |-> d]
<1>1. n \in Nat \ {0} /\ IsFiniteSet(Slots) /\ Cardinality(Slots) = n /\ 0 \in Slots
  BY DriftAssumption, SlotsAre
<1>2. z \in Int BY <1>1, SumInt
<1>3. Average(w) = IF z < 0 THEN -((-z) \div n) ELSE z \div n BY AverageIs DEF Quotient
<1>4. \A d \in Int : SumOver(k(d), Slots) = d * n
  <2> SUFFICES ASSUME NEW d \in Int PROVE SumOver(k(d), Slots) = d * n OBVIOUS
  <2>1. \A i \in Slots : k(d)[i] = d OBVIOUS
  <2> HIDE DEF k
  <2> QED BY <1>1, <2>1, SumConst
<1>5. \A d \in Int : \A i \in Slots : k(d)[i] = d OBVIOUS
<1> HIDE DEF n, z, k
<1>6. \A d \in Int : (\A i \in Slots : d <= w[i]) => d * n <= z
  <2> SUFFICES ASSUME NEW d \in Int, \A i \in Slots : d <= w[i] PROVE d * n <= z OBVIOUS
  <2>1. \A i \in Slots : k(d)[i] \in Int /\ w[i] \in Int /\ k(d)[i] <= w[i] BY <1>5
  <2>2. SumOver(k(d), Slots) <= SumOver(w, Slots) BY <1>1, <2>1, SumLeq
  <2> QED BY <1>4, <2>2 DEF z
<1>7. \A d \in Int : (\A i \in Slots : w[i] <= d) => z <= d * n
  <2> SUFFICES ASSUME NEW d \in Int, \A i \in Slots : w[i] <= d PROVE z <= d * n OBVIOUS
  <2>1. \A i \in Slots : w[i] \in Int /\ k(d)[i] \in Int /\ w[i] <= k(d)[i] BY <1>5
  <2>2. SumOver(w, Slots) <= SumOver(k(d), Slots) BY <1>1, <2>1, SumLeq
  <2> QED BY <1>4, <2>2 DEF z
<1>8. z \div n \in Int /\ (-z) \div n \in Int BY <1>1, <1>2, DivSide
<1>9. 0 <= c * n /\ c * n \in Int /\ (-c) * n = -(c * n) BY <1>1
<1>10. ASSUME \A i \in Slots : c <= w[i] PROVE c <= Average(w)
  <2>1. c * n <= z BY <1>6, <1>10
  <2>2. c <= z \div n BY <1>1, <1>2, <2>1, DivSide
  <2>3. ~(z < 0) BY <1>2, <1>9, <2>1
  <2> QED BY <1>3, <2>2, <2>3
<1>11. ASSUME \A i \in Slots : w[i] <= -c PROVE Average(w) <= -c
  <2>1. z <= (-c) * n
    <3>1. -c \in Int OBVIOUS
    <3> QED BY <1>7, <1>11, <3>1
  <2>2. c * n <= -z BY <1>2, <1>9, <2>1
  <2>3. c <= (-z) \div n BY <1>1, <1>2, <2>2, DivSide
  <2>4. CASE z < 0 BY <1>3, <1>8, <2>3, <2>4
  <2>5. CASE ~(z < 0)
    <3>1. z = 0 BY <1>2, <1>9, <2>2, <2>5
    <3>2. 0 \div n = 0 BY <1>1
    <3>3. c <= 0 BY <2>3, <3>1, <3>2
    <3>4. Average(w) = 0 BY <1>3, <3>1, <3>2
    <3> QED BY <3>3, <3>4
  <2> QED BY <2>4, <2>5
<1>12. ASSUME \A i \in Slots : Magnitude(w[i]) < c PROVE Magnitude(Average(w)) < c
  <2>1. c - 1 \in Int /\ -(c - 1) \in Int OBVIOUS
  <2>2. \A i \in Slots : w[i] <= c - 1 /\ -(c - 1) <= w[i]
    <3> SUFFICES ASSUME NEW i \in Slots PROVE w[i] <= c - 1 /\ -(c - 1) <= w[i] OBVIOUS
    <3>1. w[i] \in Int /\ Magnitude(w[i]) < c BY <1>12
    <3> QED BY <3>1 DEF Magnitude
  <2>3. z <= (c - 1) * n /\ (-(c - 1)) * n <= z BY <1>6, <1>7, <2>1, <2>2
  <2>4. (c - 1) * n = c * n - n /\ (-(c - 1)) * n = n - c * n BY <1>1
  <2>5. z < c * n /\ -z < c * n BY <1>1, <1>2, <1>9, <2>3, <2>4
  <2>6. -z \in Int BY <1>2
  <2>7. z \div n < c /\ (-z) \div n < c BY <1>1, <1>2, <2>5, <2>6, DivSide
  <2>8. CASE z < 0
    <3>1. 0 * n <= -z BY <1>1, <1>2, <2>8
    <3>2. 0 <= (-z) \div n BY <1>1, <2>6, <3>1, DivSide
    <3> QED BY <1>3, <1>8, <2>7, <2>8, <3>2 DEF Magnitude
  <2>9. CASE ~(z < 0)
    <3>1. 0 * n <= z BY <1>1, <1>2, <2>9
    <3>2. 0 <= z \div n BY <1>1, <1>2, <3>1, DivSide
    <3> QED BY <1>3, <1>8, <2>7, <2>9, <3>2 DEF Magnitude
  <2> QED BY <2>8, <2>9
<1>13. Average(w) \in Int BY <1>3, <1>8
<1> QED BY <1>10, <1>11, <1>12, <1>13

LEMMA DriftInitially == ASSUME DriftInit PROVE DriftInv
<1>1. /\ samples = [i \in Slots |-> 0] /\ truth = samples /\ next_slot = 0 /\ average = 0
      /\ offset \in Offsets /\ moment \in Moments
      /\ kills = 0 /\ polled = FALSE /\ triggered = FALSE /\ handler = FALSE
  BY DEF DriftInit
<1>2. WindowSize \in Nat \ {0} /\ Timeout \in Nat /\ Offsets \subseteq Int BY DriftAssumption
<1>3. SumOver(samples, Slots) = 0 * WindowSize BY <1>1, SlotsAre, SumConst
<1>4. Average(samples) = 0
  <2>1. SumOver(samples, Slots) = 0 BY <1>2, <1>3
  <2>2. 0 \div WindowSize = 0 BY <1>2
  <2> QED BY <2>1, <2>2, AverageIs DEF Quotient
<1>5. -Error <= 0 /\ 0 <= Error BY <1>2 DEF Error
<1>6. samples \in [Slots -> Int] /\ truth \in [Slots -> Int] BY <1>1
<1>7. \A i \in Slots : -Error <= samples[i] - truth[i] /\ samples[i] - truth[i] <= Error
  BY <1>1, <1>5
<1>8. next_slot \in Slots /\ average = Average(samples) /\ offset \in Int
  BY <1>1, <1>2, <1>4, SlotsAre
<1> QED BY <1>1, <1>6, <1>7, <1>8 DEF DriftInv

\* Steps other than a poll.
LEMMA OtherStep ==
    ASSUME DriftInv, StartMonitor \/ StopMonitor \/ SetKillSwitch \/ ClockMoves \/ UNCHANGED driftVars
    PROVE  DriftInv'
<1>1. UNCHANGED <<samples, next_slot, average, triggered, truth, kills>>
  BY DEF StartMonitor, StopMonitor, SetKillSwitch, ClockMoves, driftVars
<1>2. \/ polled' = FALSE
      \/ UNCHANGED <<handler, polled>>
  BY DEF StartMonitor, StopMonitor, SetKillSwitch, ClockMoves, driftVars
<1>3. handler' \in BOOLEAN /\ (handler => handler')
  BY DEF StartMonitor, StopMonitor, SetKillSwitch, ClockMoves, driftVars, DriftInv
<1>4. offset' \in Int /\ moment' \in Moments
  BY DriftAssumption DEF StartMonitor, StopMonitor, SetKillSwitch, ClockMoves, driftVars, DriftInv
<1>5. Average(samples)' = Average(samples) BY <1>1
<1>6. polled' \in BOOLEAN
      /\ (polled' /\ handler' /\ Magnitude(average') >= MaxDrift => triggered')
  <2>1. CASE polled' = FALSE BY <2>1
  <2>2. CASE UNCHANGED <<handler, polled>>
    <3>1. polled' = polled /\ handler' = handler /\ average' = average /\ triggered' = triggered BY <1>1, <2>2
    <3>2. polled \in BOOLEAN /\ (polled /\ handler /\ Magnitude(average) >= MaxDrift => triggered)
      BY DEF DriftInv
    <3> QED BY <3>1, <3>2
  <2> QED BY <1>2, <2>1, <2>2
<1>7. triggered' \in BOOLEAN /\ (triggered' => handler') /\ kills' = IF triggered' THEN 1 ELSE 0
  BY <1>1, <1>3 DEF DriftInv
<1>8. /\ samples' \in [Slots -> Int] /\ truth' \in [Slots -> Int] /\ next_slot' \in Slots
      /\ average' = Average(samples)'
      /\ \A i \in Slots : -Error <= samples'[i] - truth'[i] /\ samples'[i] - truth'[i] <= Error
  BY <1>1, <1>5 DEF DriftInv
<1> QED BY <1>3, <1>4, <1>6, <1>7, <1>8 DEF DriftInv, Error

LEMMA PollStep == ASSUME DriftInv, Poll PROVE DriftInv'
<1>1. PICK there \in [Sources -> Delays], back \in [Sources -> Delays] :
          LET answer == FirstAnswer([s \in Sources |-> Query(there[s], back[s])])
              w == [samples EXCEPT ![next_slot] = answer.sample]
          IN  IF answer.answered
              THEN /\ samples' = w
                   /\ next_slot' = (next_slot + 1) % WindowSize
                   /\ average' = Average(w)
                   /\ Evaluate(Average(w))
                   /\ truth' = [truth EXCEPT ![next_slot] = offset]
                   /\ polled' = TRUE
              ELSE /\ polled' = FALSE
                   /\ UNCHANGED <<samples, next_slot, average, triggered, truth, kills>>
  BY DEF Poll
<1> DEFINE a == FirstAnswer([s \in Sources |-> Query(there[s], back[s])])
<1>2. UNCHANGED <<handler, offset, moment>> BY DEF Poll
<1>3. CASE ~a.answered
  <2>1. polled' = FALSE /\ UNCHANGED <<samples, next_slot, average, triggered, truth, kills>> BY <1>1, <1>3
  <2>2. Average(samples)' = Average(samples) BY <2>1
  <2> QED BY <1>2, <2>1, <2>2 DEF DriftInv, Error
<1>4. CASE a.answered
  <2>1. /\ samples' = [samples EXCEPT ![next_slot] = a.sample]
        /\ next_slot' = (next_slot + 1) % WindowSize /\ average' = Average(samples')
        /\ Evaluate(average') /\ truth' = [truth EXCEPT ![next_slot] = offset] /\ polled' = TRUE
    BY <1>1, <1>4
  <2>2. moment \in Moments /\ offset \in Int BY DEF DriftInv
  <2>3. a.sample \in Int /\ -Error <= a.sample - offset /\ a.sample - offset <= Error
    BY <1>4, <2>2, AnswerIs
  <2> HIDE DEF a
  <2>4. /\ samples \in [Slots -> Int] /\ truth \in [Slots -> Int] /\ next_slot \in Slots
        /\ \A i \in Slots : -Error <= samples[i] - truth[i] /\ samples[i] - truth[i] <= Error
    BY DEF DriftInv
  <2>5. samples' \in [Slots -> Int] /\ truth' \in [Slots -> Int] BY <2>1, <2>2, <2>3, <2>4
  <2>6. \A i \in Slots : -Error <= samples'[i] - truth'[i] /\ samples'[i] - truth'[i] <= Error
    BY <2>1, <2>3, <2>4
  <2>7. next_slot' \in Slots BY <2>1, <2>4, SlotsAre
  <2>8. /\ triggered' \in BOOLEAN /\ kills' = (IF triggered' THEN 1 ELSE 0)
        /\ triggered' => handler
        /\ handler /\ Magnitude(average') >= MaxDrift => triggered'
    <3>1. triggered \in BOOLEAN /\ handler \in BOOLEAN /\ kills = (IF triggered THEN 1 ELSE 0)
          /\ (triggered => handler)
      BY DEF DriftInv
    <3>2. CASE Magnitude(average') >= MaxDrift
      <4>1. /\ triggered' = (triggered \/ handler)
            /\ kills' = IF handler /\ ~triggered THEN kills + 1 ELSE kills
        <5>1. average' \in Int /\ MaxDrift \in Nat /\ Magnitude(average') \in Int
          <6>1. 0 \in Nat /\ MaxDrift \in Nat BY DriftAssumption
          <6>2. Average(samples') \in Int BY <2>5, <6>1, AverageSide
          <6>3. average' \in Int BY <2>1, <6>2
          <6> QED BY <6>1, <6>3 DEF Magnitude
        <5>2. ~(Magnitude(average') < MaxDrift) BY <3>2, <5>1
        <5> QED BY <2>1, <5>2 DEF Evaluate
      <4>2. CASE handler
        <5>1. triggered' = TRUE BY <4>1, <4>2
        <5>2. kills' = 1 BY <3>1, <4>1, <4>2
        <5> QED BY <4>2, <5>1, <5>2
      <4>3. CASE ~handler
        <5>1. triggered' = FALSE /\ kills' = 0 BY <3>1, <4>1, <4>3
        <5> QED BY <4>3, <5>1
      <4> QED BY <4>2, <4>3
    <3>3. CASE ~(Magnitude(average') >= MaxDrift)
      <4>1. UNCHANGED <<triggered, kills>> \/ (triggered' = FALSE /\ kills' = 0)
        BY <2>1, <3>3 DEF Evaluate
      <4>2. CASE UNCHANGED <<triggered, kills>> BY <3>1, <3>3, <4>2
      <4>3. CASE triggered' = FALSE /\ kills' = 0 BY <3>3, <4>3
      <4> QED BY <4>1, <4>2, <4>3
    <3> QED BY <3>2, <3>3
  <2>9. handler' \in BOOLEAN /\ handler' = handler /\ offset' \in Int /\ moment' \in Moments
    BY <1>2, <2>2 DEF DriftInv
  <2>10. Average(samples)' = Average(samples') OBVIOUS
  <2> QED BY <2>1, <2>5, <2>6, <2>7, <2>8, <2>9, <2>10 DEF DriftInv, Error
<1> QED BY <1>3, <1>4

LEMMA DriftInvJudges == ASSUME DriftInv PROVE DriftJudged
<1>1. /\ samples \in [Slots -> Int] /\ truth \in [Slots -> Int] /\ average = Average(samples)
      /\ \A i \in Slots : -Error <= samples[i] - truth[i] /\ samples[i] - truth[i] <= Error
      /\ triggered \in BOOLEAN /\ kills = IF triggered THEN 1 ELSE 0
      /\ triggered => handler
      /\ polled /\ handler /\ Magnitude(average) >= MaxDrift => triggered
  BY DEF DriftInv
<1>2. MaxDrift \in Nat /\ Error \in Nat BY DriftAssumption DEF Error
<1>3. average \in Int BY <1>1, AverageSide
<1>4. kills <= 1 BY <1>1
<1>5. ASSUME Magnitude(average) >= MaxDrift
      PROVE  \E i \in Slots : Magnitude(truth[i]) >= MaxDrift - Error
  <2> SUFFICES ASSUME \A i \in Slots : ~(Magnitude(truth[i]) >= MaxDrift - Error) PROVE FALSE
    OBVIOUS
  <2>1. \A i \in Slots : Magnitude(samples[i]) < MaxDrift
    <3> SUFFICES ASSUME NEW i \in Slots PROVE Magnitude(samples[i]) < MaxDrift OBVIOUS
    <3>1. samples[i] \in Int /\ truth[i] \in Int /\ ~(Magnitude(truth[i]) >= MaxDrift - Error)
          /\ -Error <= samples[i] - truth[i] /\ samples[i] - truth[i] <= Error
      BY <1>1
    <3> QED BY <1>2, <3>1 DEF Magnitude
  <2>2. Magnitude(average) < MaxDrift BY <1>1, <1>2, <2>1, AverageSide
  <2> QED BY <1>2, <1>3, <1>5, <2>2 DEF Magnitude
<1>6. ASSUME polled, handler,
             \/ \A i \in Slots : truth[i] >= MaxDrift + Error
             \/ \A i \in Slots : truth[i] <= -(MaxDrift + Error)
      PROVE  triggered /\ kills = 1
  <2>1. CASE \A i \in Slots : truth[i] >= MaxDrift + Error
    <3>1. \A i \in Slots : MaxDrift <= samples[i]
      <4> SUFFICES ASSUME NEW i \in Slots PROVE MaxDrift <= samples[i] OBVIOUS
      <4>1. samples[i] \in Int /\ truth[i] \in Int /\ truth[i] >= MaxDrift + Error
            /\ -Error <= samples[i] - truth[i]
        BY <1>1, <2>1
      <4> QED BY <1>2, <4>1
    <3>2. MaxDrift <= average BY <1>1, <1>2, <3>1, AverageSide
    <3>3. Magnitude(average) >= MaxDrift BY <1>2, <1>3, <3>2 DEF Magnitude
    <3> QED BY <1>1, <1>6, <3>3
  <2>2. CASE \A i \in Slots : truth[i] <= -(MaxDrift + Error)
    <3>1. \A i \in Slots : samples[i] <= -MaxDrift
      <4> SUFFICES ASSUME NEW i \in Slots PROVE samples[i] <= -MaxDrift OBVIOUS
      <4>1. samples[i] \in Int /\ truth[i] \in Int /\ truth[i] <= -(MaxDrift + Error)
            /\ samples[i] - truth[i] <= Error
        BY <1>1, <2>2
      <4> QED BY <1>2, <4>1
    <3>2. average <= -MaxDrift BY <1>1, <1>2, <3>1, AverageSide
    <3>3. Magnitude(average) >= MaxDrift BY <1>2, <1>3, <3>2 DEF Magnitude
    <3> QED BY <1>1, <1>6, <3>3
  <2> QED BY <1>6, <2>1, <2>2
<1> QED BY <1>1, <1>4, <1>5, <1>6 DEF DriftJudged

\* ClockDriftMonitor: the handler, which stops trading, is called for a clock
\* that is off, once, and only for one, however many servers, slots and
\* milliseconds there are, and across the wrap of the seconds field.
THEOREM DriftIsJudged == DriftSpec => []DriftJudged
<1>1. DriftInit => DriftInv BY DriftInitially
<1>2. DriftInv /\ [DriftNext]_driftVars => DriftInv' BY OtherStep, PollStep DEF DriftNext
<1>3. DriftInv => DriftJudged BY DriftInvJudges
<1> QED BY <1>1, <1>2, <1>3, PTL DEF DriftSpec
=============================================================================
