------------------------- MODULE PaperExecutorProofs -------------------------
(***************************************************************************)
(* Theorems about PaperExecutor for every set of plans, tickers and        *)
(* quotes: its types, that a take-profit gains, and that it implements     *)
(* TradeLifecycle.  The inductive invariant is TypeOK /\ Sound /\ Ahead.   *)
(***************************************************************************)
EXTENDS PaperExecutor, FiniteSetTheorems, TLAPS

\* A position as the rest of the state has it: what is booked and what it
\* holds make up its plan, its plan waits no more and has not ended; a plan
\* that waits, or was not taken yet, has nothing booked and has not ended.
Sound ==
    /\ \A t \in Held : /\ booked[pos[t].plan.id] + pos[t].lots = pos[t].plan.lots
                       /\ pos[t].plan.id \notin exited
                       /\ ~Waiting(pos[t].plan)
                       /\ pos[t].tp > 0 => pos[t].lots = pos[t].plan.lots
    /\ \A p \in Plans : p \notin taken \/ Waiting(p) => booked[p.id] = 0 /\ p.id \notin exited

\* The target of a position is ahead of its average price by more than the
\* slippage.
Gains(x) == x.open /\ x.tp > 0 => x.plan.dir * (x.tp - x.avg) >= Slip
Ahead == \A t \in Tickers : Gains(pos[t])

IInv == TypeOK /\ Sound

\* Plans are told apart by their id.
LEMMA PlanOfId == \A p \in Plans : p.id \in Ids /\ PlanOf(p.id) = p
<1> SUFFICES ASSUME NEW p \in Plans PROVE p.id \in Ids /\ PlanOf(p.id) = p
  OBVIOUS
<1>1. PlanOf(p.id) \in Plans /\ PlanOf(p.id).id = p.id
  BY DEF PlanOf
<1> QED BY <1>1, PaperAssumption DEF Ids

LEMMA IdsOfPlans == \A i \in Ids : \E p \in Plans : i = p.id
  BY DEF Ids

\* The status the refinement gives a plan, before and after a step.
LEMMA StatusIsStage ==
    ASSUME NEW p \in Plans
    PROVE  Status[p.id] = Stage(p) /\ Status'[p.id] = Stage(p)'
  BY PlanOfId DEF Status, Stage, Waiting, Held

\* The fields of a plan.
LEMMA PlanFields ==
    ASSUME NEW p \in Plans
    PROVE  /\ p.tk \in Tickers /\ p.dir \in {-1, 1} /\ p.market \in BOOLEAN
           /\ p.entry \in Nat /\ p.stop \in Nat /\ p.tp \in Nat /\ p.lots \in Nat
           /\ p.part \in Nat /\ p.ttl \in Nat /\ p.noProgress \in Nat
           /\ p.grace \in Nat /\ p.follow \in Nat /\ p.part < p.lots
  BY PaperAssumption

\* The quotes of the market are records of two prices.
LEMMA QuoteShape == \A q \in Quotes : q \in Quote
  BY PaperAssumption DEF Quote

----------------------------------------------------------------------------
(* One tick of a ticker.                                                   *)

\* Opening is well-typed and keeps target and average as far apart as the
\* plan has them (tick, the shift of stop and target with the fill).
LEMMA OpenedShape ==
    ASSUME NEW p \in Plans, NEW q \in Quote, NEW at \in Int
    PROVE  LET x == Opened(p, q, at)
           IN  /\ x \in Position /\ x.open /\ x.plan = p /\ x.lots = p.lots /\ x.since = at
               /\ Gains(x)
<1> DEFINE price == EntryQuote(q, p.dir) + p.dir * Slip
<1>1. price \in Int
  BY PlanFields, PaperAssumption DEF EntryQuote, Quote
<1>2. /\ Opened(p, q, at).open /\ Opened(p, q, at).plan = p /\ Opened(p, q, at).lots = p.lots
      /\ Opened(p, q, at).since = at /\ Opened(p, q, at).avg = price
      /\ Opened(p, q, at).stop = p.stop + (price - p.entry)
      /\ Opened(p, q, at).tp = IF p.tp > 0 THEN p.tp + (price - p.entry) ELSE 0
  BY DEF Opened
<1>3. Opened(p, q, at) \in Position
  BY <1>1, PlanFields DEF Opened, Position
<1>4. Gains(Opened(p, q, at))
  <2> SUFFICES ASSUME Opened(p, q, at).tp > 0
               PROVE  p.dir * (Opened(p, q, at).tp - Opened(p, q, at).avg) >= Slip
    BY <1>2 DEF Gains
  <2>1. p.tp > 0 /\ Opened(p, q, at).tp = p.tp + (price - p.entry)
    BY <1>2, PlanFields
  <2>2. Opened(p, q, at).tp - Opened(p, q, at).avg = p.tp - p.entry
    BY <2>1, <1>1, <1>2, PlanFields
  <2> QED BY <2>1, <2>2, TargetAssumption
<1> QED BY <1>2, <1>3, <1>4

\* What the entries of a tick leave: the position there was, or a new one of
\* a plan that waited and waits no more.
LEMMA AfterEntriesShape ==
    ASSUME IInv, NEW t \in Tickers, NEW at \in Int, at <= now, NEW qe \in Quote,
           NEW x \in AfterEntries(t, qe, at),
           pending' = pending \ (Filling(t, qe, at) \cup Expired(t, at))
    PROVE  \/ x = pos[t]
           \/ /\ ~pos[t].open
              /\ x \in Position /\ x.open /\ x.plan \in taken /\ x.plan.tk = t
              /\ x.lots = x.plan.lots /\ x.since <= now /\ Gains(x)
              /\ Waiting(x.plan) /\ ~Waiting(x.plan)'
<1> SUFFICES ASSUME x # pos[t]
             PROVE  /\ ~pos[t].open
                    /\ x \in Position /\ x.open /\ x.plan \in taken /\ x.plan.tk = t
                    /\ x.lots = x.plan.lots /\ x.since <= now /\ Gains(x)
                    /\ Waiting(x.plan) /\ ~Waiting(x.plan)'
  OBVIOUS
<1>1. ~pos[t].open /\ \E e \in Filling(t, qe, at) : x = Opened(e.plan, qe, at)
  BY DEF AfterEntries
<1>2. PICK e \in Filling(t, qe, at) : x = Opened(e.plan, qe, at)
  BY <1>1
<1>3. /\ e \in pending /\ e.plan \in Plans /\ e.plan \in taken /\ e.plan.tk = t
      /\ Usable(qe) /\ Fills(e.plan, qe)
  BY DEF Filling, IInv, TypeOK, Entry
<1>4. x \in Position /\ x.open /\ x.plan = e.plan /\ x.lots = e.plan.lots /\ x.since = at /\ Gains(x)
  BY <1>2, <1>3, OpenedShape
<1>5. \A f \in pending : f.plan = e.plan => f \in Filling(t, qe, at) \cup Expired(t, at)
  <2> SUFFICES ASSUME NEW f \in pending, f.plan = e.plan
               PROVE  f \in Filling(t, qe, at) \cup Expired(t, at)
    OBVIOUS
  <2>1. f.until \in Nat BY DEF IInv, TypeOK, Entry
  <2>2. CASE at <= f.until BY <2>2, <1>3 DEF Filling
  <2>3. CASE at > f.until BY <2>3, <1>3 DEF Expired
  <2> QED BY <2>1, <2>2, <2>3
<1>6. Waiting(x.plan) /\ ~Waiting(x.plan)'
  BY <1>3, <1>4, <1>5 DEF Waiting
<1> QED BY <1>1, <1>3, <1>4, <1>6

\* The reasons a position is closed for, and the states they come from.
LEMMA ReasonShape ==
    ASSUME NEW x, NEW q, NEW at
    PROVE  /\ Reason(x, q, at) \in {"none", "StopLoss", "TakeProfit", "NoProgress", "FollowThrough"}
           /\ Reason(x, q, at) # "none" => x.open
           /\ Reason(x, q, at) = "TakeProfit" => Usable(q) /\ TpHit(x, q)
  BY DEF Reason

\* Why a part of a position is closed.
Whys == {"StopLoss", "TakeProfit", "NoProgress", "FollowThrough", "Requested"}

\* The recorded trade of a part or all of a position is well-typed.
LEMMA TradeShape ==
    ASSUME NEW x \in Position, NEW n \in Nat, n # 0, NEW price \in Int, NEW why \in Whys
    PROVE  /\ Trade(x, n, price, why) \in Closed
           /\ Trade(x, n, price, why).why = why
           /\ Trade(x, n, price, why).pnl = x.plan.dir * (price - x.avg) * n
<1>1. x.plan \in Plans /\ x.avg \in Int
  BY DEF Position
<1>2. x.plan.dir \in Int /\ x.plan.id \in Ids
  BY <1>1, PlanFields, PlanOfId
<1>3. x.plan.dir * (price - x.avg) \in Int
  BY <1>1, <1>2
<1>4. x.plan.dir * (price - x.avg) * n \in Int
  BY <1>3
<1> QED BY <1>2, <1>4, SMTT(30) DEF Trade, Closed, Whys

LEMMA ExitPriceInt ==
    ASSUME NEW x \in Position, NEW q \in Quote, NEW why
    PROVE  ExitPrice(x, q, why) \in Int
<1>1. x.plan.dir \in {-1, 1} /\ Slip \in Nat
  BY PlanFields, PaperAssumption DEF Position
<1>2. ExitQuote(q, x.plan.dir) \in Int /\ EntryQuote(q, x.plan.dir) \in Int /\ x.plan.dir * Slip \in Int
  BY <1>1 DEF ExitQuote, EntryQuote, Quote
<1> QED BY <1>2 DEF ExitPrice
----------------------------------------------------------------------------
(* What a tick, or a close, makes of the position of a ticker.             *)

\* Candidate x is the position of t when the exits are looked at.
Candidate(t, x) ==
    \/ x = pos[t]
    \/ /\ ~pos[t].open
       /\ x \in Position /\ x.open /\ x.plan \in taken /\ x.plan.tk = t
       /\ x.lots = x.plan.lots /\ x.since <= now /\ Gains(x) /\ Waiting(x.plan)

\* An open candidate agrees with the rest of the state.
Fit(t, x) ==
    /\ x \in Position /\ x.plan \in Plans /\ x.plan \in taken /\ x.plan.tk = t
    /\ x.lots \in 1..x.plan.lots /\ x.since <= now
    /\ booked[x.plan.id] + x.lots = x.plan.lots /\ x.plan.id \notin exited
    /\ x.tp > 0 => x.lots = x.plan.lots

LEMMA CandidateFits ==
    ASSUME IInv, NEW t \in Tickers, NEW x, Candidate(t, x), x.open
    PROVE  Fit(t, x)
<1>1. CASE x = pos[t]
  <2>1. t \in Held BY <1>1 DEF Held
  <2>2. x \in Position BY <1>1, <2>1 DEF IInv, TypeOK, Held, NoPos
  <2> QED BY <1>1, <2>1, <2>2 DEF IInv, TypeOK, Sound, Fit
<1>2. CASE x # pos[t]
  <2>1. x \in Position /\ x.plan \in taken /\ x.plan \in Plans /\ x.plan.tk = t
        /\ x.lots = x.plan.lots /\ x.since <= now /\ Waiting(x.plan)
    BY <1>2 DEF Candidate, IInv, TypeOK
  <2>2. booked[x.plan.id] = 0 /\ x.plan.id \notin exited
    BY <2>1 DEF IInv, Sound
  <2>3. x.plan.lots \in Nat /\ x.plan.lots > 0
    BY <2>1, PlanFields
  <2> QED BY <2>1, <2>2, <2>3 DEF Fit
<1> QED BY <1>1, <1>2

\* The candidate stays, or n of its lots are recorded as closed at price.
Keeps(t, x) == pos' = [pos EXCEPT ![t] = x] /\ UNCHANGED <<closed, booked, exited>>
Closes(t, x, n, price, why) ==
    /\ x.open /\ n \in 1..x.lots
    /\ closed' = Append(closed, Trade(x, n, price, why))
    /\ booked' = [booked EXCEPT ![x.plan.id] = @ + n]
    /\ \/ /\ n < x.lots /\ x.lots = x.plan.lots
          /\ pos' = [pos EXCEPT ![t] = Rest(x, n)] /\ exited' = exited
       \/ /\ n = x.lots
          /\ pos' = [pos EXCEPT ![t] = NoPos] /\ exited' = exited \cup {x.plan.id}

\* Entries that go are entries of the ticker.
Goes(t) == pending' \subseteq pending /\ \A e \in pending \ pending' : e.plan.tk = t

\* A target is hit at a price that gains.
LEMMA TargetGains ==
    ASSUME NEW x \in Position, NEW q \in Quote, TpHit(x, q), Gains(x)
    PROVE  x.plan.dir * (ExitPrice(x, q, "TakeProfit") - x.avg) >= 0
<1> DEFINE d == x.plan.dir
           e == EntryQuote(q, d)
<1>0. x.plan \in Plans /\ x.avg \in Int /\ x.tp \in Int /\ x.open
  BY DEF Position
<1>a. x.tp > 0
  BY DEF TpHit
<1>1. d \in {-1, 1} /\ Slip \in Nat /\ e \in Int
  BY <1>0, PlanFields, PaperAssumption DEF EntryQuote, Quote
<1>2. ExitPrice(x, q, "TakeProfit") = e - d * Slip
  BY DEF ExitPrice
<1>3. d * (e - x.tp) >= 0 /\ d * (x.tp - x.avg) >= Slip
  BY <1>0, <1>a DEF TpHit, Gains
<1>4. CASE d = 1
  BY <1>0, <1>1, <1>2, <1>3, <1>4
<1>5. CASE d = -1
  BY <1>0, <1>1, <1>2, <1>3, <1>5
<1> QED BY <1>1, <1>4, <1>5

\* A tick in these terms (PaperExecutor::tick under the mutex).
LEMMA TickCases ==
    ASSUME IInv, NEW t \in Tickers, NEW at \in Int, at <= now, NEW qe \in Quote, NEW qx \in Quote,
           TickTicker(t, at, qe, qx)
    PROVE  /\ Goes(t)
           /\ \E x : /\ Candidate(t, x)
                     /\ x.open => ~Waiting(x.plan)'
                     /\ \/ Keeps(t, x)
                       \/ \E n \in Nat, price \in Int, why \in Whys :
                             /\ Closes(t, x, n, price, why)
                             /\ why = "TakeProfit" /\ Gains(x) => x.plan.dir * (price - x.avg) >= 0
<1> USE DEF Whys
<1>1. PICK x \in AfterEntries(t, qe, at) :
        LET why == Reason(x, qx, at)
            n == IF Partial(x, why) THEN x.plan.part ELSE x.lots
        IN  /\ pending' = pending \ (Filling(t, qe, at) \cup Expired(t, at))
            /\ IF why = "none"
               THEN /\ pos' = [pos EXCEPT ![t] = x]
                    /\ UNCHANGED <<closed, booked, exited>>
               ELSE /\ pos' = [pos EXCEPT ![t] = IF Partial(x, why) THEN Rest(x, n) ELSE NoPos]
                    /\ closed' = Append(closed, Trade(x, n, ExitPrice(x, qx, why), why))
                    /\ booked' = [booked EXCEPT ![x.plan.id] = @ + n]
                    /\ exited' = IF Partial(x, why) THEN exited ELSE exited \cup {x.plan.id}
  BY DEF TickTicker
<1> DEFINE why == Reason(x, qx, at)
           n == IF Partial(x, why) THEN x.plan.part ELSE x.lots
           price == ExitPrice(x, qx, why)
<1>2. pending' = pending \ (Filling(t, qe, at) \cup Expired(t, at))
  BY <1>1
<1>3. Goes(t)
  BY <1>2 DEF Goes, Filling, Expired
<1>4. \/ x = pos[t]
      \/ /\ ~pos[t].open
         /\ x \in Position /\ x.open /\ x.plan \in taken /\ x.plan.tk = t
         /\ x.lots = x.plan.lots /\ x.since <= now /\ Gains(x)
         /\ Waiting(x.plan) /\ ~Waiting(x.plan)'
  BY <1>2, AfterEntriesShape
<1>5. Candidate(t, x)
  BY <1>4 DEF Candidate
<1>6. x.open => ~Waiting(x.plan)'
  <2>1. CASE x = pos[t]
    BY <2>1, <1>2 DEF IInv, Sound, Held, Waiting
  <2> QED BY <2>1, <1>4
<1>7. CASE why = "none"
  BY <1>1, <1>3, <1>5, <1>6, <1>7 DEF Keeps
<1>8. CASE why # "none"
  <2>1. x.open /\ why \in Whys /\ (why = "TakeProfit" => TpHit(x, qx))
    BY <1>8, ReasonShape
  <2>2. Fit(t, x) BY <2>1, <1>5, CandidateFits
  <2>3. x \in Position /\ x.plan \in Plans BY <2>2 DEF Fit
  <2>4. price \in Int BY <2>3, ExitPriceInt
  <2>5. x.lots \in Nat /\ x.plan.part \in Nat /\ x.plan.lots \in Nat /\ x.plan.part < x.plan.lots
        /\ x.tp \in Int
    BY <2>3, PlanFields DEF Position
  <2>6. why = "TakeProfit" /\ Gains(x) => x.plan.dir * (price - x.avg) >= 0
    BY <2>1, <2>3, TargetGains
  <2>7. n \in Nat /\ Closes(t, x, n, price, why)
    <3>1. CASE Partial(x, why)
      <4>1. x.tp > 0 /\ x.lots = x.plan.lots /\ x.plan.part > 0
        BY <3>1, <2>1, <2>2 DEF Partial, TpHit, Fit
      <4>2. n = x.plan.part /\ n \in 1..x.lots /\ n < x.lots
        BY <3>1, <4>1, <2>5
      <4> QED BY <1>1, <1>8, <3>1, <4>1, <4>2, <2>1, <2>5 DEF Closes
    <3>2. CASE ~Partial(x, why)
      <4>1. n = x.lots /\ n \in 1..x.lots
        BY <3>2, <2>2, <2>5 DEF Fit
      <4> QED BY <1>1, <1>8, <3>2, <4>1, <2>1, <2>5 DEF Closes
    <3> QED BY <3>1, <3>2
  <2>8. \E m \in Nat, pr \in Int, w \in Whys :
             /\ Closes(t, x, m, pr, w)
             /\ w = "TakeProfit" /\ Gains(x) => x.plan.dir * (pr - x.avg) >= 0
    BY <2>1, <2>4, <2>6, <2>7
  <2> QED BY <1>3, <1>5, <1>6, <2>8
<1> QED BY <1>7, <1>8
----------------------------------------------------------------------------
(* The inductive invariant.                                                *)

\* The part of the types that a tick or a close may disturb.
PosTyped ==
    /\ pos \in [Tickers -> Position \cup {NoPos}]
    /\ \A t \in Held : /\ pos[t].plan \in taken /\ pos[t].plan.tk = t
                       /\ pos[t].lots \in 1..pos[t].plan.lots
                       /\ pos[t].since <= now
    /\ closed \in Seq(Closed)
    /\ booked \in [Ids -> Nat] /\ exited \subseteq Ids

\* The candidate stays: its plan has left the entries, so nothing waits that
\* is also held.
LEMMA KeepsInv ==
    ASSUME IInv, NEW t \in Tickers, NEW x, Candidate(t, x), x.open => ~Waiting(x.plan)',
           Goes(t), Keeps(t, x), now' = now, taken' = taken
    PROVE  PosTyped' /\ Sound'
<1>1. x \in Position \cup {NoPos}
  BY DEF Candidate, IInv, TypeOK
<1>2. /\ pos' \in [Tickers -> Position \cup {NoPos}] /\ pos'[t] = x
      /\ \A u \in Tickers \ {t} : pos'[u] = pos[u]
  BY <1>1 DEF Keeps, IInv, TypeOK
<1>3. closed' = closed /\ booked' = booked /\ exited' = exited
  BY DEF Keeps
<1>4. ASSUME NEW u \in Held'
      PROVE  Fit(u, pos'[u]) /\ ~Waiting(pos[u].plan)'
  <2>1. u \in Tickers /\ pos'[u].open BY <1>4 DEF Held
  <2>2. CASE u = t
    <3>1. pos'[u] = x /\ x.open BY <1>2, <2>1, <2>2
    <3>2. Fit(t, x) BY <3>1, CandidateFits
    <3>3. ~Waiting(pos[u].plan)' BY <3>1 DEF Waiting
    <3> QED BY <2>2, <3>1, <3>2, <3>3
  <2>3. CASE u # t
    <3>1. pos'[u] = pos[u] /\ u \in Held BY <1>2, <2>1, <2>3 DEF Held
    <3>2. Candidate(u, pos[u]) /\ pos[u].open BY <3>1 DEF Candidate, Held
    <3>3. Fit(u, pos[u]) BY <2>1, <3>2, CandidateFits
    <3>4. ~Waiting(pos[u].plan) BY <3>1 DEF IInv, Sound
    <3>5. ~Waiting(pos[u].plan)' BY <3>1, <3>4 DEF Waiting, Goes
    <3> QED BY <3>1, <3>3, <3>5
  <2> QED BY <2>2, <2>3
<1>5. PosTyped'
  <2>1. closed' \in Seq(Closed) /\ booked' \in [Ids -> Nat] /\ exited' \subseteq Ids
    BY <1>3 DEF IInv, TypeOK
  <2> QED BY <1>2, <1>4, <2>1 DEF PosTyped, Fit
<1>6. Sound'
  <2>1. \A p \in Plans : p \notin taken' \/ Waiting(p)' => p \notin taken \/ Waiting(p)
    BY DEF Goes, Waiting
  <2>2. \A p \in Plans : p \notin taken' \/ Waiting(p)' => booked'[p.id] = 0 /\ p.id \notin exited'
    BY <1>3, <2>1 DEF IInv, Sound
  <2>3. \A u \in Held' : /\ booked'[pos'[u].plan.id] + pos'[u].lots = pos'[u].plan.lots
                         /\ pos'[u].plan.id \notin exited'
                         /\ ~Waiting(pos[u].plan)'
                         /\ pos'[u].tp > 0 => pos'[u].lots = pos'[u].plan.lots
    BY <1>3, <1>4 DEF Fit
  <2> QED BY <2>2, <2>3 DEF Sound
<1> QED BY <1>5, <1>6

\* Part or all of the candidate is recorded as closed.
LEMMA ClosesInv ==
    ASSUME IInv, NEW t \in Tickers, NEW x, Candidate(t, x), x.open => ~Waiting(x.plan)',
           Goes(t), now' = now, taken' = taken,
           NEW n \in Nat, NEW price \in Int, NEW why \in Whys, Closes(t, x, n, price, why)
    PROVE  PosTyped' /\ Sound'
<1>1. x.open /\ n \in 1..x.lots BY DEF Closes
<1>2. Fit(t, x) BY <1>1, CandidateFits
<1>3. /\ x \in Position /\ x.plan \in Plans /\ x.plan.id \in Ids /\ x.lots \in Nat
      /\ x.plan.lots \in Nat /\ x.avg \in Int
  BY <1>2, PlanOfId, PlanFields DEF Fit, Position
<1>4. closed' \in Seq(Closed)
  <2>0. n \in Nat /\ n # 0 BY <1>1, <1>3
  <2>1. Trade(x, n, price, why) \in Closed BY <2>0, <1>3, TradeShape, Zenon
  <2> QED BY <2>1 DEF Closes, IInv, TypeOK
<1>5. /\ booked' \in [Ids -> Nat] /\ booked'[x.plan.id] = booked[x.plan.id] + n
      /\ \A i \in Ids \ {x.plan.id} : booked'[i] = booked[i]
  BY <1>3, SMTT(30) DEF Closes, IInv, TypeOK
<1>6. exited' \subseteq exited \cup {x.plan.id} /\ exited' \subseteq Ids
  BY <1>3 DEF Closes, IInv, TypeOK
<1>7. \A p \in Plans : p \notin taken' \/ Waiting(p)' => booked'[p.id] = 0 /\ p.id \notin exited'
  <2> SUFFICES ASSUME NEW p \in Plans, p \notin taken \/ Waiting(p)'
               PROVE  booked'[p.id] = 0 /\ p.id \notin exited'
    OBVIOUS
  <2>1. p # x.plan BY <1>1, <1>2 DEF Fit
  <2>2. p.id \in Ids /\ p.id # x.plan.id BY <1>3, <2>1, PaperAssumption, PlanOfId
  <2>3. p \notin taken \/ Waiting(p) BY DEF Goes, Waiting
  <2>4. booked[p.id] = 0 /\ p.id \notin exited BY <2>3 DEF IInv, Sound
  <2> QED BY <1>5, <1>6, <2>2, <2>4
<1>8. ASSUME NEW u \in Tickers \ {t}, pos[u].open
      PROVE  Fit(u, pos[u])' /\ ~Waiting(pos[u].plan)'
  <2>1. Candidate(u, pos[u]) /\ u \in Held BY <1>8 DEF Candidate, Held
  <2>2. Fit(u, pos[u]) BY <1>8, <2>1, CandidateFits
  <2>4. pos'[u] = pos[u] BY <1>8 DEF Closes, IInv, TypeOK
  <2>3. ~Waiting(pos[u].plan)' BY <2>1, <2>4 DEF IInv, Sound, Goes, Waiting
  <2>5. pos[u].plan.id # x.plan.id /\ pos[u].plan.id \in Ids
    BY <1>2, <1>8, <2>2, PaperAssumption, PlanOfId DEF Fit
  <2> QED BY <1>5, <1>6, <2>2, <2>3, <2>4, <2>5 DEF Fit
<1>9. CASE n < x.lots
  <2>1. pos' = [pos EXCEPT ![t] = Rest(x, n)] /\ exited' = exited
    BY <1>1, <1>3, <1>9 DEF Closes
  <2>a. x.lots - n \in Nat BY <1>3, <1>9
  <2>b. /\ Rest(x, n).plan = x.plan /\ Rest(x, n).lots = x.lots - n
        /\ Rest(x, n).tp = 0 /\ Rest(x, n).since = x.since
    BY <1>3 DEF Rest, Position
  <2>c. Rest(x, n) \in Position
    BY <1>3, <2>a DEF Rest, Position
  <2>d. Rest(x, n).open
    BY <2>c DEF Position
  <2>2. /\ Rest(x, n) \in Position /\ Rest(x, n).plan = x.plan /\ Rest(x, n).lots = x.lots - n
        /\ Rest(x, n).tp = 0 /\ Rest(x, n).since = x.since /\ Rest(x, n).open
    BY <2>b, <2>c, <2>d
  <2>3. /\ pos' \in [Tickers -> Position \cup {NoPos}] /\ pos'[t] = Rest(x, n)
        /\ \A u \in Tickers \ {t} : pos'[u] = pos[u]
    BY <2>1, <2>2 DEF IInv, TypeOK
  <2>e. x.lots \in 1..x.plan.lots /\ x.since <= now /\ x.plan \in taken' /\ x.plan.tk = t
        /\ booked[x.plan.id] + x.lots = x.plan.lots /\ x.plan.id \notin exited'
    BY <1>2, <2>1 DEF Fit
  <2>f. booked'[x.plan.id] + (x.lots - n) = x.plan.lots /\ x.lots - n \in 1..x.plan.lots
    <3>1. booked[x.plan.id] \in Nat BY <1>3 DEF IInv, TypeOK
    <3> QED BY <3>1, <1>1, <1>3, <1>5, <1>9, <2>e
  <2>4. Fit(t, pos[t])' /\ ~Waiting(pos[t].plan)'
    <3>1. ~Waiting(pos[t].plan)' BY <1>1, <2>2, <2>3 DEF Waiting
    <3>2. Fit(t, pos[t])' BY <1>3, <2>e, <2>f, <2>2, <2>3 DEF Fit
    <3> QED BY <3>1, <3>2
  <2>5. \A u \in Held' : Fit(u, pos[u])' /\ ~Waiting(pos[u].plan)'
    BY <1>8, <2>3, <2>4 DEF Held
  <2> QED BY <1>4, <1>5, <1>6, <1>7, <2>3, <2>5 DEF PosTyped, Sound, Fit
<1>10. CASE n = x.lots
  <2>1. pos' = [pos EXCEPT ![t] = NoPos]
    BY <1>3, <1>10 DEF Closes
  <2>3. /\ pos' \in [Tickers -> Position \cup {NoPos}] /\ pos'[t] = NoPos
        /\ \A u \in Tickers \ {t} : pos'[u] = pos[u]
    BY <2>1 DEF IInv, TypeOK
  <2>5. \A u \in Held' : Fit(u, pos[u])' /\ ~Waiting(pos[u].plan)'
    BY <1>8, <2>3 DEF Held, NoPos
  <2> QED BY <1>4, <1>5, <1>6, <1>7, <2>3, <2>5 DEF PosTyped, Sound, Fit
<1> QED BY <1>1, <1>3, <1>9, <1>10
\* Whatever a tick reads is a quote, torn or not.
LEMMA SeenQuotes ==
    ASSUME TypeOK, NEW t \in Tickers, NEW s \in Seen(t)
    PROVE  s.qe \in Quote /\ s.qx \in Quote /\ s.new \in Quote
<1>1. books[t] \in Quote BY DEF TypeOK
<1>2. \A q \in Quotes : [bid |-> q.bid, ask |-> q.ask] \in Quote /\ q \in Quote
  BY PaperAssumption, QuoteShape DEF Quote
<1> QED BY <1>1, <1>2 DEF Seen, Quote

\* A tick of one ticker keeps the invariant (PaperExecutor::tick).
LEMMA TickInv ==
    ASSUME IInv, NEW t \in Tickers, NEW at \in Int, at <= now, TickOn(t, at),
           now' = now, taken' = taken, todo' \in [left : SUBSET Tickers, at : 0..now]
    PROVE  IInv'
<1>1. PICK s \in Seen(t) : TickTicker(t, at, s.qe, s.qx) /\ books' = [books EXCEPT ![t] = s.new]
  BY DEF TickOn
<1>2. s.qe \in Quote /\ s.qx \in Quote /\ s.new \in Quote
  BY SeenQuotes DEF IInv
<1>3. /\ Goes(t)
      /\ \E x : /\ Candidate(t, x)
                /\ x.open => ~Waiting(x.plan)'
                /\ \/ Keeps(t, x)
                   \/ \E n \in Nat, price \in Int, why \in Whys : Closes(t, x, n, price, why)
  BY <1>1, <1>2, TickCases
<1>4. PosTyped' /\ Sound'
  <2>1. PICK x : /\ Candidate(t, x)
                 /\ x.open => ~Waiting(x.plan)'
                 /\ \/ Keeps(t, x)
                    \/ \E n \in Nat, price \in Int, why \in Whys : Closes(t, x, n, price, why)
    BY <1>3
  <2>2. CASE Keeps(t, x)
    BY <1>3, <2>1, <2>2, KeepsInv
  <2>3. ASSUME NEW n \in Nat, NEW price \in Int, NEW why \in Whys, Closes(t, x, n, price, why)
        PROVE  PosTyped' /\ Sound'
    BY <1>3, <2>1, <2>3, ClosesInv
  <2> QED BY <2>1, <2>2, <2>3
<1>5. books' \in [Tickers -> Quote]
  BY <1>1, <1>2 DEF IInv, TypeOK
<1>6. pending' \subseteq Entry /\ \A e \in pending' : e.plan \in taken'
  BY <1>3 DEF Goes, IInv, TypeOK
<1> QED BY <1>4, <1>5, <1>6 DEF IInv, TypeOK, PosTyped

LEMMA InitInv == Init => IInv
<1> SUFFICES ASSUME Init PROVE IInv OBVIOUS
<1>1. TypeOK
  <2>1. NoBook \in Quote /\ Quotes \subseteq Quote
    BY PaperAssumption, QuoteShape DEF NoBook, Quote
  <2>2. Held = {} BY DEF Init, Held, NoPos
  <2> QED BY <2>1, <2>2, PaperAssumption, FS_EmptySet DEF Init, TypeOK, Idle
<1>2. Sound
  BY PlanOfId DEF Init, Sound, Held, NoPos, Waiting
<1> QED BY <1>1, <1>2 DEF IInv

LEMMA SubmitInv ==
    ASSUME IInv, NEW p \in Plans, Submit(p)
    PROVE  IInv'
<1> DEFINE e == [plan |-> p, until |-> now + p.ttl, nr |-> Cardinality(taken)]
<1>1. p \notin taken /\ taken' = taken \cup {p} /\ pending' = pending \cup {e}
  BY DEF Submit
<1>2. UNCHANGED <<now, books, pos, closed, todo, booked, exited>>
  BY DEF Submit
<1>3. e \in Entry
  <2>1. now + p.ttl \in Nat BY PlanFields, PaperAssumption DEF IInv, TypeOK
  <2>2. Cardinality(taken) \in Nat BY FS_CardinalityType DEF IInv, TypeOK
  <2> QED BY <2>1, <2>2 DEF Entry
<1>4. Held' = Held BY <1>2 DEF Held
<1>5. TypeOK'
  <2>1. taken' \subseteq Plans /\ IsFiniteSet(taken')
    BY <1>1, FS_AddElement DEF IInv, TypeOK
  <2>2. pending' \subseteq Entry /\ \A f \in pending' : f.plan \in taken'
    BY <1>1, <1>3 DEF IInv, TypeOK
  <2> QED BY <1>1, <1>2, <1>4, <2>1, <2>2 DEF IInv, TypeOK
<1>6. Sound'
  <2>1. \A q \in Plans : q \notin taken' \/ Waiting(q)' => q \notin taken \/ Waiting(q)
    BY <1>1 DEF Waiting
  <2>2. \A t \in Held : ~Waiting(pos[t].plan)'
    <3> SUFFICES ASSUME NEW t \in Held PROVE ~Waiting(pos[t].plan)' OBVIOUS
    <3>1. ~Waiting(pos[t].plan) /\ pos[t].plan # p BY <1>1 DEF IInv, Sound, TypeOK
    <3> QED BY <1>1, <1>2, <3>1 DEF Waiting
  <2> QED BY <1>2, <1>4, <2>1, <2>2 DEF IInv, Sound
<1> QED BY <1>5, <1>6 DEF IInv

LEMMA CloseTradeInv ==
    ASSUME IInv, NEW t \in Tickers, CloseTrade(t)
    PROVE  /\ IInv'
           /\ Candidate(t, pos[t]) /\ Goes(t) /\ ~Waiting(pos[t].plan) /\ pending' = pending
           /\ \E price \in Int : Closes(t, pos[t], pos[t].lots, price, "Requested")
<1> DEFINE x == pos[t]
           price == (IF Usable(books[t]) THEN ExitQuote(books[t], x.plan.dir) ELSE x.avg)
                      - x.plan.dir * Slip
<1>1. x.open /\ t \in Held /\ Candidate(t, x)
  BY DEF CloseTrade, Held, Candidate
<1>2. Fit(t, x) BY <1>1, CandidateFits
<1>3. price \in Int
  <2>1. x.plan.dir \in {-1, 1} /\ x.avg \in Int /\ Slip \in Nat
    BY <1>2, PlanFields, PaperAssumption DEF Fit, Position
  <2>2. books[t].bid \in Nat /\ books[t].ask \in Nat BY DEF IInv, TypeOK, Quote
  <2> QED BY <2>1, <2>2 DEF ExitQuote
<1>4. x.lots \in Nat /\ x.lots \in 1..x.lots
  BY <1>2 DEF Fit, Position
<1>5. Closes(t, x, x.lots, price, "Requested")
  BY <1>1, <1>4 DEF CloseTrade, Closes
<1>6. Goes(t) /\ pending' = pending /\ now' = now /\ taken' = taken /\ todo' = todo /\ books' = books
  BY DEF CloseTrade, Goes
<1>7. ~Waiting(x.plan) BY <1>1 DEF IInv, Sound
<1>9. PosTyped' /\ Sound'
  <2>1. "Requested" \in Whys BY DEF Whys
  <2>2. \A y : y = x => ~Waiting(y.plan)' BY <1>6, <1>7 DEF Waiting
  <2>3. PICK y : y = x OBVIOUS
  <2>4. Candidate(t, y) /\ Closes(t, y, x.lots, price, "Requested") /\ ~Waiting(y.plan)'
    BY <1>1, <1>5, <2>2, <2>3
  <2> QED BY <1>3, <1>4, <1>6, <2>1, <2>4, ClosesInv
<1> QED BY <1>1, <1>3, <1>5, <1>6, <1>7, <1>9 DEF IInv, TypeOK, PosTyped
LEMMA CancelAllInv ==
    ASSUME IInv, NEW t \in Tickers, CancelAll(t)
    PROVE  IInv'
<1>1. pending' = {e \in pending : e.plan.tk # t} /\ pos' = [pos EXCEPT ![t] = NoPos]
  BY DEF CancelAll
<1>2. UNCHANGED <<now, books, closed, todo, taken, booked, exited>>
  BY DEF CancelAll
<1>3. /\ pos' \in [Tickers -> Position \cup {NoPos}]
      /\ \A u \in Held' : u \in Held /\ pos'[u] = pos[u]
  BY <1>1 DEF IInv, TypeOK, Held, NoPos
<1>4. TypeOK'
  BY <1>1, <1>2, <1>3 DEF IInv, TypeOK
<1>5. Sound'
  <2>1. \A p \in Plans : p \notin taken' \/ Waiting(p)' => p \notin taken \/ Waiting(p)
    BY <1>1, <1>2 DEF Waiting
  <2>2. \A u \in Held' : ~Waiting(pos[u].plan)'
    BY <1>1, <1>3 DEF IInv, Sound, Waiting
  <2> QED BY <1>2, <1>3, <2>1, <2>2 DEF IInv, Sound
<1> QED BY <1>4, <1>5 DEF IInv

LEMMA InjectInv ==
    ASSUME IInv, NEW p \in Plans, NEW lots \in 1..p.lots, Inject(p, lots, p.entry)
    PROVE  IInv'
<1> DEFINE x == [open |-> TRUE, plan |-> p, lots |-> lots, avg |-> p.entry,
                 stop |-> IF lots < p.lots THEN p.entry ELSE p.stop,
                 tp |-> IF lots < p.lots THEN 0 ELSE p.tp, since |-> Epoch]
<1>1. taken = {} /\ taken' = {p} /\ pos' = [pos EXCEPT ![p.tk] = x]
      /\ booked' = [booked EXCEPT ![p.id] = p.lots - lots]
  BY DEF Inject
<1>2. UNCHANGED <<now, books, pending, closed, todo, exited>>
  BY DEF Inject
<1>3. Held = {} /\ pending = {} BY <1>1 DEF IInv, TypeOK
<1>4. x \in Position /\ p.lots - lots \in Nat /\ p.tk \in Tickers /\ p.id \in Ids
  BY PlanFields, PlanOfId DEF Position, Epoch
<1>5. /\ pos' \in [Tickers -> Position \cup {NoPos}] /\ Held' = {p.tk} /\ pos'[p.tk] = x
  BY <1>1, <1>3, <1>4 DEF IInv, TypeOK, Held
<1>6. /\ booked' \in [Ids -> Nat] /\ booked'[p.id] = p.lots - lots
      /\ \A i \in Ids \ {p.id} : booked'[i] = booked[i]
  BY <1>1, <1>4 DEF IInv, TypeOK
<1>7. TypeOK'
  <2>1. taken' \subseteq Plans /\ IsFiniteSet(taken') BY <1>1, FS_Singleton
  <2>2. x.since <= now' BY <1>2 DEF IInv, TypeOK, Epoch
  <2> QED BY <1>1, <1>2, <1>3, <1>4, <1>5, <1>6, <2>1, <2>2 DEF IInv, TypeOK
<1>8. Sound'
  <2>1. \A q \in Plans : q \notin taken' \/ Waiting(q)' => q # p /\ q \notin taken
    BY <1>1, <1>2, <1>3 DEF Waiting
  <2>2. \A q \in Plans : q \notin taken' \/ Waiting(q)' => booked'[q.id] = 0 /\ q.id \notin exited'
    BY <1>2, <1>6, <2>1, PaperAssumption, PlanOfId DEF IInv, Sound
  <2>3. p.id \notin exited' /\ ~Waiting(p)'
    BY <1>1, <1>2, <1>3 DEF IInv, Sound, Waiting
  <2>4. booked'[p.id] + x.lots = p.lots /\ (x.tp > 0 => x.lots = p.lots)
    BY <1>6, PlanFields
  <2>5. ~Waiting(pos[p.tk].plan)'
    BY <1>5, <2>3 DEF Waiting
  <2> QED BY <1>5, <2>2, <2>3, <2>4, <2>5 DEF Sound
<1> QED BY <1>7, <1>8 DEF IInv

\* Steps that touch neither plans nor positions.
LEMMA OtherInv ==
    ASSUME IInv, \/ \E t \in Tickers : BookMoves(t)
                 \/ TickBegin \/ PopClosedTrades \/ TimePasses \/ UNCHANGED vars
    PROVE  IInv' /\ UNCHANGED <<pending, pos, taken, booked, exited>>
<1>1. UNCHANGED <<pending, pos, taken, booked, exited>>
  BY DEF BookMoves, TickBegin, PopClosedTrades, TimePasses, vars
<1>2. Held' = Held /\ \A p : Waiting(p)' = Waiting(p)
  BY <1>1 DEF Held, Waiting
<1>3. Sound' BY <1>1, <1>2 DEF IInv, Sound
<1>4. books' \in [Tickers -> Quote]
  <2>1. NoBook \in Quote BY DEF NoBook, Quote
  <2> QED BY <2>1, QuoteShape DEF BookMoves, TickBegin, PopClosedTrades, TimePasses, vars, IInv, TypeOK
<1>5. closed' \in Seq(Closed)
  <2>1. closed' = closed \/ closed' = <<>>
    BY DEF BookMoves, TickBegin, PopClosedTrades, TimePasses, vars
  <2>2. <<>> \in Seq(Closed) /\ closed \in Seq(Closed)
    BY DEF IInv, TypeOK
  <2> QED BY <2>1, <2>2
<1>6. now' \in 0..MaxNow /\ now <= now' /\ todo' \in [left : SUBSET Tickers, at : 0..now']
  <2>1. CASE TickBegin
    <3>1. Active \subseteq Tickers
      BY PlanFields DEF Active, Held, IInv, TypeOK, Entry
    <3> QED BY <2>1, <3>1 DEF TickBegin, IInv, TypeOK
  <2>2. CASE TimePasses
    BY <2>2, PaperAssumption DEF TimePasses, IInv, TypeOK
  <2>3. CASE PopClosedTrades \/ UNCHANGED vars \/ \E t \in Tickers : BookMoves(t)
    BY <2>3 DEF BookMoves, PopClosedTrades, vars, IInv, TypeOK
  <2> QED BY <2>1, <2>2, <2>3
<1>7. TypeOK'
  <2>1. \A t \in Held : pos[t].since \in Int
    <3> SUFFICES ASSUME NEW t \in Held PROVE pos[t].since \in Int OBVIOUS
    <3>1. Candidate(t, pos[t]) /\ t \in Tickers /\ pos[t].open BY DEF Candidate, Held
    <3>2. pos[t] \in Position BY <3>1, CandidateFits DEF Fit
    <3> QED BY <3>2 DEF Position
  <2>2. \A t \in Held : pos[t].since <= now'
    BY <1>6, <2>1 DEF IInv, TypeOK
  <2> QED BY <1>1, <1>2, <1>4, <1>5, <1>6, <2>2 DEF IInv, TypeOK
<1> QED BY <1>1, <1>3, <1>7 DEF IInv

\* The two callers of tick.
LEMMA TickSteps ==
    ASSUME IInv, NEW t \in Tickers, FeedEvent(t) \/ TickNext(t)
    PROVE  \E at \in Int : /\ at <= now /\ TickOn(t, at) /\ now' = now /\ taken' = taken
                           /\ todo' \in [left : SUBSET Tickers, at : 0..now]
<1>1. CASE FeedEvent(t)
  <2>1. PICK at \in (now - MaxLag)..now : TickOn(t, at) BY <1>1 DEF FeedEvent
  <2>2. at \in Int /\ at <= now BY PaperAssumption DEF IInv, TypeOK
  <2> QED BY <1>1, <2>1, <2>2 DEF FeedEvent, IInv, TypeOK
<1>2. CASE TickNext(t)
  <2>1. todo.at \in Int /\ todo.at <= now BY DEF IInv, TypeOK
  <2>2. todo' \in [left : SUBSET Tickers, at : 0..now] BY <1>2 DEF TickNext, IInv, TypeOK
  <2> QED BY <1>2, <2>1, <2>2 DEF TickNext
<1> QED BY <1>1, <1>2

LEMMA NextInv == IInv /\ [Next]_vars => IInv'
<1> SUFFICES ASSUME IInv, [Next]_vars PROVE IInv' OBVIOUS
<1>1. CASE \E p \in Plans : Submit(p) \/ \E lots \in 1..p.lots : Inject(p, lots, p.entry)
  BY <1>1, SubmitInv, InjectInv
<1>2. CASE \E t \in Tickers : CloseTrade(t) \/ CancelAll(t)
  BY <1>2, CloseTradeInv, CancelAllInv
<1>3. CASE \E t \in Tickers : FeedEvent(t) \/ TickNext(t)
  BY <1>3, TickSteps, TickInv
<1>4. CASE (\E t \in Tickers : BookMoves(t)) \/ TickBegin \/ PopClosedTrades \/ TimePasses \/ UNCHANGED vars
  BY <1>4, OtherInv
<1> QED BY <1>1, <1>2, <1>3, <1>4 DEF Next

\* Every state of PaperExecutor is well-typed, and held lots, booked lots and
\* waiting entries agree.
THEOREM TypeCorrect == Spec => []TypeOK
<1>1. IInv => TypeOK BY DEF IInv
<1> QED BY InitInv, NextInv, <1>1, PTL DEF Spec
----------------------------------------------------------------------------
(* A take-profit gains.                                                    *)

LEMMA GainsStep ==
    ASSUME IInv, Ahead, TakeProfitGains, [Next]_vars
    PROVE  Ahead' /\ TakeProfitGains'
<1> USE DEF Ahead
<1>1. ASSUME NEW t \in Tickers, NEW x, Candidate(t, x), Keeps(t, x)
      PROVE  Ahead' /\ TakeProfitGains'
  <2>1. closed' = closed /\ pos' = [pos EXCEPT ![t] = x] BY <1>1 DEF Keeps
  <2>2. Gains(x) BY <1>1 DEF Candidate
  <2> QED BY <2>1, <2>2 DEF IInv, TypeOK, TakeProfitGains, Gains
<1>2. ASSUME NEW t \in Tickers, NEW x, Candidate(t, x), NEW n \in Nat, NEW price \in Int,
             NEW why \in Whys, Closes(t, x, n, price, why),
             why = "TakeProfit" /\ Gains(x) => x.plan.dir * (price - x.avg) >= 0
      PROVE  Ahead' /\ TakeProfitGains'
  <2>1. x.open /\ n \in 1..x.lots BY <1>2 DEF Closes
  <2>2. x \in Position /\ x.plan \in Plans BY <1>2, <2>1, CandidateFits DEF Fit
  <2>3. Gains(x) BY <1>2 DEF Candidate
  <2>4. Ahead'
    <3>1. pos' = [pos EXCEPT ![t] = Rest(x, n)] \/ pos' = [pos EXCEPT ![t] = NoPos]
      BY <1>2 DEF Closes
    <3>2. Gains(Rest(x, n)) /\ Gains(NoPos)
      BY DEF Gains, Rest, NoPos
    <3> QED BY <3>1, <3>2 DEF IInv, TypeOK, Gains
  <2>5. TakeProfitGains'
    <3> DEFINE tr == Trade(x, n, price, why)
               gain == x.plan.dir * (price - x.avg)
    <3>1. tr \in Closed /\ tr.why = why /\ tr.pnl = gain * n
      <4>1. n \in Nat /\ n # 0 BY <2>1
      <4>2. x \in Position BY <2>2
      <4> QED BY <4>1, <4>2, TradeShape, Zenon
    <3>2. closed' = Append(closed, tr) /\ closed \in Seq(Closed)
      BY <1>2 DEF Closes, IInv, TypeOK
    <3>3. why = "TakeProfit" => tr.pnl >= 0
      <4> SUFFICES ASSUME why = "TakeProfit" PROVE tr.pnl >= 0 OBVIOUS
      <4>1. gain >= 0 BY <1>2, <2>3
      <4>2. gain \in Int
        BY <2>2, PlanFields DEF Position
      <4>3. \A a, b \in Nat : a * b >= 0 OBVIOUS
      <4>4. gain \in Nat BY <4>1, <4>2
      <4> HIDE DEF gain
      <4> QED BY <3>1, <4>3, <4>4
    <3> HIDE DEF tr
    <3>4. ASSUME NEW i \in DOMAIN closed', closed'[i].why = "TakeProfit"
          PROVE  closed'[i].pnl >= 0
      <4>1. CASE i = Len(closed) + 1
        <5>1. closed'[i] = tr BY <3>1, <3>2, <4>1
        <5> QED BY <3>1, <3>3, <3>4, <5>1
      <4>2. CASE i # Len(closed) + 1
        <5>1. i \in DOMAIN closed /\ closed'[i] = closed[i] BY <3>1, <3>2, <4>2
        <5> QED BY <3>4, <5>1 DEF TakeProfitGains
      <4> QED BY <4>1, <4>2
    <3> QED BY <3>4 DEF TakeProfitGains
  <2> QED BY <2>4, <2>5
<1>3. CASE \E t \in Tickers : FeedEvent(t) \/ TickNext(t)
  <2>1. PICK t \in Tickers : FeedEvent(t) \/ TickNext(t) BY <1>3
  <2>2. PICK at \in Int : at <= now /\ TickOn(t, at) BY <2>1, TickSteps
  <2>3. PICK s \in Seen(t) : TickTicker(t, at, s.qe, s.qx) BY <2>2 DEF TickOn
  <2>4. s.qe \in Quote /\ s.qx \in Quote BY SeenQuotes DEF IInv
  <2>5. PICK x : /\ Candidate(t, x)
                 /\ \/ Keeps(t, x)
                    \/ \E n \in Nat, price \in Int, why \in Whys :
                         /\ Closes(t, x, n, price, why)
                         /\ why = "TakeProfit" /\ Gains(x) => x.plan.dir * (price - x.avg) >= 0
    BY <2>2, <2>3, <2>4, TickCases
  <2> QED BY <1>1, <1>2, <2>5
<1>4. ASSUME NEW t \in Tickers, CloseTrade(t) PROVE Ahead' /\ TakeProfitGains'
  <2>1. PICK price \in Int : Closes(t, pos[t], pos[t].lots, price, "Requested")
    BY <1>4, CloseTradeInv
  <2>2. Candidate(t, pos[t]) BY <1>4, CloseTradeInv
  <2>3. "Requested" \in Whys /\ "Requested" # "TakeProfit" BY DEF Whys
  <2>4. pos[t].lots \in Nat
    <3>1. pos[t].open BY <1>4 DEF CloseTrade
    <3> QED BY <2>2, <3>1, CandidateFits DEF Fit, Position
  <2> QED BY <1>2, <2>1, <2>2, <2>3, <2>4
<1>5. ASSUME NEW p \in Plans, NEW lots \in 1..p.lots, Inject(p, lots, p.entry)
      PROVE  Ahead' /\ TakeProfitGains'
  <2> DEFINE x == [open |-> TRUE, plan |-> p, lots |-> lots, avg |-> p.entry,
                   stop |-> IF lots < p.lots THEN p.entry ELSE p.stop,
                   tp |-> IF lots < p.lots THEN 0 ELSE p.tp, since |-> Epoch]
  <2>1. Gains(x) BY TargetAssumption, PlanFields DEF Gains
  <2>2. pos' = [pos EXCEPT ![p.tk] = x] /\ closed' = closed BY <1>5 DEF Inject
  <2> HIDE DEF x
  <2> QED BY <2>1, <2>2 DEF IInv, TypeOK, TakeProfitGains, Gains
<1>6. ASSUME NEW t \in Tickers, CancelAll(t) PROVE Ahead' /\ TakeProfitGains'
  <2>1. pos' = [pos EXCEPT ![t] = NoPos] /\ closed' = closed BY <1>6 DEF CancelAll
  <2>2. Gains(NoPos) BY DEF Gains, NoPos
  <2> QED BY <2>1, <2>2 DEF IInv, TypeOK, TakeProfitGains, Gains
<1>7. CASE (\E p \in Plans : Submit(p)) \/ UNCHANGED vars \/ TickBegin \/ PopClosedTrades \/ TimePasses
             \/ \E t \in Tickers : BookMoves(t)
  <2>1. pos' = pos /\ (closed' = closed \/ closed' = <<>>)
    BY <1>7 DEF Submit, vars, TickBegin, PopClosedTrades, TimePasses, BookMoves
  <2> QED BY <2>1 DEF TakeProfitGains, Gains
<1> QED BY <1>3, <1>4, <1>5, <1>6, <1>7 DEF Next

\* However far the market runs between plan and fill, a take-profit is never
\* recorded with a loss (PaperExecutor::tick).
THEOREM TakeProfitsGain == Spec => []TakeProfitGains
<1>1. Init => Ahead /\ TakeProfitGains
  BY DEF Init, Ahead, Gains, NoPos, TakeProfitGains
<1>2. (IInv /\ Ahead /\ TakeProfitGains) /\ [Next]_vars => (IInv /\ Ahead /\ TakeProfitGains)'
  BY NextInv, GainsStep
<1> QED BY InitInv, <1>1, <1>2, PTL DEF Spec
----------------------------------------------------------------------------
(* The executor implements TradeLifecycle.                                 *)

\* A step of TradeLifecycle, in terms of the plans themselves.
Booked(p) == booked[p.id]
StageMoves(p) ==
    \/ Stage(p)' = Stage(p) /\ Booked(p)' = Booked(p)
    \/ Stage(p) = "new" /\ Stage(p)' = "open" /\ Booked(p)' < p.lots
    \/ Stage(p) = "new" /\ Stage(p)' = "pending" /\ Booked(p)' = Booked(p)
    \/ Stage(p) = "pending" /\ Stage(p)' = "open" /\ Booked(p)' < p.lots
    \/ /\ Stage(p) = "open" /\ Stage(p)' = "open"
       /\ Booked(p) < Booked(p)' /\ Booked(p)' < p.lots
    \/ Stage(p) = "pending" /\ Stage(p)' = "dropped" /\ Booked(p)' = Booked(p)
    \/ /\ Stage(p) = "open" /\ Stage(p)' = "dropped" /\ Booked(p)' = Booked(p)
       /\ \A q \in Plans : q.tk = p.tk => Stage(q)' \notin {"pending", "open"}
    \/ /\ Stage(p) \in {"pending", "open"} /\ Stage(p)' = "exited"
       /\ Booked(p)' = p.lots

\* A ticker holds one position, so one plan of it is open.
SingleOpen == \A p, q \in Plans :
    Stage(p) = "open" /\ Stage(q) = "open" /\ p.tk = q.tk => p = q

LEMMA OneOpenHolds == IInv => SingleOpen
<1> USE DEF SingleOpen
<1> SUFFICES ASSUME IInv, NEW p \in Plans, NEW q \in Plans,
                    Stage(p) = "open", Stage(q) = "open", p.tk = q.tk
             PROVE  p = q
  OBVIOUS
<1>1. PICK t \in Held : pos[t].plan = p BY DEF Stage
<1>2. PICK u \in Held : pos[u].plan = q BY DEF Stage
<1>3. t = u BY <1>1, <1>2 DEF IInv, TypeOK
<1> QED BY <1>1, <1>2, <1>3

\* Moves of all plans, by stages, are a step of TradeLifecycle.
LEMMA LiftMoves ==
    ASSUME IInv, IInv', \A p \in Plans : StageMoves(p)
    PROVE  Life!Next
<1>1. Status' \in [Ids -> Life!Stages]
  <2>1. \A p \in Plans : Stage(p)' \in Life!Stages BY DEF Stage, Life!Stages
  <2>2. Status' = [i \in Ids |-> Stage(PlanOf(i))'] BY DEF Status
  <2>3. \A i \in Ids : PlanOf(i) \in Plans BY IdsOfPlans, PlanOfId
  <2> QED BY <2>1, <2>2, <2>3
<1>2. ASSUME NEW i \in Ids PROVE Life!Moves(i)
  <2>1. PICK p \in Plans : i = p.id BY IdsOfPlans
  <2>2. PlanOf(i) = p BY <2>1, PlanOfId
  <2>3. Status[i] = Stage(p) /\ Status'[i] = Stage(p)' BY <2>1, StatusIsStage
  <2>4. booked[i] = Booked(p) /\ booked'[i] = Booked(p)' BY <2>1 DEF Booked
  <2>5. /\ [j \in Ids |-> PlanOf(j).tk][i] = p.tk /\ [j \in Ids |-> PlanOf(j).lots][i] = p.lots
    BY <2>2
  <2>6. (\A q \in Plans : q.tk = p.tk => Stage(q)' \notin {"pending", "open"})
          => \A j \in Ids : [k \in Ids |-> PlanOf(k).tk][j] = [k \in Ids |-> PlanOf(k).tk][i]
                  => Status'[j] \notin {"pending", "open"}
    <3> SUFFICES ASSUME \A q \in Plans : q.tk = p.tk => Stage(q)' \notin {"pending", "open"},
                        NEW j \in Ids, PlanOf(j).tk = p.tk
                 PROVE  Status'[j] \notin {"pending", "open"}
      BY <2>5
    <3>1. PICK q \in Plans : j = q.id BY IdsOfPlans
    <3>2. PlanOf(j) = q /\ Status'[j] = Stage(q)' BY <3>1, PlanOfId, StatusIsStage
    <3> QED BY <3>2
  <2>7. StageMoves(p) OBVIOUS
  <2> QED BY <2>3, <2>4, <2>5, <2>6, <2>7
        DEF StageMoves, Life!Moves, Life!Stays, Life!Restored, Life!Taken, Life!Opens,
            Life!Reduces, Life!Expires, Life!Drops, Life!Exits
<1>3. Life!OneOpen'
  <2> SUFFICES ASSUME NEW i \in Ids, NEW j \in Ids, Status'[i] = "open", Status'[j] = "open",
                      PlanOf(i).tk = PlanOf(j).tk
               PROVE  i = j
    BY DEF Life!OneOpen
  <2>1. PICK p \in Plans : i = p.id BY IdsOfPlans
  <2>2. PICK q \in Plans : j = q.id BY IdsOfPlans
  <2>3. PlanOf(i) = p /\ PlanOf(j) = q BY <2>1, <2>2, PlanOfId
  <2>4. Stage(p)' = "open" /\ Stage(q)' = "open" BY <2>1, <2>2, StatusIsStage
  <2>5. SingleOpen'
    BY OneOpenHolds, PTL
  <2> QED BY <2>1, <2>2, <2>3, <2>4, <2>5 DEF SingleOpen
<1> QED BY <1>1, <1>2, <1>3 DEF Life!Next
\* Nothing that Stage and Booked read changes.
LEMMA StageSame ==
    ASSUME UNCHANGED <<pending, pos, taken, booked, exited>>, NEW p \in Plans
    PROVE  StageMoves(p)
  BY DEF StageMoves, Stage, Booked, Waiting, Held

\* A plan whose entries are untouched and that is held as before stays.
LEMMA StageKept ==
    ASSUME NEW p \in Plans, taken' = taken, Waiting(p)' = Waiting(p),
           (\E u \in Held' : pos'[u].plan = p) <=> (\E u \in Held : pos[u].plan = p),
           p.id \in exited' <=> p.id \in exited, booked'[p.id] = booked[p.id]
    PROVE  StageMoves(p)
  BY DEF StageMoves, Stage, Booked

\* The stage of a candidate before the step, and whether other plans are
\* held.
LEMMA CandidateStage ==
    ASSUME IInv, NEW t \in Tickers, NEW x, Candidate(t, x), x.open
    PROVE  /\ x.plan \in Plans /\ Stage(x.plan) \in {"pending", "open"}
           /\ Stage(x.plan) = "pending" => x.lots = x.plan.lots
           /\ \A u \in Held : pos[u].plan = x.plan => u = t /\ x = pos[t]
           /\ \A u \in Held : u = t => x = pos[t]
<1>1. Fit(t, x) BY CandidateFits
<1>2. x.plan \in Plans /\ x.plan \in taken /\ x.plan.tk = t BY <1>1 DEF Fit
<1>3. CASE x = pos[t]
  <2>1. t \in Held /\ ~Waiting(x.plan) BY <1>3 DEF Held, IInv, Sound
  <2>2. Stage(x.plan) = "open" BY <1>2, <1>3, <2>1 DEF Stage
  <2> QED BY <1>2, <1>3, <2>2 DEF IInv, TypeOK
<1>4. CASE x # pos[t]
  <2>1. Waiting(x.plan) /\ ~pos[t].open /\ x.lots = x.plan.lots BY <1>4 DEF Candidate
  <2>2. Stage(x.plan) = "pending" BY <1>2, <2>1 DEF Stage
  <2>3. \A u \in Held : pos[u].plan # x.plan BY <2>1 DEF IInv, Sound
  <2> QED BY <1>2, <2>1, <2>2, <2>3 DEF Held
<1> QED BY <1>3, <1>4

\* A plan other than the candidate's keeps its stage, or its entries expire.
LEMMA OthersMove ==
    ASSUME IInv, NEW t \in Tickers, NEW p \in Plans, Goes(t), taken' = taken,
           \A u \in Held : pos[u].plan = p => u \in Tickers \ {t},
           \A u \in Held' : pos'[u].plan = p => u \in Tickers \ {t},
           \A u \in Tickers \ {t} : pos'[u] = pos[u],
           p.id \in exited' <=> p.id \in exited, booked'[p.id] = booked[p.id]
    PROVE  StageMoves(p)
<1>1. (\E u \in Held' : pos'[u].plan = p) <=> (\E u \in Held : pos[u].plan = p)
  BY DEF Held
<1>2. CASE Waiting(p)' = Waiting(p)
  BY <1>1, <1>2, StageKept
<1>3. CASE Waiting(p)' # Waiting(p)
  <2>1. Waiting(p) /\ ~Waiting(p)' BY <1>3 DEF Waiting, Goes
  <2>2. p \in taken BY <2>1 DEF Waiting, IInv, TypeOK
  <2>3. ~(\E u \in Held : pos[u].plan = p) BY <2>1 DEF IInv, Sound
  <2>4. p.id \notin exited BY <2>1 DEF IInv, Sound
  <2>5. Stage(p) = "pending" BY <2>1, <2>2 DEF Stage
  <2>6. Stage(p)' = "dropped" BY <1>1, <2>1, <2>2, <2>3, <2>4 DEF Stage
  <2> QED BY <2>5, <2>6 DEF StageMoves, Booked
<1> QED BY <1>2, <1>3
LEMMA KeepsMoves ==
    ASSUME IInv, NEW t \in Tickers, NEW x, Candidate(t, x), x.open => ~Waiting(x.plan)',
           Goes(t), Keeps(t, x), taken' = taken, NEW p \in Plans
    PROVE  StageMoves(p)
<1>1. /\ pos'[t] = x /\ \A u \in Tickers \ {t} : pos'[u] = pos[u]
      /\ booked' = booked /\ exited' = exited
  BY DEF Keeps, IInv, TypeOK
<1>2. CASE x.open /\ p = x.plan
  <2>1. /\ Stage(p) \in {"pending", "open"} /\ p \in taken /\ booked[p.id] + x.lots = p.lots
        /\ x.lots \in 1..p.lots
    BY <1>2, CandidateStage, CandidateFits DEF Fit
  <2>2. t \in Held' /\ pos'[t].plan = p BY <1>1, <1>2 DEF Held
  <2>3. Stage(p)' = "open" BY <1>2, <2>1, <2>2 DEF Stage
  <2>4. booked'[p.id] = booked[p.id] /\ booked[p.id] < p.lots
    <3>1. booked[p.id] \in Nat /\ p.lots \in Nat BY PlanOfId, PlanFields DEF IInv, TypeOK
    <3> QED BY <1>1, <2>1, <3>1
  <2> QED BY <2>1, <2>3, <2>4 DEF StageMoves, Booked
<1>3. CASE ~(x.open /\ p = x.plan)
  <2>1. \A u \in Held : pos[u].plan = p => u \in Tickers \ {t}
    <3> SUFFICES ASSUME t \in Held, pos[t].plan = p PROVE FALSE BY DEF Held
    <3>1. x = pos[t] /\ x.open BY DEF Candidate, Held
    <3> QED BY <1>3, <3>1
  <2>2. \A u \in Held' : pos'[u].plan = p => u \in Tickers \ {t}
    BY <1>1, <1>3 DEF Held
  <2> QED BY <1>1, <2>1, <2>2, OthersMove
<1> QED BY <1>2, <1>3

LEMMA ClosesMoves ==
    ASSUME IInv, NEW t \in Tickers, NEW x, Candidate(t, x), x.open => ~Waiting(x.plan)',
           Goes(t), taken' = taken, NEW n \in Nat, NEW price, NEW why,
           Closes(t, x, n, price, why), NEW p \in Plans
    PROVE  StageMoves(p)
<1>1. x.open /\ n \in 1..x.lots BY DEF Closes
<1>2. Fit(t, x) BY <1>1, CandidateFits
<1>3. x.plan.id \in Ids /\ x.plan.lots \in Nat /\ x.lots \in Nat /\ booked[x.plan.id] \in Nat
  BY <1>2, PlanOfId, PlanFields DEF Fit, Position, IInv, TypeOK
<1>4. /\ booked'[x.plan.id] = booked[x.plan.id] + n
      /\ \A i \in Ids \ {x.plan.id} : booked'[i] = booked[i]
  BY <1>3 DEF Closes, IInv, TypeOK
<1>5. \A u \in Tickers \ {t} : pos'[u] = pos[u]
  BY DEF Closes, IInv, TypeOK
<1>6. /\ x.plan \in Plans /\ Stage(x.plan) \in {"pending", "open"}
      /\ \A u \in Held : pos[u].plan = x.plan => u = t /\ x = pos[t]
      /\ \A u \in Held : u = t => x = pos[t]
  BY <1>1, CandidateStage
<1>7. CASE p = x.plan
  <2>1. CASE n < x.lots
    <3>1. pos' = [pos EXCEPT ![t] = Rest(x, n)] /\ x.lots = x.plan.lots
      BY <1>1, <1>3, <2>1 DEF Closes
    <3>2. pos'[t].open /\ pos'[t].plan = p BY <1>7, <3>1 DEF IInv, TypeOK, Rest
    <3>3. Stage(p)' = "open" BY <1>1, <1>2, <1>7, <3>2 DEF Stage, Held, Fit
    <3>4. booked[p.id] = 0 /\ booked'[p.id] = n /\ n < p.lots /\ 0 < n
      BY <1>1, <1>2, <1>3, <1>4, <1>7, <2>1, <3>1 DEF Fit
    <3> QED BY <1>6, <1>7, <3>3, <3>4 DEF StageMoves, Booked
  <2>2. CASE n = x.lots
    <3>1. pos' = [pos EXCEPT ![t] = NoPos] /\ exited' = exited \cup {p.id}
      BY <1>3, <1>7, <2>2 DEF Closes
    <3>2. ~\E u \in Held' : pos'[u].plan = p
      <4> SUFFICES ASSUME NEW u \in Held', pos'[u].plan = p PROVE FALSE OBVIOUS
      <4>1. u \in Tickers /\ pos'[u].open BY DEF Held
      <4>2. u # t BY <3>1, <4>1 DEF IInv, TypeOK, NoPos
      <4>3. u \in Held /\ pos[u].plan = x.plan BY <1>5, <1>7, <4>1, <4>2 DEF Held
      <4> QED BY <1>6, <4>2, <4>3
    <3>3. Stage(p)' = "exited" BY <1>1, <1>2, <1>7, <3>1, <3>2 DEF Stage, Fit
    <3>4. booked'[p.id] = p.lots BY <1>2, <1>3, <1>4, <1>7, <2>2 DEF Fit
    <3> QED BY <1>6, <1>7, <3>3, <3>4 DEF StageMoves, Booked
  <2> QED BY <1>1, <1>3, <2>1, <2>2
<1>8. CASE p # x.plan
  <2>1. p.id # x.plan.id /\ p.id \in Ids BY <1>6, <1>8, PaperAssumption, PlanOfId
  <2>2. booked'[p.id] = booked[p.id] BY <1>4, <2>1
  <2>3. p.id \in exited' <=> p.id \in exited BY <2>1 DEF Closes
  <2>4. \A u \in Held : pos[u].plan = p => u \in Tickers \ {t}
    BY <1>6, <1>8 DEF Held
  <2>5. \A u \in Held' : pos'[u].plan = p => u \in Tickers \ {t}
    <3>1. pos'[t] = Rest(x, n) \/ pos'[t] = NoPos BY DEF Closes, IInv, TypeOK
    <3> QED BY <1>8, <3>1 DEF Held, Rest, NoPos
  <2> QED BY <1>5, <2>2, <2>3, <2>4, <2>5, OthersMove
<1> QED BY <1>7, <1>8

LEMMA SubmitMoves ==
    ASSUME IInv, NEW s \in Plans, Submit(s), NEW p \in Plans
    PROVE  StageMoves(p)
<1>1. UNCHANGED <<pos, booked, exited>> /\ s \notin taken /\ taken' = taken \cup {s} /\ Held' = Held
  BY DEF Submit, Held
<1>2. \A q \in Plans : Waiting(q)' <=> (Waiting(q) \/ q = s)
  <2>1. \E e : e.plan = s /\ pending' = pending \cup {e}
    <3>1. pending' = pending \cup {[plan |-> s, until |-> now + s.ttl, nr |-> Cardinality(taken)]}
      BY DEF Submit
    <3>2. [plan |-> s, until |-> now + s.ttl, nr |-> Cardinality(taken)].plan = s OBVIOUS
    <3> QED BY <3>1, <3>2
  <2> QED BY <2>1 DEF Waiting
<1>3. CASE p = s
  <2>1. Stage(p) = "new" /\ Stage(p)' = "pending" BY <1>1, <1>2, <1>3 DEF Stage
  <2> QED BY <1>1, <2>1 DEF StageMoves, Booked
<1>4. CASE p # s
  <2>1. Stage(p)' = Stage(p) BY <1>1, <1>2, <1>4 DEF Stage
  <2> QED BY <1>1, <2>1 DEF StageMoves, Booked
<1> QED BY <1>3, <1>4

LEMMA CancelAllMoves ==
    ASSUME IInv, NEW t \in Tickers, CancelAll(t), NEW p \in Plans
    PROVE  StageMoves(p)
<1>1. /\ pending' = {e \in pending : e.plan.tk # t} /\ pos' = [pos EXCEPT ![t] = NoPos]
      /\ taken' = taken /\ booked' = booked /\ exited' = exited
  BY DEF CancelAll
<1>2. pos'[t] = NoPos /\ \A u \in Tickers \ {t} : pos'[u] = pos[u]
  BY <1>1 DEF IInv, TypeOK
<1>3. Goes(t) BY <1>1 DEF Goes
<1>4. \A u \in Held' : u # t BY <1>2 DEF Held, NoPos
<1>5. CASE t \in Held /\ pos[t].plan = p
  <2>1. p \in taken /\ p.tk = t /\ ~Waiting(p) /\ p.id \notin exited
    BY <1>5 DEF IInv, TypeOK, Sound
  <2>2. Stage(p) = "open" BY <1>5, <2>1 DEF Stage
  <2>3. \A q \in Plans : q.tk = t => ~Waiting(q)' BY <1>1 DEF Waiting
  <2>4. \A q \in Plans : q.tk = t => ~\E u \in Held' : pos'[u].plan = q
    BY <1>2, <1>4 DEF Held, IInv, TypeOK
  <2>5. \A q \in Plans : q.tk = t => Stage(q)' \notin {"pending", "open"}
    BY <2>3, <2>4 DEF Stage
  <2>6. Stage(p)' = "dropped" BY <1>1, <2>1, <2>3, <2>4 DEF Stage
  <2> QED BY <1>1, <2>1, <2>2, <2>5, <2>6 DEF StageMoves, Booked
<1>6. CASE ~(t \in Held /\ pos[t].plan = p)
  <2>1. \A u \in Held : pos[u].plan = p => u \in Tickers \ {t} BY <1>6 DEF Held
  <2>2. \A u \in Held' : pos'[u].plan = p => u \in Tickers \ {t} BY <1>4 DEF Held
  <2> QED BY <1>1, <1>2, <1>3, <2>1, <2>2, OthersMove
<1> QED BY <1>5, <1>6

LEMMA InjectMoves ==
    ASSUME IInv, NEW s \in Plans, NEW lots \in 1..s.lots, Inject(s, lots, s.entry), NEW p \in Plans
    PROVE  StageMoves(p)
<1>1. /\ taken = {} /\ taken' = {s} /\ booked' = [booked EXCEPT ![s.id] = s.lots - lots]
      /\ pending' = pending
  BY DEF Inject
<1>2. pos'[s.tk].open /\ pos'[s.tk].plan = s /\ s.tk \in Tickers
  BY PlanFields DEF Inject, IInv, TypeOK
<1>3. pending = {} BY <1>1 DEF IInv, TypeOK
<1>4. CASE p = s
  <2>1. Stage(p) = "new" /\ Stage(p)' = "open"
    BY <1>1, <1>2, <1>3, <1>4 DEF Stage, Waiting, Held
  <2>2. booked'[p.id] < p.lots
    BY <1>1, <1>4, PlanOfId, PlanFields DEF IInv, TypeOK
  <2> QED BY <2>1, <2>2 DEF StageMoves, Booked
<1>5. CASE p # s
  <2>1. Stage(p) = "new" /\ Stage(p)' = "new" BY <1>1, <1>5 DEF Stage
  <2>2. p.id # s.id /\ p.id \in Ids BY <1>5, PaperAssumption, PlanOfId
  <2>3. booked'[p.id] = booked[p.id] BY <1>1, <2>2 DEF IInv, TypeOK
  <2> QED BY <2>1, <2>3 DEF StageMoves, Booked
<1> QED BY <1>4, <1>5

\* Every step of the executor is a step of TradeLifecycle or leaves it alone.
LEMMA StepLife == IInv /\ [Next]_vars => [Life!Next]_<<Status, booked>>
<1> SUFFICES ASSUME IInv, [Next]_vars PROVE Life!Next OBVIOUS
<1>1. IInv' BY NextInv
<1>2. ASSUME NEW p \in Plans PROVE StageMoves(p)
  <2>1. CASE \E s \in Plans : Submit(s) \/ \E lots \in 1..s.lots : Inject(s, lots, s.entry)
    BY <2>1, SubmitMoves, InjectMoves
  <2>2. CASE \E t \in Tickers : FeedEvent(t) \/ TickNext(t)
    <3>1. PICK t \in Tickers : FeedEvent(t) \/ TickNext(t) BY <2>2
    <3>2. PICK at \in Int : at <= now /\ TickOn(t, at) /\ taken' = taken BY <3>1, TickSteps
    <3>3. PICK s \in Seen(t) : TickTicker(t, at, s.qe, s.qx) BY <3>2 DEF TickOn
    <3>4. s.qe \in Quote /\ s.qx \in Quote BY SeenQuotes DEF IInv
    <3>5. Goes(t) BY <3>2, <3>3, <3>4, TickCases
    <3>6. PICK x : /\ Candidate(t, x)
                   /\ x.open => ~Waiting(x.plan)'
                   /\ \/ Keeps(t, x)
                      \/ \E n \in Nat, price \in Int, why \in Whys : Closes(t, x, n, price, why)
      BY <3>2, <3>3, <3>4, TickCases
    <3>7. CASE Keeps(t, x)
      BY <3>2, <3>5, <3>6, <3>7, KeepsMoves
    <3>8. ASSUME NEW n \in Nat, NEW price \in Int, NEW why \in Whys, Closes(t, x, n, price, why)
          PROVE  StageMoves(p)
      BY <3>2, <3>5, <3>6, <3>8, ClosesMoves
    <3> QED BY <3>6, <3>7, <3>8
  <2>3. ASSUME NEW t \in Tickers, CloseTrade(t) PROVE StageMoves(p)
    <3>1. PICK price \in Int : Closes(t, pos[t], pos[t].lots, price, "Requested") BY <2>3, CloseTradeInv
    <3>2. Candidate(t, pos[t]) /\ Goes(t) /\ ~Waiting(pos[t].plan) /\ pending' = pending
      BY <2>3, CloseTradeInv
    <3>3. taken' = taken BY <2>3 DEF CloseTrade
    <3>4. PICK y : y = pos[t] OBVIOUS
    <3>5. ~Waiting(y.plan)' BY <3>2, <3>4 DEF Waiting
    <3>6. Candidate(t, y) /\ Closes(t, y, y.lots, price, "Requested") BY <3>1, <3>2, <3>4
    <3>7. y.lots \in Nat
      <4>1. y.open BY <3>6 DEF Closes
      <4> QED BY <3>6, <4>1, CandidateFits DEF Fit, Position
    <3> QED BY <3>2, <3>3, <3>5, <3>6, <3>7, ClosesMoves
  <2>4. ASSUME NEW t \in Tickers, CancelAll(t) PROVE StageMoves(p)
    BY <2>4, CancelAllMoves
  <2>5. CASE (\E t \in Tickers : BookMoves(t)) \/ TickBegin \/ PopClosedTrades \/ TimePasses \/ UNCHANGED vars
    BY <2>5, OtherInv, StageSame
  <2> QED BY <2>1, <2>2, <2>3, <2>4, <2>5 DEF Next
<1> QED BY <1>1, <1>2, LiftMoves

LEMMA InitLife == Init => Life!Init
<1> SUFFICES ASSUME Init PROVE Life!Init OBVIOUS
<1>1. \A p \in Plans : Stage(p) = "new" BY DEF Init, Stage
<1>2. \A i \in Ids : PlanOf(i) \in Plans BY IdsOfPlans, PlanOfId
<1> QED BY <1>1, <1>2 DEF Init, Life!Init, Status

\* PaperExecutor implements TradeLifecycle: whatever plans, quotes and callers
\* there are, a plan lives once and its lots are booked once.
THEOREM ImplementsLifecycle == Spec => Lifecycle
  BY InitInv, NextInv, InitLife, StepLife, PTL DEF Spec, Lifecycle, Life!Spec
=============================================================================
