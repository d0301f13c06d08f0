------------------------------ MODULE Universe ------------------------------
(* TickerUniverse and what follows it: the pool of tickers, the strategies   *)
(* enabled for each, the controllers and strategies that the affinity        *)
(* handler of BotApp adds and removes, and the gate of a plan.               *)
(*                                                                           *)
(* The universe collects changes under its lock and calls the handler for    *)
(* each after it unlocked: on the main thread, which also takes the          *)
(* screener's notifications and timers, and on the dashboard's.  Statistics  *)
(* of tickers never arrive in the program, so all volumes are equal and a    *)
(* strategy suits every ticker or none.                                      *)
EXTENDS Integers, FiniteSets

CONSTANTS Tickers, Leader,
          Names,       \* the registered strategies
          Suits,       \* those whose affinity function admits a ticker
          Candidates,  \* pending_candidates_: tickers that pass the static filter
          MaxPool,     \* max_pool_size
          StableMin,   \* kAffinityStableMin
          MaxClock, MaxCoins, MaxOverrides, MaxPlans \* bounds

ASSUME UniverseAssumption ==
    /\ Candidates \subseteq Tickers /\ Suits \subseteq Names
    /\ MaxPool \in Nat /\ StableMin \in Nat

VARIABLES approved,    \* screener_approved_
          pool,        \* active_
          affinity,    \* affinity_: ticker -> strategy -> "none", "off" or "on"
          activeSince, \* active_since_, 0 for none
          pending,     \* thread -> changes collected and not yet handed on
          engine,      \* strategies of the engine: how many of a name a ticker has
          controllers, \* tickers with a controller
          trades,      \* tickers with an open trade
          fallback,    \* the fallback timer has not fired
          clock, spent,
          entered,     \* history: when the ticker last entered the pool
          adrift       \* history: strategies that the engine may have beside their affinity

universeVars == <<approved, pool, affinity, activeSince, pending, engine, controllers,
                  trades, fallback, clock, spent, entered, adrift>>

Callers == {"main", "dashboard"}
Unknown == [s \in Names |-> "none"]

Spend(k, limit) == spent[k] < limit /\ spent' = [spent EXCEPT ![k] = @ + 1]

-----------------------------------------------------------------------------
(* TickerUniverse *)

\* The largest by volume: with equal volumes, any.
Survivors(available) ==
    IF Cardinality(available) <= MaxPool THEN {available}
    ELSE {S \in SUBSET available : Cardinality(S) = MaxPool}

\* The affinity of tickers outside the pool is forgotten, and nobody told.
Kept(newPool) == [t \in Tickers |-> IF t \in newPool THEN affinity[t] ELSE Unknown]

SinceWith(newPool) ==
    [t \in Tickers |-> IF t \notin newPool THEN 0
                       ELSE IF activeSince[t] = 0 THEN clock ELSE activeSince[t]]

RefreshPool(newPool) ==
    /\ pool' = newPool
    /\ activeSince' = SinceWith(newPool)
    /\ entered' = [t \in Tickers |-> IF t \in newPool \ pool THEN clock ELSE entered[t]]

Score(s) == IF s \in Suits THEN "on" ELSE "off"

AffinityChange(t, s, on) == [ticker |-> t, name |-> s, enabled |-> on]

\* What collect_affinity_changes_ finds in the affinities a of the pool p.
Changes(a, p) ==
    {AffinityChange(y[1], y[2], Score(y[2]) = "on") : y \in
        {x \in p \X Names : a[x[1]][x[2]] # Score(x[2])
                            /\ (a[x[1]][x[2]] = "on" \/ Score(x[2]) = "on")}}

\* As Scored, but what was enabled is not entered.
ScoredOff(a, p) ==
    [t \in Tickers |-> IF t \in p THEN [s \in Names |-> IF Score(s) = "on" THEN a[t][s] ELSE "off"]
                       ELSE a[t]]

Scored(a, p) == [t \in Tickers |-> IF t \in p THEN [s \in Names |-> Score(s)] ELSE a[t]]

Other(th) == CHOOSE o \in Callers : o # th

\* Changes of one strategy on two threads reach the handler in either order.
Raced(th, cs) ==
    {x \in Tickers \X Names : \E c \in cs, d \in pending[Other(th)] :
        c.ticker = x[1] /\ c.name = x[2] /\ d.ticker = x[1] /\ d.name = x[2]}

Collect(a, p) ==
    /\ affinity' = Scored(a, p)
    /\ pending' = [pending EXCEPT !["main"] = Changes(a, p)]

\* A strategy of a ticker that leaves the pool enabled stays in the engine.
Dropped(newPool) ==
    {x \in (Tickers \ newPool) \X Names : affinity[x[1]][x[2]] = "on"}

RebuildPool(available) ==
    \E newPool \in Survivors(available) :
        /\ RefreshPool(newPool)
        /\ Collect(Kept(newPool), newPool)
        /\ adrift' = adrift \union Dropped(newPool)
                       \union Raced("main", Changes(Kept(newPool), newPool))

MainFree == pending["main"] = {}

OnScreenerNewCoin(t) ==
    /\ MainFree
    /\ t \notin approved
    /\ Spend("coins", MaxCoins)
    /\ approved' = approved \union {t}
    /\ RebuildPool(approved')
    /\ UNCHANGED <<engine, controllers, trades, fallback, clock>>

\* The timer of 10 s: refresh_pool, then refresh_affinity.
PoolFallback ==
    /\ MainFree
    /\ fallback
    /\ fallback' = FALSE
    /\ IF pool = {} THEN RebuildPool(Candidates)
       ELSE UNCHANGED <<pool, affinity, activeSince, pending, entered, adrift>>
    /\ UNCHANGED <<approved, engine, controllers, trades, clock, spent>>

\* refresh_affinity every 60 s, and on_big_tick and on_big_amount.
RefreshAffinity ==
    /\ MainFree
    /\ Collect(affinity, pool)
    /\ adrift' = adrift \union Raced("main", Changes(affinity, pool))
    /\ UNCHANGED <<approved, pool, activeSince, engine, controllers, trades, fallback, clock,
                   spent, entered>>

\* A command of the dashboard: any ticker, in the pool or not.
OverrideAffinity(t, s, on) ==
    /\ pending["dashboard"] = {}
    /\ Spend("overrides", MaxOverrides)
    /\ affinity' = [affinity EXCEPT ![t][s] = IF on THEN "on" ELSE "off"]
    /\ LET cs == IF (affinity[t][s] = "on") # on THEN {AffinityChange(t, s, on)} ELSE {}
       IN  /\ pending' = [pending EXCEPT !["dashboard"] = cs]
           /\ adrift' = adrift \union Raced("dashboard", cs)
    /\ UNCHANGED <<approved, pool, activeSince, engine, controllers, trades, fallback, clock,
                   entered>>

-----------------------------------------------------------------------------
(* The affinity handler: one call for one change. *)

Enable(c) ==
    /\ c.enabled
    /\ controllers' = controllers \union
           (IF c.ticker \in controllers THEN {} ELSE {c.ticker, Leader})
    /\ engine' = [engine EXCEPT ![c.ticker][c.name] = @ + 1]

\* Without strategies and trades a ticker loses its controller.
Disable(c) ==
    /\ ~c.enabled
    /\ engine' = [engine EXCEPT ![c.ticker][c.name] = 0]
    /\ controllers' = IF (\A s \in Names : affinity[c.ticker][s] # "on") /\ c.ticker \notin trades
                      THEN controllers \ {c.ticker} ELSE controllers

FireAffinityChange(th) ==
    \E c \in pending[th] :
        /\ pending' = [pending EXCEPT ![th] = @ \ {c}]
        /\ Enable(c) \/ Disable(c)
        /\ UNCHANGED <<approved, pool, affinity, activeSince, trades, fallback, clock, spent,
                       entered, adrift>>

-----------------------------------------------------------------------------
(* A plan of a strategy, whose signals need the controller. *)

IsAffinityStable(t) == activeSince[t] # 0 /\ clock - activeSince[t] >= StableMin

Plan(t) ==
    /\ t \in controllers \ trades
    /\ \E s \in Names : engine[t][s] > 0
    /\ IsAffinityStable(t)
    /\ Spend("trades", MaxPlans)
    /\ trades' = trades \union {t}
    /\ UNCHANGED <<approved, pool, affinity, activeSince, pending, engine, controllers, fallback,
                   clock, entered, adrift>>

TradeEnds(t) ==
    /\ t \in trades
    /\ trades' = trades \ {t}
    /\ UNCHANGED <<approved, pool, affinity, activeSince, pending, engine, controllers, fallback,
                   clock, spent, entered, adrift>>

TimePasses ==
    /\ clock < MaxClock
    /\ clock' = clock + 1
    /\ UNCHANGED <<approved, pool, affinity, activeSince, pending, engine, controllers, trades,
                   fallback, spent, entered, adrift>>

UniverseInit ==
    /\ approved = {} /\ pool = {}
    /\ affinity = [t \in Tickers |-> Unknown]
    /\ activeSince = [t \in Tickers |-> 0]
    /\ pending = [th \in Callers |-> {}]
    /\ engine = [t \in Tickers |-> [s \in Names |-> 0]]
    /\ controllers = {} /\ trades = {}
    /\ fallback = TRUE
    /\ clock = 1
    /\ spent = [k \in {"coins", "overrides", "trades"} |-> 0]
    /\ entered = [t \in Tickers |-> 0]
    /\ adrift = {}

UniverseNext ==
    \/ \E t \in Tickers : OnScreenerNewCoin(t) \/ Plan(t) \/ TradeEnds(t)
    \/ \E t \in Tickers, s \in Names, on \in BOOLEAN : OverrideAffinity(t, s, on)
    \/ \E th \in Callers : FireAffinityChange(th)
    \/ PoolFallback \/ RefreshAffinity \/ TimePasses

UniverseSpec == UniverseInit /\ [][UniverseNext]_universeVars

-----------------------------------------------------------------------------

\* Types; the pool keeps its limit and has a time of entry for each ticker.
UniverseTypeOK ==
    /\ approved \subseteq Tickers /\ controllers \subseteq Tickers \union {Leader}
    /\ pool \subseteq Tickers /\ Cardinality(pool) <= MaxPool
    /\ \A t \in Tickers : activeSince[t] \in 0..clock /\ (activeSince[t] # 0 <=> t \in pool)
    /\ affinity \in [Tickers -> [Names -> {"none", "off", "on"}]]
    /\ engine \in [Tickers -> [Names -> Nat]]
    /\ trades \subseteq Tickers

\* A trade begins only for a ticker that has been in the pool without a break
\* for the stable time: a coin pushed out by a rebuild starts anew.
TradesStable ==
    [][\A t \in trades' \ trades : t \in pool /\ clock - entered[t] >= StableMin]_universeVars

\* Once every change is handed on, the engine has one strategy of each enabled
\* name and none of the others, whatever the screener, the timers and the
\* operator did: but for strategies enabled when their ticker left the pool,
\* and those that two threads changed at once.
StrategiesAgree ==
    (\A th \in Callers : pending[th] = {}) =>
        \A t \in Tickers, s \in Names : <<t, s>> \notin adrift =>
            engine[t][s] = IF affinity[t][s] = "on" THEN 1 ELSE 0
=============================================================================
