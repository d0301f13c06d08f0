----------------------------- MODULE Strategies -----------------------------
(* The strategies of one ticker between signals and orders: StrategyEngine, *)
(* its four strategies, the plan callback and the close callback of BotApp. *)
(* Two threads enter the engine: the processor with signals and frames, the *)
(* main thread with the tick and with signals: of broken levels, and of all *)
(* detectors until the processor starts.                                    *)
(*                                                                          *)
(* A signal is a kind and a side (1 Bid or Buy, -1 Ask or Sell, 0 none), at *)
(* one price level; only its age matters.  Numeric conditions on the frame  *)
(* (spread, volumes, leader change, prices) are the free choice of a plan   *)
(* being made or not.  LeaderMove signals are those beyond the contra       *)
(* thresholds.  Orders stand for the executor's trades.                     *)
EXTENDS Integers, FiniteSets

CONSTANTS
    Signals,        \* the signals that may be published: [kind, dir]
    Brief,          \* 3 s: a contra burst, fade or leader move before an entry, lag_max_age
    Short,          \* 5 s: tape_fade_max_age, the windows after an entry, approach
    FlushAge,       \* 8 s: tape_flush_max_age
    SupportAge,     \* 30 s: support behind, iceberg and removed density
    LevelAge,       \* 60 s: max_level_age
    HoldAge,        \* 120 s: no_progress_timeout_sec
    Ttl,            \* strategy -> entry_timeout
    Climates,       \* the regimes a frame may be classified as
    Enabled,        \* the strategies the universe enables for the ticker
    Removals,       \* bound: sets of strategies removed together
    MaxFresh,       \* bound: signals inside the windows at once
    MaxAlive        \* bound: orders at once

Strategies == {"Bounce", "Breakout", "LeaderLag", "Flush"}
Threads == {"processor", "main"}

ASSUME StrategiesAssumption ==
    /\ \A x \in Signals : x.dir \in {-1, 0, 1}
    /\ {Brief, Short, FlushAge, SupportAge, LevelAge, HoldAge, MaxFresh, MaxAlive} \subseteq Nat
    /\ Ttl \in [Strategies -> Nat] /\ Enabled \subseteq Strategies /\ Removals \subseteq SUBSET Enabled
    /\ Climates \subseteq {"News", "Trend", "Range"}

VARIABLES
    added,      \* strategies of the ticker in ticker_strategies_
    age,        \* signal -> seconds since it was last published
    plans,      \* active_plan_: {[s, left]}, left the seconds to valid_until
    watch,      \* active_trade_info_: {[s, dir, id]}
    regime,     \* regimes_[ticker]
    doing,      \* thread -> where it is in the engine
    orders      \* trades of the executor: {[id, s, age, open, asked]}

strategyVars == <<added, age, plans, watch, regime, doing, orders>>

Gone == 0                   \* the id of an order that is no more
Never == HoldAge + 1        \* the age of a signal outside every window
Free == [at |-> "idle", id |-> Gone]

\* x remembers an order; those of ids are no more.
Forget(x, ids) == IF x.id \in ids THEN [x EXCEPT !.id = Gone] ELSE x
Regimes == {"Unknown", "News", "Trend", "Range"}
Planned(s) == \E p \in plans : p.s = s
Watched(s) == \E w \in watch : w.s = s
Without(set, ss) == {x \in set : x.s \notin ss}

StrategiesInit ==
    /\ added = Enabled
    /\ age = [x \in Signals |-> Never]
    /\ plans = {} /\ watch = {}
    /\ regime = "Unknown"
    /\ doing = [th \in Threads |-> Free]
    /\ orders = {}

----------------------------------------------------------------------------
(* What a strategy remembers of the signals (StrategyContext): here a is   *)
(* the age of every signal.                                                *)

\* The last signals of kind k: with two in one second, either may be last.
Latest(a, k) == {x \in Signals : /\ x.kind = k /\ a[x] < Never
                              /\ \A y \in Signals : y.kind = k => a[x] <= a[y]}

\* The last signal of kind k may be one of side d at most w old,
May(a, k, w, d) == \E x \in Latest(a, k) : a[x] <= w /\ x.dir = d
\* or may fail to be one.
MayNot(a, k, w, d) == Latest(a, k) = {} \/ \E x \in Latest(a, k) : a[x] > w \/ x.dir # d

Recent(a, k, w) == \E x \in Signals : x.kind = k /\ a[x] <= w
InHistory(a, k, d, w) == \E x \in Signals : x.kind = k /\ x.dir = d /\ a[x] <= w

----------------------------------------------------------------------------
(* Plans: the side a strategy may propose, given the signals.              *)

\* Mutant: a plan while the trade of the last one is watched.
BounceUnwatched(a, d) ==
    /\ ~Planned("Bounce")
    /\ InHistory(a, "DensityDetected", d, LevelAge)
    /\ Recent(a, "TapeFade", Short)

\* The level approached is held by a density that has not been removed,
BounceLevel(a, d) ==
    /\ InHistory(a, "DensityDetected", d, LevelAge)
    /\ ~Recent(a, "DensityRemoved", SupportAge)

\* the tape fades and nothing pushes against the bounce.
BounceQuiet(a, d) ==
    /\ MayNot(a, "TapeBurst", Brief, -d)
    /\ Recent(a, "TapeFade", Short)
    /\ MayNot(a, "LeaderMove", Brief, -d)
    /\ ~InHistory(a, "IcebergSuspected", d, SupportAge)

BouncePlan(a, d) ==
    /\ ~Watched("Bounce") /\ ~Planned("Bounce")
    /\ BounceLevel(a, d) /\ BounceQuiet(a, d)

\* Set once the first frame of the ticker has arrived.
Framed == regime # "Unknown"

\* A density of the other side is eaten in a burst towards it,
BreakoutBurst(a, d) ==
    /\ May(a, "DensityEating", 0, -d)
    /\ May(a, "TapeBurst", Brief, d)

\* the move is not dying, and there is support behind.
BreakoutHolds(a, d) ==
    /\ ~Recent(a, "TapeFade", Brief)
    /\ MayNot(a, "LeaderMove", Brief, -d)
    /\ \E k \in {"DensityDetected", "IcebergSuspected"} : InHistory(a, k, d, SupportAge)

BreakoutPlan(a, d) ==
    /\ ~Planned("Breakout") /\ Framed
    /\ BreakoutBurst(a, d) /\ BreakoutHolds(a, d)

\* A level broken in a flush and nothing that continues the move.  The side
\* of a LevelBreak is the side price went.
FlushPlan(a, d) ==
    /\ ~Planned("Flush") /\ Framed
    /\ May(a, "LevelBreak", 0, -d)
    /\ Recent(a, "TapeFlush", FlushAge)
    /\ MayNot(a, "TapeBurst", Short, -d)
    /\ MayNot(a, "DensityEating", Short, -d)

\* on_signal makes a plan on these kinds only.
SignalPlan(a, kind, s, d) ==
    \/ kind = "LevelApproach" /\ s = "Bounce" /\ BouncePlan(a, d)
    \/ kind = "DensityEating" /\ s = "Breakout" /\ BreakoutPlan(a, d)
    \/ kind = "LevelBreak" /\ s = "Flush" /\ FlushPlan(a, d)

\* LeaderLag makes its plan in tick.
LagPlan(d) == Framed /\ May(age, "LeaderMove", Brief, d)

\* Mutant: valid_until without the timeout.
NewPlanAtOnce(s) == [s |-> s, left |-> 0]

\* The plan becomes active_plan_ until its valid_until.
NewPlan(s) == [s |-> s, left |-> Ttl[s]]

----------------------------------------------------------------------------
(* Signals and plans.                                                      *)

Deciding(s, d) == [at |-> "risk", s |-> s, dir |-> d, id |-> Gone]

\* Each strategy hears of a signal; one of them may make a plan of it.  What
\* is published while the other thread publishes is queued and delivered by
\* that one, or at once, as the flag of the bus is not synchronised: either
\* thread may deliver any signal.
Publish(th, x) ==
    /\ doing[th] = Free /\ added # {}
    /\ age[x] < Never \/ Cardinality({y \in Signals : age[y] < Never}) < MaxFresh
    /\ LET heard == [age EXCEPT ![x] = 0]
       IN  /\ age' = heard
           /\ \/ UNCHANGED <<plans, doing>>
              \/ \E s \in added, d \in {-1, 1} :
                   /\ SignalPlan(heard, x.kind, s, d)
                   /\ plans' = plans \cup {NewPlan(s)}
                   /\ doing' = [doing EXCEPT ![th] = Deciding(s, d)]
    /\ UNCHANGED <<added, watch, regime, orders>>

\* reset_active_plan: the plan goes, and what the strategy watched with it.
Rejected(th) ==
    /\ doing[th].at = "risk"
    /\ plans' = Without(plans, {doing[th].s})
    /\ watch' = Without(watch, {doing[th].s})
    /\ doing' = [doing EXCEPT ![th] = Free]
    /\ UNCHANGED <<added, age, regime, orders>>

Unused == (1..MaxAlive) \ {o.id : o \in orders}

\* The risk manager accepts and the executor takes the plan.
Accepted(th) ==
    /\ doing[th].at = "risk" /\ Unused # {}
    /\ LET id == CHOOSE i \in Unused : TRUE
       IN  /\ orders' = orders \cup {[id |-> id, s |-> doing[th].s, age |-> 0,
                                      open |-> FALSE, asked |-> FALSE]}
           /\ doing' = [doing EXCEPT ![th] = [@ EXCEPT !.at = "notify", !.id = id]]
    /\ UNCHANGED <<added, age, plans, watch, regime>>

\* notify_plan_accepted: the strategy watches the trade of its plan.
Notified(th) ==
    /\ doing[th].at = "notify"
    /\ watch' = Without(watch, {doing[th].s}) \cup
                  {[s |-> doing[th].s, dir |-> doing[th].dir, id |-> doing[th].id]}
    /\ doing' = [doing EXCEPT ![th] = Free]
    /\ UNCHANGED <<added, age, plans, regime, orders>>

Suppressed == {"News", "Range"}    \* regimes that take no LeaderLag plan

\* StrategyEngine::tick: plans past their time are dropped; LeaderLag, which
\* drops its trade as well, then makes a plan of its own unless it has one.
Tick ==
    LET kept == {p \in plans : p.left >= 0}
        lagLate == \E p \in plans \ kept : p.s = "LeaderLag"
        watched == IF lagLate THEN Without(watch, {"LeaderLag"}) ELSE watch
        silent == /\ watch' = watched /\ plans' = kept /\ UNCHANGED doing
        suppress == /\ watch' = Without(watch, {"LeaderLag"}) /\ plans' = kept /\ UNCHANGED doing
        propose(d) == /\ watch' = watched
                      /\ plans' = kept \cup {NewPlan("LeaderLag")}
                      /\ doing' = [doing EXCEPT !["main"] = Deciding("LeaderLag", d)]
    IN  /\ doing["main"] = Free
        /\ \/ silent
           \/ \E d \in {-1, 1} :
                /\ "LeaderLag" \in added /\ LagPlan(d)
                /\ \A p \in kept : p.s # "LeaderLag"
                /\ IF regime \in Suppressed THEN suppress ELSE propose(d)
        /\ UNCHANGED <<added, age, regime, orders>>

----------------------------------------------------------------------------
(* Frames: the strategies ask for their trade to be closed.                *)

\* check_close_conditions of the strategies, for a trade of side d.
BounceOver(d) == Recent(age, "DensityRemoved", HoldAge) \/ May(age, "TapeBurst", Short, -d)
BreakoutOver(d) == Recent(age, "TapeFade", Short) \/ May(age, "LeaderMove", Short, -d)
FlushOver(d) == Recent(age, "TapeFlush", Short) \/ May(age, "TapeBurst", Short, -d)

\* LeaderLag may close on any frame: it looks at the frame's correlation and
\* leader change.
Invalidated(w) ==
    CASE w.s = "Bounce" -> BounceOver(w.dir)
      [] w.s = "Breakout" -> BreakoutOver(w.dir)
      [] w.s = "Flush" -> FlushOver(w.dir)
      [] w.s = "LeaderLag" -> TRUE

\* StrategyEngine::on_frame, of the processor: the strategies whose trade is over stop watching
\* it and ask the executor, which closes the open trades of the ticker,
\* whoever made them.  Then the frame is classified.  (Leaving News takes a
\* lower volatility than entering it: no order of the regimes is excluded.)
EngineFrame ==
    /\ doing["processor"] = Free /\ added # {}
    /\ \E over \in SUBSET {w \in watch : Invalidated(w)} :
         /\ \A w \in watch \ over : w.s = "LeaderLag" \/ ~Invalidated(w)
         /\ watch' = IF over = {} THEN watch
                     ELSE {Forget(w, {o.id : o \in {x \in orders : x.open}}) : w \in watch \ over}
         /\ doing' = IF over = {} THEN doing
                     ELSE [other \in Threads |->
                             Forget(doing[other], {o.id : o \in {x \in orders : x.open}})]
         /\ orders' = IF over = {} THEN orders
                      ELSE {[o EXCEPT !.asked = @ \/ \E w \in over : w.id = o.id] :
                              o \in {x \in orders : ~x.open}}
    /\ regime' \in Climates
    /\ UNCHANGED <<added, age, plans>>

----------------------------------------------------------------------------
(* The executor, the universe and time.                                    *)

Fill(o) ==
    /\ ~o.open
    /\ orders' = (orders \ {o}) \cup {[o EXCEPT !.open = TRUE]}
    /\ UNCHANGED <<added, age, plans, watch, regime, doing>>

\* An entry expires or fails, or a trade meets its stop or target: no
\* strategy is told.
Ends(o) ==
    /\ orders' = orders \ {o}
    /\ watch' = {Forget(w, {o.id}) : w \in watch}
    /\ doing' = [th \in Threads |-> Forget(doing[th], {o.id})]
    /\ UNCHANGED <<added, age, plans, regime>>

AllFree == \A th \in Threads : doing[th] = Free

\* remove_strategy.  (While no thread is in the engine: the code takes no
\* lock there, and a strategy removed under one is used after it is freed.)
\* Its orders live on unwatched and are not followed here any more.
RemoveSet(ss) ==
    /\ AllFree /\ ss \subseteq added
    /\ added' = added \ ss
    /\ plans' = Without(plans, ss) /\ watch' = Without(watch, ss)
    /\ orders' = Without(orders, ss)
    /\ regime' = IF added' = {} THEN "Unknown" ELSE regime
    /\ UNCHANGED <<age, doing>>

\* The ticker's affinities are enabled again: new strategies, which remember
\* nothing.  (Bound: once the last of the old ones is gone.)
Add ==
    /\ added = {}
    /\ added' = Enabled
    /\ age' = [x \in Signals |-> Never]
    /\ UNCHANGED <<plans, watch, regime, doing, orders>>

Older(n, last) == IF n = last THEN n ELSE n + 1

\* A second passes.  (A callback takes less.)
Elapse ==
    /\ AllFree
    /\ age' = [x \in Signals |-> Older(age[x], Never)]
    /\ plans' = {[p EXCEPT !.left = IF @ < 0 THEN @ ELSE @ - 1] : p \in plans}
    /\ orders' = {[o EXCEPT !.age = Older(@, Ttl[o.s] + 1)] : o \in orders}
    /\ UNCHANGED <<added, watch, regime, doing>>

Step(th) == \/ Rejected(th) \/ Accepted(th) \/ Notified(th)
            \/ \E x \in Signals : Publish(th, x)

StrategiesNext ==
    \/ \E th \in Threads : Step(th)
    \/ EngineFrame \/ Tick
    \/ \E o \in orders : Fill(o) \/ Ends(o)
    \/ \E ss \in Removals : RemoveSet(ss)
    \/ Add \/ Elapse

StrategiesSpec == StrategiesInit /\ [][StrategiesNext]_strategyVars

----------------------------------------------------------------------------
(* Properties.                                                             *)

\* Types, and at most one plan and one watched trade per strategy
\* (active_plan_ and active_trade_info_ are one optional each).
StrategiesTypeOK ==
    /\ added \subseteq Strategies /\ regime \in Regimes
    /\ age \in [Signals -> 0..Never]
    /\ \A p \in plans : p.s \in added /\ p.left \in -1..Ttl[p.s]
    /\ \A p, q \in plans : p.s = q.s => p = q
    /\ \A w \in watch : w.s \in added /\ w.id \in Nat
    /\ \A v, w \in watch : v.s = w.s => v = w
    /\ \A o, p \in orders : o.id = p.id => o = p

\* Two orders of one strategy are further apart than its entry_timeout:
\* active_plan_ holds a strategy back after an accepted plan, on both threads
\* and through signals, ticks, frames and closed trades.
PlanPacing ==
    \A s \in added :
        Cardinality({o \in orders : o.s = s /\ o.age <= Ttl[s]}) <= 1

\* A trade of BounceFromDensity that lives, and whose close it has not asked
\* for, is the one it watches: a removed density never goes unnoticed because
\* another plan or a reset took active_trade_info_.
BounceWatched ==
    \A o \in orders :
        o.s = "Bounce" /\ ~o.asked =>
            \/ \E w \in watch : w.s = "Bounce" /\ w.id = o.id
            \/ \E th \in Threads : doing[th].at = "notify" /\ doing[th].id = o.id
=============================================================================
