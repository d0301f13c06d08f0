---------------------------- MODULE PaperExecutor ----------------------------
(* PaperExecutor: plans wait for a fill that is simulated from the local   *)
(* order book, positions are closed by stop, take-profit or timeouts.      *)
(* The main thread ticks every ticker that has anything once a second and  *)
(* one ticker per event that the feed dispatches; the processor thread     *)
(* moves the books and submits; strategies and dashboard close and cancel. *)
(*                                                                         *)
(* Prices are integers and slippage is a number of price steps.  A long    *)
(* position has direction 1, a short one -1; comparisons are multiplied by *)
(* it, where the code spells both sides out.                               *)
EXTENDS Integers, Sequences, FiniteSets

CONSTANTS
    Tickers,
    Plans,      \* set of records [id, tk, dir, market, entry, stop, tp, lots, part,
                \*   ttl, noProgress, grace, follow]; part: lots of TP1, 0 = all
    Quotes,     \* set of [bid, ask] the market may show
    Slip,       \* slippage in price steps
    MaxNow,     \* bound: clock
    MaxLag      \* bound: how old the time of a market event may be

ASSUME PaperAssumption ==
    /\ \A p, q \in Plans : p.id = q.id => p = q
    /\ \A p \in Plans : /\ p.tk \in Tickers /\ p.dir \in {-1, 1} /\ p.market \in BOOLEAN
                        /\ {p.entry, p.stop, p.tp, p.lots, p.part, p.ttl,
                            p.noProgress, p.grace, p.follow} \subseteq Nat
                        /\ p.part < p.lots
    /\ Quotes \subseteq [bid : Nat \ {0}, ask : Nat \ {0}] /\ \A q \in Quotes : q.bid < q.ask
    /\ {Slip, MaxNow, MaxLag} \subseteq Nat

\* The target of a plan is beyond its entry by more than the slippage of the
\* exit; 0 stands for no target.
ASSUME TargetAssumption ==
    \A p \in Plans : p.tp > 0 => p.dir * (p.tp - p.entry) >= Slip

VARIABLES
    now,        \* the clock of the main thread
    books,      \* books_ and what they hold: ticker -> quote, or NoBook
    pending,    \* pending_entries_: set of [plan, until, nr], in the order of nr
    pos,        \* positions_: ticker -> position, or NoPos
    closed,     \* closed_trades_ not yet popped
    todo,       \* tick of the main thread: tickers left, and its clock
    taken,      \* plans submitted so far
    booked,     \* plan id -> lots in any closed trade
    exited      \* ids of plans whose position was closed, not cancelled

vars == <<now, books, pending, pos, closed, todo, taken, booked, exited>>

NoBook == [bid |-> 0, ask |-> 0]
NoPos == [open |-> FALSE]
Idle == [left |-> {}, at |-> 0]
Epoch == -1000     \* a default-constructed time_point, long ago
Ids == {p.id : p \in Plans}
Held == {t \in Tickers : pos[t].open}

Init ==
    /\ now = 0
    /\ books \in [Tickers -> Quotes \cup {NoBook}]
    /\ pending = {}
    /\ pos = [t \in Tickers |-> NoPos]
    /\ closed = <<>>
    /\ todo = Idle
    /\ taken = {}
    /\ booked = [i \in Ids |-> 0]
    /\ exited = {}

----------------------------------------------------------------------------
(* Quotes, entries and exits.                                              *)

Usable(q) == q.bid > 0 /\ q.ask > 0
EntryQuote(q, dir) == IF dir = 1 THEN q.ask ELSE q.bid
ExitQuote(q, dir) == IF dir = 1 THEN q.bid ELSE q.ask
TwiceMove(q, x) == x.plan.dir * (q.bid + q.ask - 2 * x.avg)

Fills(p, q) == p.market \/ p.dir * (EntryQuote(q, p.dir) - p.entry) <= 0

\* Mutant: stop and take-profit stay where the plan had them.
OpenedUnshifted(p, q, at) ==
    LET price == EntryQuote(q, p.dir) + p.dir * Slip
    IN  [open |-> TRUE, plan |-> p, lots |-> p.lots, avg |-> price,
         stop |-> p.stop, tp |-> p.tp, since |-> at]

\* The position a fill of p makes: stop and take-profit are moved by as much
\* as the fill is off the planned entry.
Opened(p, q, at) ==
    LET price == EntryQuote(q, p.dir) + p.dir * Slip
        shift == price - p.entry
    IN  [open |-> TRUE, plan |-> p, lots |-> p.lots, avg |-> price,
         stop |-> p.stop + shift, tp |-> IF p.tp > 0 THEN p.tp + shift ELSE 0, since |-> at]

\* The pending entries of t that fill at a tick, those that have expired.
Filling(t, q, at) == {e \in pending : /\ e.plan.tk = t /\ at <= e.until
                                      /\ Usable(q) /\ Fills(e.plan, q)}
Expired(t, at) == {e \in pending : e.plan.tk = t /\ at > e.until}

\* Mutant: the last entry that fills takes the position.
AfterEntriesLast(t, q, at) ==
    LET fills == Filling(t, q, at)
    IN  IF fills = {} THEN {pos[t]}
        ELSE {Opened(e.plan, q, at) : e \in {f \in fills : \A g \in fills : g.nr <= f.nr}}

\* positions_[t] once the entries have been handled (one value): the first
\* that fills opens the position, unless there is one; others are rejected.
AfterEntries(t, q, at) ==
    LET fills == Filling(t, q, at)
    IN  IF pos[t].open \/ fills = {} THEN {pos[t]}
        ELSE {Opened(e.plan, q, at) : e \in {f \in fills : \A g \in fills : f.nr <= g.nr}}

StopHit(x, q) == x.plan.dir * (ExitQuote(q, x.plan.dir) - x.stop) <= 0
TpHit(x, q) == x.tp > 0 /\ x.plan.dir * (EntryQuote(q, x.plan.dir) - x.tp) >= 0
NoProgress(x, q, at) == at - x.since > x.plan.noProgress /\ TwiceMove(q, x) <= 0
NoFollow(x, q, at) == /\ at - x.since > x.plan.grace /\ x.plan.follow > 0
                      /\ TwiceMove(q, x) < 2 * x.plan.follow

\* Why position x is closed at quote q, in the order the code asks.
Reason(x, q, at) ==
    IF ~x.open \/ ~Usable(q) THEN "none"
    ELSE IF StopHit(x, q) THEN "StopLoss"
    ELSE IF TpHit(x, q) THEN "TakeProfit"
    ELSE IF NoProgress(x, q, at) THEN "NoProgress"
    ELSE IF NoFollow(x, q, at) THEN "FollowThrough" ELSE "none"

Trade(x, lots, price, why) ==
    [id |-> x.plan.id, lots |-> lots, why |-> why, pnl |-> x.plan.dir * (price - x.avg) * lots]

\* Mutant: every take-profit is partial.
PartialAny(x, why) == why = "TakeProfit"

\* A take-profit takes only plan.part lots, if that is set; the stop of the
\* rest is moved to break-even and there is no further take-profit.
Partial(x, why) == why = "TakeProfit" /\ x.plan.part > 0
Rest(x, n) == [open |-> TRUE, plan |-> x.plan, lots |-> x.lots - n, avg |-> x.avg,
               stop |-> x.avg, tp |-> 0, since |-> x.since]
ExitPrice(x, q, why) ==
    (IF why = "TakeProfit" THEN EntryQuote(q, x.plan.dir) ELSE ExitQuote(q, x.plan.dir))
        - x.plan.dir * Slip

\* tick(ticker, at) under the mutex; qe is the quote the entries see, qx the
\* one the exits see.
TickTicker(t, at, qe, qx) == \E x \in AfterEntries(t, qe, at) :
    LET why == Reason(x, qx, at)
        n == IF Partial(x, why) THEN x.plan.part ELSE x.lots
    IN  /\ pending' = pending \ (Filling(t, qe, at) \cup Expired(t, at))
        /\ IF why = "none"
           THEN /\ pos' = [pos EXCEPT ![t] = x]
                /\ UNCHANGED <<closed, booked, exited>>
           ELSE /\ pos' = [pos EXCEPT ![t] = IF Partial(x, why) THEN Rest(x, n) ELSE NoPos]
                /\ closed' = Append(closed, Trade(x, n, ExitPrice(x, qx, why), why))
                /\ booked' = [booked EXCEPT ![x.plan.id] = @ + n]
                /\ exited' = IF Partial(x, why) THEN exited ELSE exited \cup {x.plan.id}

----------------------------------------------------------------------------
(* The operations.                                                         *)

\* submit: the plan is valid for its ttl.
Submit(p) ==
    /\ p \notin taken
    /\ taken' = taken \cup {p}
    /\ pending' = pending \cup {[plan |-> p, until |-> now + p.ttl, nr |-> Cardinality(taken)]}
    /\ UNCHANGED <<now, books, pos, closed, todo, booked, exited>>

\* close_trade: at the quote, or at the entry price when there is none.
CloseTrade(t) ==
    /\ pos[t].open
    /\ LET x == pos[t]
           price == IF Usable(books[t]) THEN ExitQuote(books[t], x.plan.dir) ELSE x.avg
       IN  /\ closed' = Append(closed, Trade(x, x.lots, price - x.plan.dir * Slip, "Requested"))
           /\ booked' = [booked EXCEPT ![x.plan.id] = @ + x.lots]
           /\ exited' = exited \cup {x.plan.id}
    /\ pos' = [pos EXCEPT ![t] = NoPos]
    /\ UNCHANGED <<now, books, pending, todo, taken>>

\* cancel_all: what waits is dropped, and the position with it, unrecorded.
CancelAll(t) ==
    /\ pending' = {e \in pending : e.plan.tk # t}
    /\ pos' = [pos EXCEPT ![t] = NoPos]
    /\ UNCHANGED <<now, books, closed, todo, taken, booked, exited>>

\* inject_recovered_trades at start: a saved position of p with what is
\* left of it; the time it was opened is not saved, so it counts as ancient.
Inject(p, lots, avg) ==
    /\ now = 0 /\ taken = {} /\ todo.left = {}
    /\ pos' = [pos EXCEPT ![p.tk] = [open |-> TRUE, plan |-> p, lots |-> lots, avg |-> avg,
                 stop |-> IF lots < p.lots THEN avg ELSE p.stop,
                 tp |-> IF lots < p.lots THEN 0 ELSE p.tp, since |-> Epoch]]
    /\ taken' = {p}
    /\ booked' = [booked EXCEPT ![p.id] = p.lots - lots]
    /\ UNCHANGED <<now, books, pending, closed, todo, exited>>

\* The processor thread applies an update, or the book loses a side or is
\* taken out of the map.
BookMoves(t) ==
    /\ \E q \in (Quotes \cup {NoBook}) \ {books[t]} : books' = [books EXCEPT ![t] = q]
    /\ UNCHANGED <<now, pending, pos, closed, todo, taken, booked, exited>>

\* What a tick of t may read.  The book has a lock per read, so the processor
\* may change it between two reads: bid and ask, or the entries and the exits,
\* may see either side of the change.
Seen(t) ==
    LET old == books[t]
        Moved(q) == LET torn == [bid |-> old.bid, ask |-> q.ask]
                    IN  {[qe |-> old, qx |-> torn, new |-> q], [qe |-> old, qx |-> q, new |-> q],
                         [qe |-> torn, qx |-> q, new |-> q]}
    IN  {[qe |-> old, qx |-> old, new |-> old]} \cup UNION {Moved(q) : q \in Quotes}

TickOn(t, at) == \E s \in Seen(t) : /\ TickTicker(t, at, s.qe, s.qx)
                                    /\ books' = [books EXCEPT ![t] = s.new]

\* on_trade, on_orderbook_*: a tick of one ticker, at the time of the event.
\* The feed runs on the main thread, so not within tick(now).
FeedEvent(t) ==
    /\ todo.left = {}
    /\ \E at \in (now - MaxLag)..now : TickOn(t, at)
    /\ UNCHANGED <<now, todo, taken>>

\* Mutant: only waiting entries are looked at.
ActiveEntries == {e.plan.tk : e \in pending}

\* The tickers tick(now) collects under the mutex.
Active == {e.plan.tk : e \in pending} \cup Held

TickBegin ==
    /\ todo.left = {} /\ Active # {}
    /\ todo' = [left |-> Active, at |-> now]
    /\ UNCHANGED <<now, books, pending, pos, closed, taken, booked, exited>>

\* One ticker of tick(now).
TickNext(t) ==
    /\ t \in todo.left
    /\ todo' = [todo EXCEPT !.left = @ \ {t}]
    /\ TickOn(t, todo.at)
    /\ UNCHANGED <<now, taken>>

\* pop_closed_trades.
PopClosedTrades ==
    /\ closed # <<>>
    /\ closed' = <<>>
    /\ UNCHANGED <<now, books, pending, pos, todo, taken, booked, exited>>

TimePasses == /\ now < MaxNow /\ now' = now + 1
              /\ UNCHANGED <<books, pending, pos, closed, todo, taken, booked, exited>>

Next ==
    \/ \E p \in Plans : Submit(p) \/ \E lots \in 1..p.lots : Inject(p, lots, p.entry)
    \/ \E t \in Tickers : \/ CloseTrade(t) \/ CancelAll(t) \/ BookMoves(t)
                         \/ FeedEvent(t) \/ TickNext(t)
    \/ TickBegin \/ PopClosedTrades \/ TimePasses

\* The main thread ticks every second and a tick ends.
Fairness == WF_vars(TickBegin) /\ \A t \in Tickers : WF_vars(TickNext(t))

Spec == Init /\ [][Next]_vars /\ Fairness

----------------------------------------------------------------------------
(* Properties.                                                             *)

Quote == [bid : Nat, ask : Nat]
Entry == [plan : Plans, until : Nat, nr : Nat]
Position == [open : {TRUE}, plan : Plans, lots : Nat, avg : Int, stop : Int, tp : Int, since : Int]
Closed == [id : Ids, lots : Nat \ {0}, why : {"StopLoss", "TakeProfit", "NoProgress", "FollowThrough",
            "Requested"}, pnl : Int]

\* Types: entries wait for plans that were submitted, a position belongs to
\* its ticker and holds part of its plan, and was opened before now (the
\* members PaperExecutor keeps under its mutex).
TypeOK ==
    /\ now \in 0..MaxNow
    /\ books \in [Tickers -> Quote]
    /\ pending \subseteq Entry /\ \A e \in pending : e.plan \in taken
    /\ pos \in [Tickers -> Position \cup {NoPos}]
    /\ \A t \in Held : /\ pos[t].plan \in taken /\ pos[t].plan.tk = t
                       /\ pos[t].lots \in 1..pos[t].plan.lots
                       /\ pos[t].since <= now
    /\ closed \in Seq(Closed)
    /\ todo \in [left : SUBSET Tickers, at : 0..now]
    /\ taken \subseteq Plans /\ IsFiniteSet(taken)
    /\ booked \in [Ids -> Nat] /\ exited \subseteq Ids

\* A take-profit is never recorded with a loss, however far the market has
\* run between the plan and the fill and whatever the quotes mix: a plan
\* whose target is beyond the slippage stays one after the fill
\* (PaperExecutor.cpp:196, "preventing TP from firing immediately at a loss").
TakeProfitGains ==
    \A i \in DOMAIN closed : closed[i].why = "TakeProfit" => closed[i].pnl >= 0

Overdue(t) == pos[t].open /\ Usable(books[t]) /\ StopHit(pos[t], books[t])

\* No position stays beyond its stop and no entry beyond its time for good:
\* the tick of the main thread reaches both though it took its list of
\* tickers before, however the book moves meanwhile (PaperExecutor.cpp:130).
NothingOverdue == []<>(\A t \in Tickers : ~Overdue(t)) /\ []<>(\A e \in pending : now <= e.until)

Waiting(p) == \E e \in pending : e.plan = p
Stage(p) ==
    IF p \notin taken THEN "new"
    ELSE IF Waiting(p) THEN "pending"
    ELSE IF \E t \in Held : pos[t].plan = p THEN "open"
    ELSE IF p.id \in exited THEN "exited" ELSE "dropped"
PlanOf(i) == CHOOSE p \in Plans : p.id = i
Status == [i \in Ids |-> Stage(PlanOf(i))]

\* The life of a plan that the rest of the program relies on, for this
\* executor: TradeLifecycle with Status as its status.
Life == INSTANCE TradeLifecycle WITH
    Plans <- Ids, status <- Status, booked <- booked,
    TickerOf <- [i \in Ids |-> PlanOf(i).tk], Lots <- [i \in Ids |-> PlanOf(i).lots]
Lifecycle == Life!Spec
=============================================================================
