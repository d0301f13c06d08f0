---------------------------- MODULE LiveExecutor ----------------------------
(***************************************************************************)
(* core/src/executor/LiveExecutor.cpp with the exchange it trades on.      *)
(*                                                                         *)
(* The executor keeps a list of ActiveTrades per ticker.  The processor    *)
(* thread submits plans, the websocket thread delivers order updates, the  *)
(* main thread ticks, polls and pops closed trades, the dashboard cancels  *)
(* and closes.  mutex_ makes each handler one step, except where the code  *)
(* unlocks around an HTTP call: submit (reserve / POST / push), tick       *)
(* (decide / cancel SL / cancel TP1 / close / record) and the              *)
(* reconciliation (poll / handle).                                         *)
(*                                                                         *)
(* A gateway call made inside a handler has several outcomes, so a handler *)
(* is an operator that yields a set of outcomes, threading the exchange x  *)
(* through the calls in the order of the code.  Prices are abstracted: a   *)
(* slippage beyond the limit, a mark price that invalidates a trade and    *)
(* the passing of the 5 s re-arm delay are choices.                        *)
(***************************************************************************)
EXTENDS Integers, Sequences, FiniteSets, FiniteSetsExt

CONSTANTS
    NumTickers,     \* tickers are 1..NumTickers, the order of the btree_map
    Plans,          \* the plans submitted: a sequence of PlanType records
    MaxFaults,      \* bound: gateway calls that throw
    MaxOrders,      \* bound: orders on the exchange when a re-arm starts
    PartialFills,   \* may the exchange fill an entry in two parts?
    HttpFirst,      \* does a POST return before the updates of its order?
    PostReturnsId,  \* does the POST reply carry the OrderId?
    Slippages,      \* possible answers to "entry slippage > max?" (R15)
    Operations      \* the optional callers at work in this instance

Tickers == 1..NumTickers
Uids == 1..Len(Plans)
\* tp: half of the plan's size is at least the min_size of the ticker, so a
\* TP1 order can be placed (every plan that passes R7 has a TP1 price).
PlanType == [ticker : Tickers, side : {"Buy", "Sell"}, size : Nat \ {0}, tp : BOOLEAN]
AllOperations == {"close_trade", "cancel_all", "invalidate", "reservation_timeout",
                  "exchange_cancel", "pop"}

ASSUME InstanceAssumption ==
    /\ NumTickers \in Nat \ {0}
    /\ Plans \in Seq(PlanType)
    /\ MaxFaults \in Nat /\ MaxOrders \in Nat
    /\ PartialFills \in BOOLEAN /\ HttpFirst \in BOOLEAN /\ PostReturnsId \in BOOLEAN
    /\ Slippages \subseteq BOOLEAN /\ Slippages # {}
    /\ Operations \subseteq AllOperations

VARIABLES
    trades,     \* trades_: ticker -> list of ActiveTrade
    inflight,   \* submit calls between reserve and push: uid -> order id or 0
    submitted,  \* uids whose plan has been handed to submit
    reserved,   \* reserved_balance_usd_, in units of size
    unknown,    \* the reconciliator's intent; LiveExecutor always uses id 0
    result,     \* a ReconcileResult polled but not yet handled
    acts,       \* the CloseActions of the running tick
    closed,     \* closed_trades_: uids, in the order recorded
    journal,    \* how often each uid was recorded and popped
    x,          \* the exchange: orders, websocket stream, faults left
    swept,      \* history: uids that cancel_all found not Closed
    badClose    \* history: uids one of whose market closes threw

vars == <<trades, inflight, submitted, reserved, unknown, result, acts, closed,
          journal, x, swept, badClose>>

States == {"PendingEntry", "Open", "Closed", "Cancelling", "SubmitUnknown",
           "EmergencyClosing"}
None == [outcome |-> "none"]

\* ActiveTrade as submit creates it.
NewTrade(u, st) ==
    [uid |-> u, st |-> st, entry |-> 0, stop |-> 0, tp1 |-> 0, exec |-> 0,
     fix |-> FALSE, tp1_filled |-> FALSE, old |-> FALSE]

Opposite(side) == IF side = "Buy" THEN "Sell" ELSE "Buy"

-----------------------------------------------------------------------------
(* The exchange, as the gateway and the order stream show it.  An order is  *)
(* made by place_order for a trade in a role; updates are delivered in the  *)
(* order they happened.                                                     *)

OrderTicker(o) == Plans[o.by].ticker
OrderSide(o) == IF o.role = "entry" THEN Plans[o.by].side ELSE Opposite(Plans[o.by].side)

\* The position the exchange holds on a ticker for plans of one side.
Exposure(orders, t, side) ==
    LET mine == {i \in DOMAIN orders :
                    OrderTicker(orders[i]) = t /\ Plans[orders[i].by].side = side}
    IN  MapThenSumSet(LAMBDA i : IF orders[i].role = "entry" THEN orders[i].filled
                                 ELSE -orders[i].filled, mine)

Least(a, b) == IF a <= b THEN a ELSE b

Update(id, status, filled) == [id |-> id, status |-> status, filled |-> filled]

\* The exchange accepts an order: a reduce-only market close executes at
\* once against what is left of the position, any other order rests.
Accept(xs, u, role, size) ==
    LET id    == Len(xs.orders) + 1
        fill  == IF role = "close"
                 THEN Least(size, Exposure(xs.orders, Plans[u].ticker, Plans[u].side))
                 ELSE 0
    IN  [orders |-> Append(xs.orders, [by |-> u, role |-> role, size |-> size,
                                       filled |-> fill, live |-> role # "close"]),
         ws |-> Append(xs.ws, Update(id, IF role = "close" THEN "Closed" ELSE "Open", fill)),
         faults |-> xs.faults]

Faulted(xs) == [xs EXCEPT !.faults = @ - 1]

\* OrderGateway::place_order: accepted; or it throws, the order having
\* reached the exchange or not.
Place(xs, u, role, size) ==
    {[ok |-> TRUE, x |-> Accept(xs, u, role, size),
      id |-> IF PostReturnsId THEN Len(xs.orders) + 1 ELSE 0]}
    \cup (IF xs.faults = 0 THEN {}
          ELSE {[ok |-> FALSE, x |-> Faulted(xs), id |-> 0],
                [ok |-> FALSE, x |-> Faulted(Accept(xs, u, role, size)), id |-> 0]})

Drop(xs, id) ==
    [orders |-> [xs.orders EXCEPT ![id].live = FALSE],
     ws |-> Append(xs.ws, Update(id, "Closed", xs.orders[id].filled)),
     faults |-> xs.faults]

\* The k-th number of a set.
Nth(S, k) == CHOOSE i \in S : Cardinality({j \in S : j < i}) = k - 1

\* All orders of a set of ids end, in the order of their ids.
DropAll(xs, ids) ==
    [orders |-> [i \in DOMAIN xs.orders |->
                    IF i \in ids THEN [xs.orders[i] EXCEPT !.live = FALSE] ELSE xs.orders[i]],
     ws |-> xs.ws \o [k \in 1..Cardinality(ids) |->
                         Update(Nth(ids, k), "Closed", xs.orders[Nth(ids, k)].filled)],
     faults |-> xs.faults]

\* OrderGateway::cancel_order; an order that is no longer open is refused.
Cancel(xs, id) ==
    IF ~xs.orders[id].live THEN {[ok |-> FALSE, x |-> xs]}
    ELSE {[ok |-> TRUE, x |-> Drop(xs, id)]}
         \cup (IF xs.faults = 0 THEN {}
               ELSE {[ok |-> FALSE, x |-> Faulted(xs)],
                     [ok |-> FALSE, x |-> Faulted(Drop(xs, id))]})

\* cancel_order for an id that may be 0 (none), as every caller guards it.
CancelIfAny(xs, id) == IF id = 0 THEN {[ok |-> TRUE, x |-> xs]} ELSE Cancel(xs, id)

-----------------------------------------------------------------------------
(* What a handler does to one trade: the trade, the exchange, the           *)
(* ClosedTrade records it pushes, and whether a market close threw.         *)

Outcome(t, xs) == [t |-> t, x |-> xs, rec |-> <<>>, bad |-> FALSE]

\* TP1 takes half of the position, rounded down; none below min_size 1.
TpSize(n) == n \div 2

\* Mutant: the stop is sized like the take-profit.
StopSizeOfTp(t) == TpSize(t.exec)

\* The SL covers all that has been executed.
StopSize(t) == t.exec

\* place_stops_, from the cancelled old orders on: SL, then TP1.
ArmStops(t, xs, tpCancelled) ==
    UNION {LET t1 == IF sl.ok THEN [t EXCEPT !.stop = sl.id] ELSE t
           IN  IF Plans[t.uid].tp /\ tpCancelled /\ TpSize(t.exec) >= 1
               THEN {Outcome(IF tp.ok THEN [t1 EXCEPT !.tp1 = tp.id] ELSE t1, tp.x) :
                        tp \in Place(sl.x, t.uid, "tp1", TpSize(t.exec))}
               ELSE {Outcome(t1, sl.x)} :
           sl \in Place(xs, t.uid, "stop", StopSize(t))}

\* place_stops_: the old SL must be cancelled first, else nothing is placed;
\* an old TP1 that cannot be cancelled only keeps the new TP1 out.
PlaceStops(t, xs) ==
    IF t.st # "Open" \/ t.exec = 0 THEN {Outcome(t, xs)}
    ELSE UNION {IF ~c.ok THEN {Outcome(t, c.x)}
                ELSE UNION {ArmStops([t EXCEPT !.stop = 0, !.tp1 = IF d.ok THEN 0 ELSE @],
                                     d.x, d.ok) :
                            d \in CancelIfAny(c.x, t.tp1)} :
                c \in CancelIfAny(xs, t.stop)}

\* Mutant: the trade is closed and recorded, the market order is not sent.
EmergencyCloseOnPaper(t, xs) ==
    {[t |-> [t EXCEPT !.stop = 0, !.tp1 = 0, !.st = "Closed"],
      x |-> c.x, rec |-> <<t.uid>>, bad |-> FALSE] : c \in CancelIfAny(xs, t.stop)}

\* emergency_close_trade_ then record_emergency_close_: cancel SL and TP1
\* whatever comes of it, close by market, record.
EmergencyClose(t, xs) ==
    UNION {UNION {{[t |-> [t EXCEPT !.stop = 0, !.tp1 = 0,
                                    !.st = IF m.ok THEN "Closed" ELSE @],
                    x |-> m.x, rec |-> <<t.uid>>, bad |-> ~m.ok] :
                   m \in Place(d.x, t.uid, "close", t.exec)} :
                  d \in CancelIfAny(c.x, t.tp1)} :
           c \in CancelIfAny(xs, t.stop)}

\* Which of the trade's orders an update is about: by known id, or, for an
\* id not seen yet, by type and side (and size for an entry).
Role(t, u) ==
    LET o == x.orders[u.id]
        p == Plans[t.uid]
    IN  IF u.id = t.entry THEN "entry"
        ELSE IF u.id = t.stop THEN "stop"
        ELSE IF u.id = t.tp1 THEN "tp1"
        ELSE IF /\ t.entry = 0 /\ o.role \in {"entry", "close"}
                /\ OrderSide(o) = p.side /\ o.size = p.size THEN "entry"
        ELSE IF t.stop = 0 /\ o.role \in {"stop", "be"} /\ OrderSide(o) # p.side THEN "stop"
        ELSE IF t.tp1 = 0 /\ o.role = "tp1" /\ OrderSide(o) # p.side THEN "tp1"
        ELSE "none"

\* The trade with the update's order id captured in the matched role.
Captured(t, role, id) ==
    CASE role = "entry" -> [t EXCEPT !.entry = id]
      [] role = "stop"  -> [t EXCEPT !.stop = id]
      [] role = "tp1"   -> [t EXCEPT !.tp1 = id]

\* Mutant: an Open update only acknowledges the order.
OnOpenUpdateAcknowledges(t, role, u, xs) == {Outcome(t, xs)}

\* on_order_update, status Open: a partial fill opens the trade and calls
\* place_stops_ before it adds the fill to executed_size.
OnOpenUpdate(t, role, u, xs) ==
    IF role # "entry" \/ u.filled = 0 THEN {Outcome(t, xs)}
    ELSE {[o EXCEPT !.t = [o.t EXCEPT !.exec = @ + u.filled]] :
            o \in IF t.st = "Open" THEN {Outcome(t, xs)}
                  ELSE PlaceStops([t EXCEPT !.st = "Open", !.old = FALSE], xs)}

\* on_order_update, the entry is done with a fill: R15 closes a slipped
\* entry by market, any other entry gets its stops.
OnEntryFilled(t, u, slipped, xs) ==
    LET t1 == [t EXCEPT !.st = "Open", !.exec = u.filled, !.old = FALSE]
    IN  IF slipped
        THEN {[Outcome(IF m.ok THEN [t1 EXCEPT !.st = "EmergencyClosing"] ELSE t1, m.x)
                 EXCEPT !.bad = ~m.ok] : m \in Place(xs, t.uid, "close", u.filled)}
        ELSE PlaceStops(t1, xs)

\* on_order_update, first TP1 fill: the SL is cancelled and a break-even
\* stop is placed for the rest at AvgPriceFix, if that is known.
OnTp1Filled(t, u, xs) ==
    LET t1   == [t EXCEPT !.tp1_filled = TRUE, !.stop = 0]
        rest == IF t.exec > u.filled THEN t.exec - u.filled ELSE 0
    IN  UNION {IF rest = 0 \/ ~t.fix THEN {Outcome(t1, c.x)}
               ELSE UNION {IF be.ok THEN {Outcome(t1, be.x)} ELSE EmergencyClose(t1, be.x) :
                           be \in Place(c.x, t.uid, "be", rest)} :
               c \in CancelIfAny(xs, t.stop)}

\* on_order_update, an order is done without a fill: only an entry matters.
OnZeroFill(t, role) == IF role = "entry" THEN [t EXCEPT !.st = "Closed"] ELSE t

\* on_order_update, status Closed.
OnClosedUpdate(t, role, u, slipped, xs) ==
    IF u.filled = 0
    THEN {Outcome(OnZeroFill(t, role), xs)}
    ELSE CASE role = "entry" -> OnEntryFilled(t, u, slipped, xs)
           [] role = "tp1" /\ ~t.tp1_filled -> OnTp1Filled(t, u, xs)
           [] OTHER -> {[t |-> [t EXCEPT !.st = "Closed"], x |-> xs,
                         rec |-> <<t.uid>>, bad |-> FALSE]}

\* Mutant: the trades that have a stop are re-armed, those without are not.
NeedsStopInverted(t) == t.st = "Open" /\ t.stop # 0 /\ t.old

NeedsStop(t) == t.st = "Open" /\ t.stop = 0 /\ t.old

\* What a loop over a ticker's trades does to one of them: tick re-arms open
\* trades without a stop, close_trade closes open trades with a position.
Handled(loop, t, xs) ==
    CASE loop = "rearm" /\ NeedsStop(t) -> PlaceStops(t, xs)
      [] loop = "close" /\ t.st = "Open" /\ t.exec > 0 -> EmergencyClose(t, xs)
      [] OTHER -> {Outcome(t, xs)}

\* One turn of the loop, from the outcomes of the turns before.
Turn(loop, t, outcomes) ==
    UNION {{[list |-> Append(a.list, o.t), x |-> o.x, rec |-> a.rec \o o.rec,
             bad |-> a.bad \cup (IF o.bad THEN {t.uid} ELSE {})] :
            o \in Handled(loop, t, a.x)} : a \in outcomes}

\* Each trade sees the exchange the one before left.
ForEach(loop, list, xs) ==
    LET after[n \in 0..Len(list)] ==
            IF n = 0 THEN {[list |-> <<>>, x |-> xs, rec |-> <<>>, bad |-> {}]}
            ELSE Turn(loop, list[n], after[n - 1])
    IN  after[Len(list)]

-----------------------------------------------------------------------------

Init ==
    /\ trades = [t \in Tickers |-> <<>>]
    /\ inflight = [u \in {} |-> 0]
    /\ submitted = {}
    /\ reserved = 0
    /\ unknown = None
    /\ result = None
    /\ acts = <<>>
    /\ closed = <<>>
    /\ journal = [u \in Uids |-> 0]
    /\ x = [orders |-> <<>>, ws |-> <<>>, faults |-> MaxFaults]
    /\ swept = {}
    /\ badClose = {}

\* Mutant: the reservation is released without the floor at zero.
ReleaseUnfloored(n) == reserved - n

Release(n) == IF reserved >= n THEN reserved - n ELSE 0
Reservation(u) == Plans[u].size
\* Mutant: the new trade is put in front of the others.
PushFront(u, st) ==
    trades' = [trades EXCEPT ![Plans[u].ticker] = <<NewTrade(u, st)>> \o @]

Push(u, st) ==
    trades' = [trades EXCEPT ![Plans[u].ticker] = Append(@, NewTrade(u, st))]

\* submit, under mutex_: reserve the balance, then unlock.
SubmitBegin(u) ==
    /\ u \notin submitted
    /\ submitted' = submitted \cup {u}
    /\ inflight' = [v \in DOMAIN inflight \cup {u} |-> IF v = u THEN 0 ELSE inflight[v]]
    /\ reserved' = reserved + Reservation(u)
    /\ UNCHANGED <<trades, unknown, result, acts, closed, journal, x, swept, badClose>>

\* The POST of a submit in flight reaches the exchange.
PostArrives(u) ==
    /\ u \in DOMAIN inflight
    /\ inflight[u] = 0
    /\ x' = Accept(x, u, "entry", Plans[u].size)
    /\ inflight' = [inflight EXCEPT ![u] = Len(x.orders) + 1]
    /\ UNCHANGED <<trades, submitted, reserved, unknown, result, acts, closed, journal,
                   swept, badClose>>

Landed(u) == inflight' = [v \in DOMAIN inflight \ {u} |-> inflight[v]]

\* submit, place_order returned: push the trade.
SubmitReturns(u) ==
    /\ u \in DOMAIN inflight
    /\ inflight[u] # 0
    /\ Landed(u)
    /\ Push(u, "PendingEntry")
    /\ UNCHANGED <<submitted, reserved, unknown, result, acts, closed, journal, x, swept,
                   badClose>>

\* submit, place_order threw: release, register the intent under local id 0
\* (refused while another one is tracked) and push the trade SubmitUnknown.
SubmitThrows(u) ==
    /\ u \in DOMAIN inflight
    /\ x.faults > 0
    /\ x' = Faulted(x)
    /\ Landed(u)
    /\ reserved' = Release(Reservation(u))
    /\ unknown' = IF unknown = None
                  THEN [outcome |-> "tracked", ticker |-> Plans[u].ticker,
                        side |-> Plans[u].side, size |-> Plans[u].size]
                  ELSE unknown
    /\ Push(u, "SubmitUnknown")
    /\ UNCHANGED <<submitted, result, acts, closed, journal, swept, badClose>>

\* Mutants: one of the two skipped states is not skipped.
SkippedClosedOnly(t) == t.st = "Closed"
SkippedEmergencyOnly(t) == t.st = "EmergencyClosing"

\* The trades on_order_update passes over.
Skipped(t) == t.st \in {"Closed", "EmergencyClosing"}

\* Mutant: the end of any order of the trade releases its reservation.
ReleasedByAny(t, role, u) == IF u.status = "Closed" THEN Reservation(t.uid) ELSE 0

\* The reservation goes when the entry order reaches its terminal state.
ReleasedBy(t, role, u) ==
    IF role = "entry" /\ u.status = "Closed" THEN Reservation(t.uid) ELSE 0

\* on_order_update for the next update of the stream: the first trade of the
\* ticker that is neither Closed nor EmergencyClosing and matches takes it.
OnOrderUpdate ==
    /\ x.ws # <<>>
    /\ LET u     == Head(x.ws)
           tk    == OrderTicker(x.orders[u.id])
           list  == trades[tk]
           takes == {i \in DOMAIN list : ~Skipped(list[i]) /\ Role(list[i], u) # "none"}
           rest  == [x EXCEPT !.ws = Tail(@)]
       IN  /\ HttpFirst => x.orders[u.id].by \notin DOMAIN inflight
           /\ IF takes = {}
              THEN /\ x' = rest
                   /\ UNCHANGED <<trades, reserved, closed, badClose>>
              ELSE \E i \in takes :
                   LET role == Role(list[i], u)
                       t    == Captured(list[i], role, u.id)
                   IN  /\ \A j \in takes : i <= j
                       /\ \E slipped \in Slippages :
                          \E o \in IF u.status = "Open" THEN OnOpenUpdate(t, role, u, rest)
                                   ELSE OnClosedUpdate(t, role, u, slipped, rest) :
                             /\ trades' = [trades EXCEPT ![tk][i] = o.t]
                             /\ x' = o.x
                             /\ closed' = closed \o o.rec
                             /\ badClose' = badClose \cup (IF o.bad THEN {t.uid} ELSE {})
                             /\ reserved' = Release(ReleasedBy(t, role, u))
    /\ UNCHANGED <<inflight, submitted, unknown, result, acts, journal, swept>>

\* on_position_update: AvgPriceFix of the position for its trades.
OnPositionUpdate(tk, side) ==
    /\ trades' = [trades EXCEPT ![tk] =
                    [i \in DOMAIN @ |->
                       IF @[i].st # "Closed" /\ Plans[@[i].uid].side = side
                       THEN [@[i] EXCEPT !.fix = Exposure(x.orders, tk, side) > 0]
                       ELSE @[i]]]
    /\ trades' # trades
    /\ UNCHANGED <<inflight, submitted, reserved, unknown, result, acts, closed, journal,
                   x, swept, badClose>>

Places == {<<tk, i>> : tk \in Tickers, i \in 1..Len(Plans)}
At(p) == trades[p[1]][p[2]]
\* Map order, then list order: how the code walks trades_.
Before(p, q) == p[1] < q[1] \/ (p[1] = q[1] /\ p[2] < q[2])

\* sent: the market close has been tried.
CloseAction(t) == [uid |-> t.uid, stop |-> t.stop, tp1 |-> t.tp1, size |-> t.exec, sent |-> FALSE]

TickIdle == acts = <<>> /\ result = None

\* tick, phase 1, under mutex_: a reservation not confirmed by a balance
\* update in time is dropped, and the open trades that the mark price
\* invalidates (no progress, no follow-through, R14) become EmergencyClosing.
TickDecide(hit, timeout) ==
    /\ TickIdle
    /\ timeout \/ hit # {}
    /\ timeout => reserved > 0 /\ "reservation_timeout" \in Operations
    /\ hit # {} => "invalidate" \in Operations
    /\ \A p \in hit : p[2] \in DOMAIN trades[p[1]] /\ At(p).st = "Open" /\ At(p).exec > 0
    /\ \E order \in [1..Cardinality(hit) -> hit] :
          /\ \A j, k \in DOMAIN order : j < k => Before(order[j], order[k])
          /\ acts' = [k \in DOMAIN order |-> CloseAction(At(order[k]))]
    /\ trades' = [tk \in Tickers |-> [i \in DOMAIN trades[tk] |->
                    IF <<tk, i>> \in hit
                    THEN [trades[tk][i] EXCEPT !.st = "EmergencyClosing"]
                    ELSE trades[tk][i]]]
    /\ reserved' = IF timeout THEN 0 ELSE reserved
    /\ UNCHANGED <<inflight, submitted, unknown, result, closed, journal, x, swept, badClose>>

\* tick, phase 2, unlocked, the first CloseAction that is left: cancel the SL,
\* cancel TP1, close by market, record; an exception of any call is logged and
\* ignored, and every other handler may run between two calls.
TickCancelStop ==
    /\ acts # <<>> /\ Head(acts).stop # 0
    /\ \E c \in Cancel(x, Head(acts).stop) : x' = c.x
    /\ acts' = [acts EXCEPT ![1].stop = 0]
    /\ UNCHANGED <<trades, inflight, submitted, reserved, unknown, result, closed, journal,
                   swept, badClose>>

TickCancelTp ==
    /\ acts # <<>> /\ Head(acts).stop = 0 /\ Head(acts).tp1 # 0
    /\ \E c \in Cancel(x, Head(acts).tp1) : x' = c.x
    /\ acts' = [acts EXCEPT ![1].tp1 = 0]
    /\ UNCHANGED <<trades, inflight, submitted, reserved, unknown, result, closed, journal,
                   swept, badClose>>

TickCloseMarket ==
    /\ acts # <<>> /\ Head(acts).stop = 0 /\ Head(acts).tp1 = 0 /\ ~Head(acts).sent
    /\ \E m \in Place(x, Head(acts).uid, "close", Head(acts).size) :
          /\ x' = m.x
          /\ badClose' = badClose \cup (IF m.ok THEN {} ELSE {Head(acts).uid})
    /\ acts' = [acts EXCEPT ![1].sent = TRUE]
    /\ UNCHANGED <<trades, inflight, submitted, reserved, unknown, result, closed, journal, swept>>

TickRecord ==
    /\ acts # <<>> /\ Head(acts).sent
    /\ closed' = Append(closed, Head(acts).uid)
    /\ acts' = Tail(acts)
    /\ UNCHANGED <<trades, inflight, submitted, reserved, unknown, result, journal, x, swept,
                   badClose>>

TickClose == TickCancelStop \/ TickCancelTp \/ TickCloseMarket \/ TickRecord

\* (now - opened_at) > 5 s comes true.
TimePasses(tk) ==
    /\ trades' = [trades EXCEPT ![tk] =
                    [i \in DOMAIN @ |-> IF @[i].st = "Open" THEN [@[i] EXCEPT !.old = TRUE]
                                        ELSE @[i]]]
    /\ trades' # trades
    /\ UNCHANGED <<inflight, submitted, reserved, unknown, result, acts, closed, journal,
                   x, swept, badClose>>

HasPending(tk) == unknown # None /\ unknown.ticker = tk

\* tick, ticker without pending intents: re-arm open trades without a stop.
TickRearm(tk) ==
    /\ TickIdle
    /\ ~HasPending(tk)
    /\ \E i \in DOMAIN trades[tk] : NeedsStop(trades[tk][i])
    /\ Len(x.orders) < MaxOrders
    /\ \E o \in ForEach("rearm", trades[tk], x) :
          /\ trades' = [trades EXCEPT ![tk] = o.list]
          /\ x' = o.x
    /\ UNCHANGED <<inflight, submitted, reserved, unknown, result, acts, closed, journal,
                   swept, badClose>>

\* tick, poll_open_orders: a resting entry order that matches the intent; or
\* none until the deadline, or a fetch that throws once it has passed.
Candidates ==
    {i \in DOMAIN x.orders : LET o == x.orders[i] IN
        /\ o.live /\ o.role = "entry" /\ OrderTicker(o) = unknown.ticker
        /\ OrderSide(o) = unknown.side /\ o.size = unknown.size}

PollResolves ==
    /\ TickIdle
    /\ unknown # None
    /\ \E i \in Candidates :
          result' = [outcome |-> "Resolved", intent |-> unknown, id |-> i]
    /\ unknown' = None
    /\ UNCHANGED <<trades, inflight, submitted, reserved, acts, closed, journal, x, swept,
                   badClose>>

PollTimesOut ==
    /\ TickIdle
    /\ unknown # None
    /\ \/ Candidates = {} /\ UNCHANGED x
       \/ x.faults > 0 /\ x' = Faulted(x)
    /\ result' = [outcome |-> "NotFoundTimeout", intent |-> unknown, id |-> 0]
    /\ unknown' = None
    /\ UNCHANGED <<trades, inflight, submitted, reserved, acts, closed, journal, swept, badClose>>

\* Mutant: the result is looked up among the pending trades.
ReconcilablePending ==
    {p \in Places :
        /\ p[2] \in DOMAIN trades[p[1]]
        /\ At(p).st = "PendingEntry"
        /\ Plans[At(p).uid].side = result.intent.side
        /\ Plans[At(p).uid].size = result.intent.size}

\* The SubmitUnknown trades that handle_reconciled_ would accept: side and
\* size are compared, the ticker is not.
Reconcilable ==
    {p \in Places :
        /\ p[2] \in DOMAIN trades[p[1]]
        /\ At(p).st = "SubmitUnknown"
        /\ Plans[At(p).uid].side = result.intent.side
        /\ Plans[At(p).uid].size = result.intent.size}

\* handle_reconciled_: the first such trade.
HandleReconciled ==
    /\ result # None
    /\ result' = None
    /\ IF Reconcilable = {} THEN UNCHANGED <<trades, reserved, closed>>
       ELSE \E p \in Reconcilable :
            /\ \A q \in Reconcilable \ {p} : Before(p, q)
            /\ IF result.outcome = "Resolved"
               THEN /\ trades' = [trades EXCEPT ![p[1]][p[2]] =
                                    [At(p) EXCEPT !.entry = result.id, !.st = "PendingEntry"]]
                    /\ UNCHANGED <<reserved, closed>>
               ELSE /\ trades' = [trades EXCEPT ![p[1]][p[2]] = [At(p) EXCEPT !.st = "Closed"]]
                    /\ reserved' = Release(Reservation(At(p).uid))
                    /\ closed' = Append(closed, At(p).uid)
    /\ UNCHANGED <<inflight, submitted, unknown, acts, journal, x, swept, badClose>>

\* close_trade: every open trade of the ticker with a position.
CloseTrade(tk) ==
    /\ "close_trade" \in Operations
    /\ \E i \in DOMAIN trades[tk] : trades[tk][i].st = "Open" /\ trades[tk][i].exec > 0
    /\ \E o \in ForEach("close", trades[tk], x) :
          /\ trades' = [trades EXCEPT ![tk] = o.list]
          /\ x' = o.x
          /\ closed' = closed \o o.rec
          /\ badClose' = badClose \cup o.bad
    /\ UNCHANGED <<inflight, submitted, reserved, unknown, result, acts, journal, swept>>

\* cancel_all: the exchange drops every open order of the ticker and every
\* trade that is not Closed becomes Cancelling.  When the gateway throws the
\* trades stay as they are.
CancelAll(tk) ==
    LET live == {i \in DOMAIN x.orders : x.orders[i].live /\ OrderTicker(x.orders[i]) = tk}
        gone == DropAll(x, live)
        hit  == {i \in DOMAIN trades[tk] : trades[tk][i].st # "Closed"}
        pend == {i \in hit : trades[tk][i].st = "PendingEntry"}
    IN  /\ "cancel_all" \in Operations
        /\ hit # {} \/ live # {}
        /\ \/ /\ x' = gone
              /\ trades' = [trades EXCEPT ![tk] =
                    [i \in DOMAIN @ |-> IF i \in hit THEN [@[i] EXCEPT !.st = "Cancelling"]
                                        ELSE @[i]]]
              /\ reserved' =
                    Release(MapThenSumSet(LAMBDA i : Reservation(trades[tk][i].uid), pend))
              /\ swept' = swept \cup {trades[tk][i].uid : i \in hit}
           \/ /\ x.faults > 0
              /\ x' \in {Faulted(x), Faulted(gone)}
              /\ UNCHANGED <<trades, reserved, swept>>
        /\ UNCHANGED <<inflight, submitted, unknown, result, acts, closed, journal, badClose>>

\* The trades of a list that are not Closed.
NotClosed(list) ==
    LET kept == {i \in DOMAIN list : list[i].st # "Closed"}
    IN  [k \in 1..Cardinality(kept) |-> list[Nth(kept, k)]]

\* How often u is in a list of records.
Times(u, records) == Cardinality({i \in DOMAIN records : records[i] = u})

\* pop_closed_trades: hand out the records, forget the Closed trades.
PopClosedTrades ==
    /\ "pop" \in Operations
    /\ closed' = <<>>
    /\ journal' = [u \in Uids |-> journal[u] + Times(u, closed)]
    /\ trades' = [tk \in Tickers |-> NotClosed(trades[tk])]
    /\ <<closed, trades>>' # <<closed, trades>>
    /\ UNCHANGED <<inflight, submitted, reserved, unknown, result, acts, x, swept, badClose>>

-----------------------------------------------------------------------------
(* The exchange fills and cancels resting orders. *)

Filled(xs, id, n) == [xs EXCEPT !.orders = [@ EXCEPT ![id].filled = n]]

\* An entry fills for n more: a partial fill is reported Open with the
\* increment, the last one Closed with the total.
EntryFills(id, n) ==
    LET o == x.orders[id] IN
    /\ o.live /\ o.role = "entry" /\ o.filled + n <= o.size
    /\ o.filled + n < o.size => PartialFills
    /\ x' = IF o.filled + n < o.size
            THEN [Filled(x, id, o.filled + n) EXCEPT !.ws = Append(@, Update(id, "Open", n))]
            ELSE Drop(Filled(x, id, o.size), id)
    /\ UNCHANGED <<trades, inflight, submitted, reserved, unknown, result, acts, closed,
                   journal, swept, badClose>>

\* A reduce-only stop or take-profit triggers while there is a position.
ExitFills(id) ==
    LET o == x.orders[id]
        n == Least(o.size, Exposure(x.orders, OrderTicker(o), Plans[o.by].side)) IN
    /\ o.live /\ o.role # "entry" /\ n > 0
    /\ x' = Drop(Filled(x, id, n), id)
    /\ UNCHANGED <<trades, inflight, submitted, reserved, unknown, result, acts, closed,
                   journal, swept, badClose>>

\* The exchange or its operator cancels a resting order.
ExchangeCancels(id) ==
    /\ "exchange_cancel" \in Operations
    /\ x.orders[id].live
    /\ x' = Drop(x, id)
    /\ UNCHANGED <<trades, inflight, submitted, reserved, unknown, result, acts, closed,
                   journal, swept, badClose>>

Submit(u) == SubmitBegin(u) \/ PostArrives(u) \/ SubmitReturns(u) \/ SubmitThrows(u)

Next ==
    \/ \E u \in Uids : Submit(u)
    \/ OnOrderUpdate
    \/ \E tk \in Tickers, side \in {"Buy", "Sell"} : OnPositionUpdate(tk, side)
    \/ \E hit \in SUBSET Places, timeout \in BOOLEAN : TickDecide(hit, timeout)
    \/ TickClose
    \/ \E tk \in Tickers : TimePasses(tk) \/ TickRearm(tk) \/ CloseTrade(tk) \/ CancelAll(tk)
    \/ PollResolves
    \/ PollTimesOut
    \/ HandleReconciled
    \/ PopClosedTrades
    \/ \E id \in DOMAIN x.orders :
          \/ \E n \in 1..x.orders[id].size : EntryFills(id, n)
          \/ ExitFills(id)
          \/ ExchangeCancels(id)

Spec == Init /\ [][Next]_vars

(* Websocket messages are read, the main thread ticks and polls, an HTTP call
   returns and time passes.  Nothing makes a price move or an order fill. *)
Fairness ==
    /\ \A u \in Uids : WF_vars(PostArrives(u) \/ SubmitReturns(u))
    /\ WF_vars(OnOrderUpdate)
    /\ WF_vars(TickClose)
    /\ \A tk \in Tickers : WF_vars(TimePasses(tk)) /\ SF_vars(TickRearm(tk))
    /\ SF_vars(PollResolves \/ PollTimesOut)
    /\ WF_vars(HandleReconciled)

FairSpec == Spec /\ Fairness

-----------------------------------------------------------------------------
(* Properties. *)

OrderIds == 1..Len(x.orders)
TradeType ==
    [uid : Uids, st : States, entry : OrderIds \cup {0}, stop : OrderIds \cup {0},
     tp1 : OrderIds \cup {0}, exec : Nat, fix : BOOLEAN, tp1_filled : BOOLEAN,
     old : BOOLEAN]

TypeOK ==
    /\ \A tk \in Tickers : \A i \in DOMAIN trades[tk] :
          trades[tk][i] \in TradeType /\ Plans[trades[tk][i].uid].ticker = tk
    /\ DOMAIN inflight \subseteq submitted
    /\ submitted \subseteq Uids
    /\ reserved \in Nat
    /\ \A i \in DOMAIN x.orders : x.orders[i].filled \in 0..x.orders[i].size
    /\ \A k \in DOMAIN x.ws : x.ws[k].id \in OrderIds
    /\ x.faults \in 0..MaxFaults

\* The ActiveTrades of trades_, as a set: a uid occurs at most once.
All == {At(p) : p \in {q \in Places : q[2] \in DOMAIN trades[q[1]]}}
Records(u) == journal[u] + Times(u, closed)

\* Nothing is on its way between the executor and the exchange.
Quiet ==
    /\ x.ws = <<>> /\ acts = <<>>
    /\ DOMAIN inflight = {}
    /\ unknown = None /\ result = None

\* A Closed trade is never revived, whatever late update, reconciliation,
\* close or cancel arrives: it stays as it is until pop_closed_trades drops
\* it, and it never comes back.
ClosedIsFinal ==
    [][\A u \in submitted \ DOMAIN inflight :
          LET mine == {t \in All : t.uid = u}
          IN  (\A t \in mine : t.st = "Closed") => {t \in All' : t.uid = u} \subseteq mine]_vars

\* A ClosedTrade moves equity and the loss streak, so a trade is recorded once:
\* never twice, an exit fill, an emergency close of tick, close_trade and a
\* reconciliation timeout excluding each other in whatever order the threads
\* run, and not never: a Closed trade that had executed something has been.
\* Trades that cancel_all swept and trades one of whose market closes threw may
\* be recorded again: the code does that.
RecordedOnce ==
    /\ \A u \in Uids \ (swept \cup badClose) : Records(u) <= 1
    /\ \A t \in All : t.st = "Closed" /\ t.exec > 0 => Records(t.uid) >= 1

\* Two trades never claim the same entry order, although an order is first
\* recognised by side, type and size only.
EntryIdUnique ==
    \A t, v \in All :
        t.uid # v.uid /\ t.st # "Closed" /\ v.st # "Closed" /\ t.entry # 0 => t.entry # v.entry

\* Once everything has been delivered, executed_size is what the exchange
\* filled of the claimed entry order, also for a cancel that came too late.
FillsKnown ==
    Quiet => \A t \in All : t.st \notin {"Closed", "EmergencyClosing"} /\ t.entry # 0
                               => t.exec = x.orders[t.entry].filled

\* Once everything has been delivered, the exchange holds no more than the
\* trades the executor still manages account for.
TrackedExposure ==
    Quiet => \A tk \in Tickers, side \in {"Buy", "Sell"} :
                Exposure(x.orders, tk, side) <=
                   MapThenSumSet(LAMBDA t : t.exec,
                      {t \in All : /\ t.st # "Closed" /\ Plans[t.uid].ticker = tk
                                   /\ Plans[t.uid].side = side})

\* A live stop of the trade covers what is left of its position.
HasLiveStop(t) ==
    \E i \in DOMAIN x.orders : LET o == x.orders[i] IN
        /\ o.live /\ o.role \in {"stop", "be"} /\ o.by = t.uid
        /\ o.size >= Least(t.exec, Exposure(x.orders, Plans[t.uid].ticker, Plans[t.uid].side))

\* Once everything has been delivered, an open position has a stop on the
\* exchange, or tick sees that it has none and will re-arm it.
Protected ==
    Quiet => \A t \in All : t.st = "Open" /\ t.exec > 0 /\
                Exposure(x.orders, Plans[t.uid].ticker, Plans[t.uid].side) > 0
                   => HasLiveStop(t) \/ t.stop = 0

\* What is reserved covers every order whose POST is in flight.
ReservationCovers ==
    reserved >= MapThenSumSet(LAMBDA u : Reservation(u), DOMAIN inflight)

\* A trade with a fill is eventually protected by a stop on the exchange, or
\* no longer open, also when the gateway refused to place the stop.
FilledGetsProtected ==
    \A u \in Uids :
        (\E t \in All : t.uid = u /\ t.st = "Open" /\ t.exec > 0)
          ~> (\E t \in All : t.uid = u /\ (t.st # "Open" \/ HasLiveStop(t)))

InState(u, st) == \E t \in All : t.uid = u /\ t.st = st

\* A trade whose POST was ambiguous does not stay SubmitUnknown.
UnknownSettled ==
    \A u \in Uids : InState(u, "SubmitUnknown") ~> ~InState(u, "SubmitUnknown")


=============================================================================
