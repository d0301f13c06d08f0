------------------------- MODULE OrderReconciliator -------------------------
(***************************************************************************)
(* core/src/trading/OrderReconciliator.{hpp,cpp}.                          *)
(*                                                                         *)
(* A place_order whose HTTP call failed may or may not have reached the    *)
(* exchange.  The reconciliator keeps such an intent, polls the open       *)
(* orders of its ticker with exponential backoff and reports Resolved when *)
(* an order matches, NotFoundTimeout once total_timeout has passed.        *)
(*                                                                         *)
(* poll_open_orders holds mtx_ twice and releases it around the HTTP call: *)
(* its three parts are three actions here, and enter_submit_unknown and    *)
(* resolve_order, which other threads call, run between them.  A price and *)
(* size equal within the tolerances of matches_intent_, with the side and  *)
(* the type, is one member of Shapes.                                      *)
(***************************************************************************)
EXTENDS Integers, FiniteSets

CONSTANTS
    LocalIds,        \* the local_order_id values callers use
    Tickers,
    Shapes,          \* (side, type, price, size) up to the matching tolerances
    ServerIds,       \* ids the exchange may give to an order
    InitialBackoff, MaxBackoff, TotalTimeout,   \* Config, in clock units
    LastEnter,       \* bound: no intent is registered after this time
    Horizon          \* bound: the clock stops here

ASSUME ConfigAssumption ==
    /\ InitialBackoff \in Nat \ {0}
    /\ MaxBackoff \in Nat
    /\ InitialBackoff <= MaxBackoff
    /\ TotalTimeout \in Nat
    /\ LastEnter \in Nat
    /\ Horizon \in Nat

VARIABLES
    now,         \* the clock callers read
    pending,     \* pending_: local id -> PendingIntent
    by_ticker,   \* by_ticker_: ticker -> set of local ids; no empty sets
    server,      \* the open orders of the exchange (outside src/)
    poll,        \* the poll_open_orders call in progress
    results      \* the terminal ReconcileResults of the last poll (what it returned)

vars == <<now, pending, by_ticker, server, poll, results>>

Intents == [ticker : Tickers, shape : Shapes]
PendingIntent ==
    [intent : Intents, started_at : Nat, next_poll_at : Nat, current_backoff : Nat]
ServerOrder == [id : ServerIds, ticker : Tickers, shape : Shapes]

Idle == [at |-> "idle"]
Fetching == [at : {"fetch"}, ticker : Tickers, now : Nat, due : SUBSET LocalIds]
Applying == [at : {"apply"}, ticker : Tickers, now : Nat, due : SUBSET LocalIds,
             failed : BOOLEAN, orders : SUBSET ServerOrder]

Results ==
    [local : LocalIds, intent : Intents, outcome : {"Resolved", "NotFoundTimeout"},
     age : Int, seen : SUBSET ServerOrder]

Init ==
    /\ now = 0
    /\ pending = [i \in {} |-> 0]
    /\ by_ticker = [t \in {} |-> {}]
    /\ server = {}
    /\ poll = Idle
    /\ results = {}

-----------------------------------------------------------------------------

(* A function without some points of its domain: btree_map::erase. *)
Without(f, S) == [x \in DOMAIN f \ S |-> f[x]]

\* Mutant: a ticker's set is left behind when its last id is erased.
UnindexKeepingEmpty(gone) ==
    [t \in DOMAIN by_ticker |-> by_ticker[t] \ {i \in gone : pending[i].intent.ticker = t}]

(* by_ticker_ after the ids of gone are erased from pending_: each is taken
   out of the set of its own ticker, and a set left empty is erased. *)
Unindex(gone) ==
    LET left(t) == by_ticker[t] \ {i \in gone : pending[i].intent.ticker = t}
    IN  [t \in {u \in DOMAIN by_ticker : left(u) # {}} |-> left(t)]

\* enter_submit_unknown: an id already tracked is refused.
EnterSubmitUnknown(id, intent) ==
    /\ now <= LastEnter
    /\ id \notin DOMAIN pending
    /\ pending' = [i \in DOMAIN pending \cup {id} |->
                     IF i = id THEN [intent |-> intent, started_at |-> now,
                                     next_poll_at |-> now,
                                     current_backoff |-> InitialBackoff]
                               ELSE pending[i]]
    /\ by_ticker' = [t \in DOMAIN by_ticker \cup {intent.ticker} |->
                       (IF t \in DOMAIN by_ticker THEN by_ticker[t] ELSE {})
                       \cup (IF t = intent.ticker THEN {id} ELSE {})]
    /\ UNCHANGED <<now, server, poll, results>>

\* resolve_order: the manual path; a caller already knows the server order.
ResolveOrder(id) ==
    /\ id \in DOMAIN pending
    /\ pending' = Without(pending, {id})
    /\ by_ticker' = Unindex({id})
    /\ UNCHANGED <<now, server, poll, results>>

HasPending(t) == t \in DOMAIN by_ticker /\ by_ticker[t] # {}

\* poll_open_orders, first critical section: which intents are due at the
\* caller's time.  With none due the call returns and changes nothing.
Due(t) ==
    {i \in by_ticker[t] \cap DOMAIN pending :
        ~ (/\ now < pending[i].next_poll_at
           /\ now - pending[i].started_at < TotalTimeout)}

PollBegin(t) ==
    /\ poll = Idle
    /\ HasPending(t)
    /\ Due(t) # {}
    /\ poll' = [at |-> "fetch", ticker |-> t, now |-> now, due |-> Due(t)]
    /\ results' = {}
    /\ UNCHANGED <<now, pending, by_ticker, server>>

\* The HTTP call, outside the lock: the open orders of the ticker as the
\* exchange has them at this moment, or an exception.
PollFetch(failed) ==
    /\ poll.at = "fetch"
    /\ poll' = [at |-> "apply", ticker |-> poll.ticker, now |-> poll.now,
                due |-> poll.due, failed |-> failed,
                orders |-> IF failed THEN {}
                           ELSE {o \in server : o.ticker = poll.ticker}]
    /\ UNCHANGED <<now, pending, by_ticker, server, results>>

\* matches_intent_
Matches(intent, o) == o.ticker = intent.ticker /\ o.shape = intent.shape

NextBackoff(b) == IF 2 * b <= MaxBackoff THEN 2 * b ELSE MaxBackoff

\* What a fruitless poll at time t makes of a pending intent.
Postponed(p, t) ==
    [p EXCEPT !.current_backoff = NextBackoff(p.current_backoff),
              !.next_poll_at = t + NextBackoff(p.current_backoff)]

\* Mutants: the deadline one unit early; the deadline from the last poll.
TimedOutEarly(p, t) == t - p.started_at >= TotalTimeout - 1
TimedOutSincePoll(p, t) == t - p.next_poll_at >= TotalTimeout

TimedOut(p, t) == t - p.started_at >= TotalTimeout

\* The ids the running poll looks at: those that were due and are still
\* tracked, unless the ticker has lost all of its ids.
Polled ==
    IF poll.ticker \in DOMAIN by_ticker THEN poll.due \cap DOMAIN pending ELSE {}

\* poll_open_orders, last critical section, for the fetched orders and for
\* the failed fetch: both time out the old intents and push the others back;
\* only a good fetch can match.
PollApply ==
    /\ poll.at = "apply"
    /\ LET matched == {i \in Polled : \E o \in poll.orders : Matches(pending[i].intent, o)}
           late    == {i \in Polled \ matched : TimedOut(pending[i], poll.now)}
           gone    == matched \cup late
       IN  /\ pending' =
                [i \in DOMAIN pending \ gone |->
                   IF i \in Polled THEN Postponed(pending[i], poll.now) ELSE pending[i]]
           /\ by_ticker' = Unindex(gone)
           /\ results' =
                {[local |-> i, intent |-> pending[i].intent,
                  outcome |-> IF i \in matched THEN "Resolved" ELSE "NotFoundTimeout",
                  age |-> now - pending[i].started_at,
                  seen |-> poll.orders] : i \in gone}
    /\ poll' = Idle
    /\ UNCHANGED <<now, server>>

-----------------------------------------------------------------------------
(* The environment: the clock and the exchange. *)

Tick ==
    /\ now < Horizon
    /\ now' = now + 1
    /\ UNCHANGED <<pending, by_ticker, server, poll, results>>

\* An ambiguous POST turns up among the open orders.
ServerAccepts(o) ==
    /\ \A p \in server : p.id # o.id
    /\ server' = server \cup {o}
    /\ UNCHANGED <<now, pending, by_ticker, poll, results>>

\* An order fills or is cancelled and leaves the open orders.
ServerDrops(o) ==
    /\ o \in server
    /\ server' = server \ {o}
    /\ UNCHANGED <<now, pending, by_ticker, poll, results>>

Next ==
    \/ \E id \in LocalIds, intent \in Intents : EnterSubmitUnknown(id, intent)
    \/ \E id \in LocalIds : ResolveOrder(id)
    \/ \E t \in Tickers : PollBegin(t)
    \/ \E failed \in BOOLEAN : PollFetch(failed)
    \/ PollApply
    \/ Tick
    \/ \E o \in ServerOrder : ServerAccepts(o) \/ ServerDrops(o)

(* LiveExecutor::tick polls every ticker with pending intents on a periodic
   timer, the HTTP client has a timeout, and time passes. *)
Fairness ==
    /\ \A t \in Tickers : SF_vars(PollBegin(t))
    /\ WF_vars(\E failed \in BOOLEAN : PollFetch(failed))
    /\ WF_vars(PollApply)
    /\ WF_vars(Tick)

Spec == Init /\ [][Next]_vars
FairSpec == Spec /\ Fairness

-----------------------------------------------------------------------------

TypeOK ==
    /\ now \in Nat
    /\ DOMAIN pending \subseteq LocalIds
    /\ pending \in [DOMAIN pending -> PendingIntent]
    /\ DOMAIN by_ticker \subseteq Tickers
    /\ by_ticker \in [DOMAIN by_ticker -> SUBSET LocalIds]
    /\ server \subseteq ServerOrder
    /\ poll \in {Idle} \cup Fetching \cup Applying
    /\ results \subseteq Results

\* pending_ and by_ticker_ are two maps that four methods update by hand.
\* They agree: every tracked intent is indexed under its own ticker and
\* nowhere else, the index names no forgotten id, and no empty set is left
\* behind (has_pending would keep the ticker out of the re-arm branch of
\* LiveExecutor::tick).
IndexConsistent ==
    /\ \A i \in DOMAIN pending :
          /\ pending[i].intent.ticker \in DOMAIN by_ticker
          /\ i \in by_ticker[pending[i].intent.ticker]
    /\ \A t \in DOMAIN by_ticker :
          /\ by_ticker[t] # {}
          /\ \A i \in by_ticker[t] : i \in DOMAIN pending /\ pending[i].intent.ticker = t

\* A NotFoundTimeout, on which the executor closes the trade, is reported
\* only for an intent that has really waited total_timeout, also when the id
\* was resolved and registered again while the fetch was in flight.
NoEarlyTimeout ==
    \A r \in results : r.outcome = "NotFoundTimeout" => r.age >= TotalTimeout

\* Resolved is reported only from an open order of the intent's own ticker
\* and shape that the exchange returned to this very poll.
ResolvedFromServer ==
    \A r \in results :
        r.outcome = "Resolved" =>
           \E o \in r.seen : o.ticker = r.intent.ticker /\ o.shape = r.intent.shape

\* The backoff never exceeds max_backoff, and the next poll is never pushed
\* further than that beyond the present: a match is looked for again.
BackoffBounded ==
    \A i \in DOMAIN pending :
        /\ pending[i].current_backoff \in InitialBackoff..MaxBackoff
        /\ pending[i].next_poll_at <= now + MaxBackoff

\* A poll reports no intent that registered after it began and does not
\* disturb it: what enters during the HTTP call of another id's poll keeps
\* its first, immediate poll.
LateEntryUntouched ==
    [][\A i \in DOMAIN pending :
          (poll.at = "apply" /\ poll' = Idle /\ i \notin poll.due)
             => (i \in DOMAIN pending' /\ pending'[i] = pending[i])]_vars

\* Every ambiguous submit is settled: no intent is tracked forever.
EveryIntentSettled ==
    \A i \in LocalIds : (i \in DOMAIN pending) ~> (i \notin DOMAIN pending)

=============================================================================
