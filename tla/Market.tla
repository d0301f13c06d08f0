------------------------------- MODULE Market -------------------------------
(* The market data path: the websocket client (BeastWsClient), the           *)
(* subscriptions and snapshots of MarketDataFeed, the queue and the thread   *)
(* of PipelineProcessor, the order book, and the part of the affinity        *)
(* handler that creates and destroys a ticker's controller.                  *)
(*                                                                           *)
(* Three threads run: the main thread, which also runs the handlers of the  *)
(* websocket client (one strand serialises them) and blocks them while it    *)
(* fetches a snapshot; the processor thread; and the dashboard thread, whose *)
(* overrides enable and disable tickers while handlers run.  The exchange is *)
(* the environment; it sends a snapshot for every subscription to an order   *)
(* book and, from then on, one update per change of that book.               *)
(*                                                                           *)
(* A book is the set of prices with a bid and the set of prices with an ask. *)
(* The four subscriptions of a ticker travel as one message.                 *)
EXTENDS Integers, FiniteSets, SequencesExt

CONSTANTS Tickers,       \* tickers the universe may enable
          Prices,        \* price ticks of a book, integers
          Flat,          \* BOOLEAN: updates carry Ticker and Updates at top level
          Oversize,      \* BOOLEAN values an update's "longer than kMaxPayload" takes
          MaxQueue,      \* m_max_queue_size of the websocket client
          QueueCap,      \* spsc_queue_capacity of the processor
          WireCap,       \* bound: messages on their way from the exchange
          MaxChanges,    \* bound: changes of the exchange's books
          MaxFaults,     \* bound: failed resolves, connects, reads, writes, pings
          MaxSwitches,   \* bound: controllers created
          MaxEvents      \* bound: changes, faults and controllers together

ASSUME MarketAssumption ==
    /\ Prices \subseteq Int /\ IsFiniteSet(Prices) /\ Flat \in BOOLEAN /\ Oversize \subseteq BOOLEAN
    /\ {MaxQueue, QueueCap, WireCap, MaxChanges, MaxFaults, MaxSwitches, MaxEvents}
         \subseteq Nat \ {0}

VARIABLES
    market, changes, subs, account, wire,                       \* the exchange
    stream, connected, timer, resolving, reading, writeQ, writeMsg, faults,
    dropped,    \* history: the full queue of the client dropped a message
    wanted, resub,                                              \* the feed
    ctrl, proc, procQ, running, book,                           \* controllers, processor
    main, switches,                                             \* affinity handler, resync
    lost    \* history: what the book of a ticker misses, see Causes

exchange == <<market, changes, subs, account, wire>>
sending  == <<writeQ, writeMsg, dropped>>
link     == <<stream, connected, timer, resolving, reading, faults, sending>>
feed     == <<wanted, resub>>
pipeline == <<proc, procQ, running>>
thread   == <<main, switches>>
vars     == <<exchange, link, feed, ctrl, pipeline, book, thread, lost>>

Books == {b \in [bid : SUBSET Prices, ask : SUBSET Prices] :
            \A p \in b.bid, q \in b.ask : p < q}
\* The environment may do one more thing.
Room == changes + faults + switches < MaxEvents

EmptyBook == [bid |-> {}, ask |-> {}]

\* Why a book may differ from the exchange's: an update was lost with the
\* connection or to the full queue, was too long for the raw path, was not
\* understood or found no registered ticker; it was not sent, the ticker being
\* between two subscriptions; or the book has had no snapshot yet.
Causes == {"link", "overflow", "size", "form", "unregistered", "unsent", "unseeded"}

Account  == [kind |-> "subscribe"]
Gone     == [kind |-> "moved_from"]
NoMsg    == [kind |-> "none"]
Sub(t)   == [kind |-> "ticker_subscribe", ticker |-> t]
Unsub(t) == [kind |-> "ticker_unsubscribe", ticker |-> t]
Ask(t)   == [kind |-> "orderbook_subscribe", ticker |-> t]

Idle          == [op |-> "idle"]
Task(o, t)    == [op |-> o, ticker |-> t]
Fetched(t)    == [op |-> "rest", ticker |-> t, book |-> market[t]]
Snapshot(t)   == [kind |-> "snapshot", ticker |-> t, book |-> market[t]]
Update(t, cs, long) ==
    [kind |-> "update", ticker |-> t, changes |-> cs, long |-> long]

For(t, q) == {i \in DOMAIN q : q[i].ticker = t}

-----------------------------------------------------------------------------
(* The order book. *)

\* As ApplyChange, but leaving the other side as it is.
SetLevel(b, c) == [b EXCEPT ![c.side] = IF c.on THEN @ \union {c.price} ELSE @ \ {c.price}]

\* A new level removes the levels of the other side it crosses.
ApplyChange(b, c) ==
    CASE c.on /\ c.side = "bid" ->
            [bid |-> b.bid \union {c.price}, ask |-> {q \in b.ask : q > c.price}]
      [] c.on /\ c.side = "ask" ->
            [bid |-> {p \in b.bid : p < c.price}, ask |-> b.ask \union {c.price}]
      [] OTHER -> [b EXCEPT ![c.side] = @ \ {c.price}]

ApplyUpdate(b, u) == FoldLeft(ApplyChange, b, u.changes)

\* As ApplySnapshot, but keeping what was there.
MergeSnapshot(b, s) == [bid |-> b.bid \union s.book.bid, ask |-> b.ask \union s.book.ask]

\* A snapshot replaces both sides.
ApplySnapshot(b, s) == s.book

\* The changes that turn book a into book b.
Diff(a, b) ==
    UNION {{[side |-> s, price |-> p, on |-> p \in b[s]] :
              p \in (a[s] \ b[s]) \union (b[s] \ a[s])} : s \in {"bid", "ask"}}

-----------------------------------------------------------------------------
(* The websocket client. *)

\* A full queue drops its oldest message, the one being written included.
Push(q, m) == IF Len(q) >= MaxQueue THEN Append(Tail(q), m) ELSE Append(q, m)
Drops(q)   == dropped' = (dropped \/ Len(q) >= MaxQueue)

\* send and the lambda it posts: the message is queued; the write starts at
\* once when nothing was queued and the connection is up.  The message being
\* written stays at the front of the queue, moved from, until its completion.
Send(m) ==
    IF stream # "none" /\ writeQ = <<>> /\ connected
    THEN writeQ' = <<Gone>> /\ writeMsg' = m /\ UNCHANGED dropped
    ELSE writeQ' = Push(writeQ, m) /\ Drops(writeQ) /\ UNCHANGED writeMsg

\* do_write on the queue q.
StartWrite(q) ==
    IF q = <<>> THEN writeQ' = q /\ writeMsg' = NoMsg
    ELSE writeQ' = [q EXCEPT ![1] = Gone] /\ writeMsg' = Head(q)

\* The handlers of the client wait for a fetch under way on their thread.
IoFree == resub = {} /\ main.op # "rest"
Fault  == Room /\ faults < MaxFaults /\ faults' = faults + 1

\* The session of the broken stream is over at the exchange.
SessionOver ==
    /\ subs' = {} /\ account' = FALSE /\ wire' = <<>>
    /\ lost' = [t \in Tickers |-> IF t \in ctrl THEN lost[t] \union {"link"} ELSE lost[t]]
    /\ UNCHANGED <<market, changes>>

\* The reconnect timer expires: connect resolves the host again.
TimerFires ==
    /\ IoFree /\ timer /\ ~resolving
    /\ timer' = FALSE /\ resolving' = TRUE
    /\ UNCHANGED <<exchange, stream, connected, reading, sending, faults,
                   feed, ctrl, pipeline, book, thread, lost>>

\* on_resolve with an error schedules a reconnect.
ResolveFails ==
    /\ IoFree /\ resolving /\ Fault
    /\ resolving' = FALSE /\ timer' = TRUE
    /\ UNCHANGED <<exchange, stream, connected, reading, sending,
                   feed, ctrl, pipeline, book, thread, lost>>

\* on_resolve replaces the stream.  What was outstanding on the old one ends
\* with operation_aborted, and its handlers treat that as a lost connection.
ResolveOk ==
    /\ IoFree /\ resolving
    /\ resolving' = FALSE /\ stream' = "opening"
    /\ timer' = (timer \/ reading \/ writeMsg # NoMsg \/ stream = "opening")
    /\ connected' = (connected /\ ~reading /\ writeMsg = NoMsg)
    /\ reading' = FALSE /\ writeMsg' = NoMsg
    /\ SessionOver
    /\ UNCHANGED <<writeQ, dropped, faults, feed, ctrl, pipeline, book, thread>>

\* on_connect, on_ssl_handshake or on_handshake with an error.
OpenFails ==
    /\ IoFree /\ stream = "opening" /\ Fault
    /\ stream' = "broken" /\ timer' = TRUE
    /\ UNCHANGED <<exchange, connected, resolving, reading, sending,
                   feed, ctrl, pipeline, book, thread, lost>>

OnlyAccount == {}

\* The tickers resubscribe_all copies.
ToResubscribe == wanted

\* on_handshake: resubscribe_all sends the subscription of the account and
\* copies the set of tickers to subscribe; reading and writing start.
OpenOk ==
    /\ IoFree /\ stream = "opening"
    /\ stream' = "open" /\ connected' = TRUE /\ reading' = TRUE
    /\ resub' = ToResubscribe
    /\ StartWrite(Push(writeQ, Account)) /\ Drops(writeQ)
    /\ UNCHANGED <<exchange, timer, resolving, faults, wanted, ctrl, pipeline, book,
                   thread, lost>>

\* resubscribe_all, the next ticker of its copy.
ResubscribeNext(t) ==
    /\ t \in resub
    /\ resub' = resub \ {t}
    /\ Send(Sub(t))
    /\ UNCHANGED <<exchange, stream, connected, timer, resolving, reading, faults,
                   wanted, ctrl, pipeline, book, thread, lost>>

\* on_read with an error.
ReadFails ==
    /\ IoFree /\ stream = "open" /\ reading /\ Fault
    /\ reading' = FALSE /\ connected' = FALSE /\ timer' = TRUE
    /\ SessionOver
    /\ UNCHANGED <<stream, resolving, sending, feed, ctrl, pipeline, book,
                   thread>>

\* on_ping with an error; reads go on.
PingFails ==
    /\ IoFree /\ stream = "open" /\ connected /\ Fault
    /\ connected' = FALSE /\ timer' = TRUE
    /\ UNCHANGED <<exchange, stream, resolving, reading, sending, feed, ctrl,
                   pipeline, book, thread, lost>>

\* on_write with an error: the message is lost, its empty shell stays queued.
WriteFails ==
    /\ IoFree /\ stream = "open" /\ writeMsg # NoMsg /\ Fault
    /\ writeMsg' = NoMsg /\ connected' = FALSE /\ timer' = TRUE
    /\ UNCHANGED <<exchange, stream, resolving, reading, writeQ, dropped, feed, ctrl,
                   pipeline, book, thread, lost>>

\* What the exchange does with a message of a live session.
Serve(m) ==
    /\ account' = (account \/ m = Account)
    /\ subs' = CASE m.kind \in {"ticker_subscribe", "orderbook_subscribe"} ->
                        subs \union {m.ticker}
                 [] m.kind = "ticker_unsubscribe" -> subs \ {m.ticker}
                 [] OTHER -> subs
    /\ wire' = IF m.kind \in {"ticker_subscribe", "orderbook_subscribe"}
               THEN Append(wire, Snapshot(m.ticker)) ELSE wire
    /\ UNCHANGED <<market, changes>>

\* on_write: the message is popped, the next one is written.
WriteOk ==
    /\ IoFree /\ stream = "open" /\ writeMsg # NoMsg
    /\ Len(wire) < WireCap
    /\ IF reading THEN Serve(writeMsg) ELSE UNCHANGED exchange
    /\ StartWrite(Tail(writeQ))
    /\ UNCHANGED <<stream, connected, timer, resolving, reading, faults, dropped, feed,
                   ctrl, pipeline, book, thread, lost>>

-----------------------------------------------------------------------------
(* Snapshots and updates. *)

\* A snapshot makes up for what was lost, unless messages that may be older
\* than the loss, or than the snapshot, are still on their way in the queue q.
Healed(t, q) == IF For(t, q) \union For(t, procQ) = {} THEN {} ELSE lost[t]

Deliver(t, s, q) ==
    /\ book' = [book EXCEPT ![t] = ApplySnapshot(@, s)]
    /\ lost' = [lost EXCEPT ![t] = Healed(t, q)]

\* on_read of an orderbook_snapshot: the feed calls the ticker's listener.
ReadSnapshot ==
    /\ IoFree /\ reading /\ wire # <<>> /\ Head(wire).kind = "snapshot"
    /\ wire' = Tail(wire)
    /\ LET s == Head(wire) IN
         IF s.ticker \in wanted THEN Deliver(s.ticker, s, wire') ELSE UNCHANGED <<book, lost>>
    /\ UNCHANGED <<market, changes, subs, account, link, feed, ctrl, pipeline, thread>>

Full(q) == Len(q) >= QueueCap

\* on_read of an orderbook_update: the raw path queues it for the processor,
\* unless it is too long or the queue is full.  The feed, which reads Data,
\* applies it itself until the processor runs.
ReadUpdate ==
    /\ IoFree /\ reading /\ wire # <<>> /\ Head(wire).kind = "update"
    /\ wire' = Tail(wire)
    /\ LET u      == Head(wire)
           t      == u.ticker
           direct == ~running /\ ~Flat /\ t \in wanted
           why    == IF u.long THEN (IF direct THEN {} ELSE {"size"})
                     ELSE IF Full(procQ) THEN {"overflow"} ELSE {}
       IN /\ procQ' = IF u.long \/ Full(procQ) THEN procQ
                      ELSE Append(procQ, [ticker |-> t, changes |-> u.changes,
                                          direct |-> direct])
          /\ book' = IF direct THEN [book EXCEPT ![t] = ApplyUpdate(@, u)] ELSE book
          /\ lost' = IF t \in ctrl THEN [lost EXCEPT ![t] = @ \union why] ELSE lost
    /\ UNCHANGED <<market, changes, subs, account, link, feed, ctrl, proc, running,
                   thread>>

\* process_event_: only a ticker at top level is found; one that is not
\* registered is skipped.  An entry that outlived its controller points to
\* freed memory: the access goes unnoticed in the runs that go on.
ProcessUpdate ==
    /\ running /\ procQ # <<>>
    /\ procQ' = Tail(procQ)
    /\ LET u == Head(procQ)
           t == u.ticker
       IN /\ book' = IF Flat /\ proc[t] = "live"
                     THEN [book EXCEPT ![t] = ApplyUpdate(@, u)] ELSE book
          /\ lost' = CASE t \notin ctrl \/ u.direct -> lost
                       [] ~Flat -> [lost EXCEPT ![t] = @ \union {"form"}]
                       [] Flat /\ proc[t] # "live" ->
                            [lost EXCEPT ![t] = @ \union {"unregistered"}]
                       [] OTHER -> lost
    /\ UNCHANGED <<exchange, link, feed, ctrl, proc, running, thread>>

\* start_processor: the feed leaves the hot path to the processor.
StartProcessor ==
    /\ ~running /\ running' = TRUE
    /\ UNCHANGED <<exchange, link, feed, ctrl, proc, procQ, book, thread, lost>>

-----------------------------------------------------------------------------
(* The affinity handler, on the dashboard or the main thread, and the resync *)
(* of the main thread.  (One at a time: the code has no lock for controllers_, *)
(* and a ticker enabled or disabled under a resync breaks its iteration.)     *)

\* The affinity handler enables the first strategy of a ticker: the controller
\* is created, listens, and is in the set of subscribed tickers; then ...
Enable(t) ==
    /\ main = Idle /\ t \notin ctrl /\ switches < MaxSwitches /\ Room
    /\ switches' = switches + 1
    /\ ctrl' = ctrl \union {t} /\ wanted' = wanted \union {t}
    /\ book' = [book EXCEPT ![t] = EmptyBook]
    /\ lost' = [lost EXCEPT ![t] = {"unseeded"}]
    /\ main' = Task("subscribe", t)
    /\ UNCHANGED <<exchange, link, resub, pipeline>>

\* ... its subscriptions are sent, and ...
SendSubscribe ==
    /\ main.op = "subscribe"
    /\ Send(Sub(main.ticker))
    /\ main' = Task("register", main.ticker)
    /\ UNCHANGED <<exchange, stream, connected, timer, resolving, reading, faults, feed,
                   ctrl, pipeline, book, switches, lost>>

\* ... the processor is told of it.
Register ==
    /\ main.op = "register"
    /\ proc' = [proc EXCEPT ![main.ticker] = "live"]
    /\ main' = Idle
    /\ UNCHANGED <<exchange, link, feed, ctrl, procQ, running, book, switches, lost>>

\* The last strategy of an idle ticker is disabled: the controller stops
\* listening and leaves the subscribed tickers; then ...
Disable(t) ==
    /\ main = Idle /\ t \in ctrl
    /\ wanted' = wanted \ {t}
    /\ main' = Task("unsubscribe", t)
    /\ UNCHANGED <<exchange, link, resub, ctrl, pipeline, book, switches, lost>>

\* ... it is unsubscribed and destroyed.  The processor is not told.
SendUnsubscribe ==
    /\ main.op = "unsubscribe"
    /\ Send(Unsub(main.ticker))
    /\ ctrl' = ctrl \ {main.ticker}
    /\ proc' = [proc EXCEPT ![main.ticker] = "stale"]
    /\ main' = Idle
    /\ UNCHANGED <<exchange, stream, connected, timer, resolving, reading, faults, feed,
                   procQ, running, book, switches, lost>>

\* The resync of every 30 s: a REST snapshot is fetched and then applied.
FetchSnapshot(t) ==
    /\ main = Idle /\ t \in ctrl
    /\ main' = Fetched(t)
    /\ UNCHANGED <<exchange, link, feed, ctrl, pipeline, book, switches, lost>>

DeliverFetched ==
    /\ main.op = "rest"
    /\ Deliver(main.ticker, main, wire)
    /\ main' = Idle
    /\ UNCHANGED <<exchange, link, feed, ctrl, pipeline, switches>>

\* The fetch fails, or the exchange has none: the book is subscribed again.
\* Assumption: the last resync was answered when the next begins.
FetchFails(t) ==
    /\ main = Idle /\ t \in ctrl
    /\ Ask(t) \notin ToSet(writeQ) \union {writeMsg}
    /\ For(t, SelectSeq(wire, LAMBDA m : m.kind = "snapshot")) = {}
    /\ Send(Ask(t))
    /\ UNCHANGED <<exchange, stream, connected, timer, resolving, reading, faults, feed,
                   ctrl, pipeline, book, thread, lost>>

-----------------------------------------------------------------------------
(* The exchange. *)

\* A book changes by a level or two, and a subscriber gets the changes; a long
\* message is one with two.  Without a subscription nothing is sent.
MarketMoves(t) ==
    /\ changes < MaxChanges /\ changes' = changes + 1
    /\ Room /\ Len(wire) < WireCap
    /\ \E b \in Books, long \in Oversize :
         /\ Cardinality(Diff(market[t], b)) \in (IF long THEN {2} ELSE 1..2)
         /\ market' = [market EXCEPT ![t] = b]
         /\ IF t \in subs
            THEN \E cs \in SetToAllKPermutations(Diff(market[t], b)) :
                   /\ Len(cs) = Cardinality(Diff(market[t], b))
                   /\ wire' = Append(wire, Update(t, cs, long))
            ELSE wire' = wire
    /\ lost' = IF t \in ctrl \ subs THEN [lost EXCEPT ![t] = @ \union {"unsent"}] ELSE lost
    /\ UNCHANGED <<subs, account, link, feed, ctrl, pipeline, book, thread>>

-----------------------------------------------------------------------------
\* The feed has started and the client is connecting.
Starting ==
    /\ market = [t \in Tickers |-> EmptyBook]
    /\ subs = {} /\ account = FALSE
    /\ stream = "none" /\ connected = FALSE /\ resolving = TRUE /\ reading = FALSE
    /\ writeQ = <<Account>>
    /\ wanted = {} /\ ctrl = {} /\ proc = [t \in Tickers |-> "none"] /\ running = FALSE

\* Every ticker has been enabled and its book, which has both sides, is seeded.
Trading ==
    /\ market \in [Tickers -> {b \in Books : b.bid # {} /\ b.ask # {}}]
    /\ subs = Tickers /\ account = TRUE
    /\ stream = "open" /\ connected = TRUE /\ resolving = FALSE /\ reading = TRUE
    /\ writeQ = <<>>
    /\ wanted = Tickers /\ ctrl = Tickers /\ proc = [t \in Tickers |-> "live"]
    /\ running = TRUE

Init ==
    /\ Starting \/ Trading
    /\ changes = 0 /\ wire = <<>>
    /\ timer = FALSE /\ writeMsg = NoMsg /\ dropped = FALSE /\ faults = 0 /\ resub = {}
    /\ procQ = <<>> /\ book = market
    /\ main = Idle /\ switches = 0
    /\ lost = [t \in Tickers |-> {}]

Io == \/ TimerFires \/ ResolveFails \/ ResolveOk \/ OpenFails \/ OpenOk
      \/ ReadFails \/ PingFails \/ WriteFails \/ WriteOk \/ ReadSnapshot \/ ReadUpdate
      \/ \E t \in Tickers : ResubscribeNext(t)

Main == \/ SendSubscribe \/ Register \/ SendUnsubscribe \/ DeliverFetched
        \/ \E t \in Tickers : Enable(t) \/ Disable(t) \/ FetchSnapshot(t) \/ FetchFails(t)

Next == Io \/ Main \/ ProcessUpdate \/ StartProcessor \/ \E t \in Tickers : MarketMoves(t)

Spec == Init /\ [][Next]_vars

-----------------------------------------------------------------------------
\* The state has its shape, the queues keep their bounds, and no book is ever
\* crossed, whatever was lost or applied twice.
TypeOK ==
    /\ market \in [Tickers -> Books] /\ changes \in 0..MaxChanges
    /\ subs \subseteq Tickers /\ account \in BOOLEAN /\ Len(wire) <= WireCap
    /\ stream \in {"none", "opening", "open", "broken"}
    /\ {connected, timer, resolving, reading, dropped, running} \subseteq BOOLEAN
    /\ Len(writeQ) <= MaxQueue /\ Len(procQ) <= QueueCap
    /\ wanted \subseteq Tickers /\ resub \subseteq Tickers /\ ctrl \subseteq Tickers
    /\ proc \in [Tickers -> {"none", "live", "stale"}]
    /\ \A t \in Tickers : book[t] \in Books
    /\ main.op \in {"idle", "subscribe", "register", "unsubscribe", "rest"}
    /\ lost \in [Tickers -> SUBSET Causes]

\* Once every update has been processed, the local book is the exchange's,
\* unless one of the named losses happened since the last good snapshot.
\* Snapshots jump the processor's queue, so updates older than the snapshot
\* are applied again after it: the result must be the same.
BookFaithful ==
    \A t \in ctrl :
        (lost[t] = {} /\ t \in subs \intersect wanted /\ For(t, wire) = {} /\ For(t, procQ) = {})
            => book[t] = market[t]

\* A connection that is down is being opened, or a timer will open it; once it
\* is up and everything is written, the exchange has the subscription of the
\* account and of every ticker that is wanted: whatever reconnects and failed
\* writes happened in between, as long as the client's queue never overflowed.
Resubscribed ==
    /\ connected \/ timer \/ resolving \/ stream = "opening"
    /\ (connected /\ reading /\ writeQ = <<>> /\ IoFree /\ main = Idle /\ ~dropped)
          => (account /\ wanted \subseteq subs)

\* What the raw path skips, the feed's JSON path has handled, and every update
\* queued for a live ticker reaches its book.
UpdatesReachBook == \A t \in ctrl : lost[t] \intersect {"size", "form"} = {}
=============================================================================
