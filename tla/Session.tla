------------------------------ MODULE Session ------------------------------
(* One bot account over the life of several processes: the main thread     *)
(* (BotApp::tick, once a second, and the kill-switch shutdown), the thread *)
(* of PipelineProcessor, the saved state of AccountStatePersister, and     *)
(* StartupRecovery, which rebuilds the trades of a crashed or killed       *)
(* process from the saved state and from what the exchange reports.        *)
(*                                                                         *)
(* The live executor appears only through its trades and its closed_trades_*)
(* list (LiveExecutor.tla has the detail); a fill and the executor's       *)
(* reaction are one step.  Profits are -1 or +1.  Equity, balances and     *)
(* unrealised profit are left out: only the realised profit of the day and *)
(* the active positions reach the risk gate.                               *)
EXTENDS Integers, Sequences, FiniteSets, SequencesExt

CONSTANTS
    Tickers,        \* tickers with a controller, as numbers
    MaxDay,         \* bound: UTC days that pass
    MaxSubmits,     \* bound: plans submitted
    MaxOrders,      \* bound: orders placed
    MaxMishaps,     \* bound: restarts and failing gateway calls, together
    MaxEvents,      \* bound: market events processed, all in all
    DrainEvery,     \* events between two drains (5000 in the code)
    MaxRetries,     \* close retries per ticker (3 in the code)
    MaxPolls,       \* bound: polls before the deadline of the shutdown
    Profits,        \* what a closed trade may earn
    LossLimit,      \* R2: realised loss of the day that stops trading
    MaxPositions    \* R3: most active positions

ASSUME SessionAssumption ==
    /\ Tickers \subseteq Nat /\ IsFiniteSet(Tickers)
    /\ MaxDay \in Nat \ {0} /\ LossLimit \in Nat \ {0} /\ DrainEvery \in Nat \ {0}
    /\ Profits \subseteq Int
    /\ {MaxSubmits, MaxOrders, MaxMishaps, MaxEvents, MaxRetries,
        MaxPolls, MaxPositions} \subseteq Nat

VARIABLES
    day,        \* the UTC date
    main,       \* main thread: [pc, todo, tries, polls]
    acct,       \* account_state_: [real, kill, active]
    resetDay,   \* last_reset_day_
    trades,     \* executor trades_: ticker -> sequence of trades
    closed,     \* executor closed_trades_: sequence of profits
    queue,      \* closed_trade_queue_ of the processor
    events,     \* processor: [total, sinceDrain]
    orders,     \* open orders on the exchange
    pos,        \* position size on the exchange per ticker
    disk,       \* journal/account_state.json, or NoState
    kill,       \* KillSwitch: [on, file]
    boot,       \* a recovery under way: [pos, open, cancel, trades, filled]
    used,       \* bounds: [id, submits, boots, faults]
    tally       \* profit [made by the executor, taken by the account] since boot

vars == <<boot, day, main, acct, resetDay, trades, closed, queue, events, orders, pos,
          disk, kill, used, tally>>
exchange == <<orders, pos>>
executor == <<trades, closed>>

NoState == [saved |-> FALSE]
IdleMain == [pc |-> "idle", todo |-> {}, tries |-> [t \in Tickers |-> 0], polls |-> 0]
DownMain == [IdleMain EXCEPT !.pc = "down"]
NewAccount == [real |-> 0, kill |-> FALSE, active |-> [t \in Tickers |-> 0]]
NoTrades == [t \in Tickers |-> <<>>]
\* What a recovery has read, rebuilt and still has to cancel, and the orders
\* that filled since it read the positions.
NoBoot == [pos |-> [t \in Tickers |-> 0], open |-> {}, cancel |-> {}, trades |-> NoTrades,
           filled |-> {}]
Booting == main.pc \in {"orders", "rebuild"}
Gone == main.pc \in {"down", "exited"}
Up == main.pc \notin {"orders", "rebuild", "down", "exited"}
Total(s) == FoldSeq(LAMBDA p, sum : p + sum, 0, s)
Sum(f) == FoldFunction(LAMBDA n, sum : n + sum, 0, f)
Mishap == used.boots + used.faults < MaxMishaps
Fail(ok) == /\ ok \/ Mishap
            /\ used' = [used EXCEPT !.faults = IF ok THEN @ ELSE @ + 1]

Init ==
    /\ day = 1 /\ resetDay = 1
    /\ main = IdleMain
    /\ acct = NewAccount
    /\ trades = NoTrades /\ closed = <<>> /\ queue = <<>>
    /\ events = [total |-> 0, sinceDrain |-> 0]
    /\ orders = {} /\ pos = [t \in Tickers |-> 0]
    /\ disk = NoState /\ boot = NoBoot
    /\ kill = [on |-> FALSE, file |-> FALSE]
    /\ used = [id |-> 0, submits |-> 0, boots |-> 0, faults |-> 0]
    /\ tally = [made |-> 0, taken |-> 0]

----------------------------------------------------------------------------
(* The exchange and the executor's reaction to it.                         *)

Order(id, t, type, size) == [id |-> id, tk |-> t, type |-> type, size |-> size]
Lots == 2       \* a plan is for two lots, its take-profit for one

\* The plan callback: RiskManager sees account_state_ as the last tick left
\* it (R1, R2, R3 and one position per ticker), then the executor submits.
Submit(t) ==
    /\ Up /\ used.submits < MaxSubmits /\ used.id < MaxOrders
    /\ ~acct.kill
    /\ acct.real > -LossLimit
    /\ Sum(acct.active) < MaxPositions
    /\ acct.active[t] = 0
    /\ used' = [used EXCEPT !.id = @ + 1, !.submits = @ + 1]
    /\ orders' = orders \cup {Order(used.id + 1, t, "Entry", Lots)}
    /\ trades' = [trades EXCEPT ![t] = Append(@, [st |-> "PendingEntry", entry |-> used.id + 1,
                                                   stop |-> 0, tp |-> 0, size |-> 0])]
    /\ UNCHANGED <<boot, day, main, acct, resetDay, closed, queue, events, pos, disk, kill, tally>>

\* The trades of a running executor that own order o, in state st.
Owners(o, st) == {i \in DOMAIN trades[o.tk] :
                    /\ Up /\ trades[o.tk][i].st = st
                    /\ o.id \in {trades[o.tk][i].entry, trades[o.tk][i].stop, trades[o.tk][i].tp}}

\* An order fills with nobody watching: only the exchange moves, if need be
\* between two calls of a recovery.
UnseenFill(o) ==
    /\ Up \/ Mishap      \* bound: followed while a process may look
    /\ \A st \in {"PendingEntry", "Open"} : Owners(o, st) = {}
    /\ o.type # "Entry" => pos[o.tk] > 0
    /\ pos' = [pos EXCEPT ![o.tk] = IF o.type = "Entry" THEN @ + o.size
                                    ELSE IF o.size > @ THEN 0 ELSE @ - o.size]
    /\ orders' = orders \ {o}
    /\ boot' = IF Booting THEN [boot EXCEPT !.filled = @ \cup {o}] ELSE boot
    /\ UNCHANGED <<day, main, acct, resetDay, executor, queue, events, disk, kill, used, tally>>

\* An entry fills: the executor opens the trade and places stop and TP1.
EntryFill(o) ==
    /\ o.type = "Entry" /\ used.id + 2 <= MaxOrders
    /\ \E i \in Owners(o, "PendingEntry"), ok \in BOOLEAN :
         /\ ok \/ Mishap
         /\ used' = [used EXCEPT !.id = @ + (IF ok THEN 2 ELSE 0),
                                 !.faults = @ + (IF ok THEN 0 ELSE 1)]
         /\ orders' = (orders \ {o}) \cup
              (IF ok THEN {Order(used.id + 1, o.tk, "Stop", Lots), Order(used.id + 2, o.tk, "Tp", 1)}
                     ELSE {})
         /\ trades' = [trades EXCEPT ![o.tk][i] =
              [@ EXCEPT !.st = "Open", !.size = Lots,
                        !.stop = IF ok THEN used.id + 1 ELSE 0,
                        !.tp = IF ok THEN used.id + 2 ELSE 0]]
    /\ pos' = [pos EXCEPT ![o.tk] = @ + Lots]
    /\ UNCHANGED <<boot, day, main, acct, resetDay, closed, queue, events, disk, kill, tally>>

\* The stop of an open trade fills: closed and recorded.
StopFill(o) ==
    /\ o.type = "Stop" /\ pos[o.tk] > 0
    /\ \E i \in Owners(o, "Open"), p \in Profits :
         /\ trades' = [trades EXCEPT ![o.tk][i].st = "Closed"]
         /\ orders' = orders \ {o}
         /\ closed' = Append(closed, p)
         /\ tally' = [tally EXCEPT !.made = @ + p]
    /\ pos' = [pos EXCEPT ![o.tk] = IF o.size > @ THEN 0 ELSE @ - o.size]
    /\ UNCHANGED <<boot, day, main, acct, resetDay, queue, events, disk, kill, used>>

\* TP1 fills: nothing is recorded, the stop is replaced by one at break-even
\* for the rest.
TpFill(o) ==
    /\ o.type = "Tp" /\ pos[o.tk] >= o.size /\ used.id < MaxOrders
    /\ \E i \in Owners(o, "Open") :
         LET rest == trades[o.tk][i].size - o.size
         IN  /\ orders' = {x \in orders \ {o} : x.id # trades[o.tk][i].stop}
                            \cup (IF rest > 0 THEN {Order(used.id + 1, o.tk, "Stop", rest)} ELSE {})
             /\ trades' = [trades EXCEPT ![o.tk][i].stop = IF rest > 0 THEN used.id + 1 ELSE 0]
    /\ used' = [used EXCEPT !.id = @ + 1]
    /\ pos' = [pos EXCEPT ![o.tk] = @ - o.size]
    /\ UNCHANGED <<boot, day, main, acct, resetDay, closed, queue, events, disk, kill, tally>>

\* close_trade of the executor: every open trade of the ticker drops its
\* orders, is closed by market if the gateway takes that, and is recorded.
CloseTrade(t) ==
    LET hit == {i \in DOMAIN trades[t] : trades[t][i].st = "Open" /\ trades[t][i].size > 0}
        ids == {trades[t][i].stop : i \in hit} \cup {trades[t][i].tp : i \in hit}
        n == Total([i \in DOMAIN trades[t] |-> IF i \in hit THEN trades[t][i].size ELSE 0])
    IN  \E ok \in BOOLEAN, p \in Profits :
        /\ Fail(ok \/ hit = {})
        /\ orders' = {o \in orders : o.id \notin ids}
        /\ pos' = [pos EXCEPT ![t] = IF ~ok THEN @ ELSE IF n > @ THEN 0 ELSE @ - n]
        /\ trades' = [trades EXCEPT ![t] =
             [i \in DOMAIN trades[t] |-> IF i \in hit
                THEN [trades[t][i] EXCEPT !.st = IF ok THEN "Closed" ELSE "Open", !.stop = 0, !.tp = 0]
                ELSE trades[t][i]]]
        /\ closed' = closed \o [k \in 1..Cardinality(hit) |-> p]
        /\ tally' = [tally EXCEPT !.made = @ + p * Cardinality(hit)]

\* A strategy or the dashboard asks for a close.
CloseRequest(t) ==
    /\ Up /\ \E i \in DOMAIN trades[t] : trades[t][i].st = "Open"
    /\ CloseTrade(t)
    /\ UNCHANGED <<boot, day, main, acct, resetDay, queue, events, disk, kill>>

----------------------------------------------------------------------------
(* The processor thread.                                                   *)

\* One market event.
ProcessEvent ==
    /\ Up /\ events.total < MaxEvents
    /\ events' = [total |-> events.total + 1, sinceDrain |-> events.sinceDrain + 1]
    /\ UNCHANGED <<boot, day, main, acct, resetDay, executor, queue, exchange, disk, kill, used, tally>>

\* Mutant: the closed trades stay with the executor.
DrainByCopy ==
    /\ Up /\ events.sinceDrain >= DrainEvery
    /\ queue' = queue \o closed
    /\ events' = [events EXCEPT !.sinceDrain = 0]
    /\ UNCHANGED <<boot, day, main, acct, resetDay, executor, exchange, disk, kill, used, tally>>

\* The trades of s that are not Closed, in their order.
Unclosed(s) ==
    FoldLeft(LAMBDA kept, x : IF x.st = "Closed" THEN kept ELSE Append(kept, x), <<>>, s)

\* After enough events the closed trades move to the queue of the main
\* thread, and the executor forgets them.
Drain ==
    /\ Up /\ events.sinceDrain >= DrainEvery
    /\ queue' = queue \o closed
    /\ closed' = <<>>
    /\ trades' = [t \in Tickers |-> Unclosed(trades[t])]
    /\ events' = [events EXCEPT !.sinceDrain = 0]
    /\ UNCHANGED <<boot, day, main, acct, resetDay, exchange, disk, kill, used, tally>>

----------------------------------------------------------------------------
(* BotApp::tick, on the main thread, in steps other threads run between.   *)

At(pc) == main.pc = pc
Goto(pc) == main' = [main EXCEPT !.pc = pc]

\* Open trades that have no stop.
Bare == {x \in Tickers \X (1..MaxSubmits) :
            /\ x[2] \in DOMAIN trades[x[1]]
            /\ trades[x[1]][x[2]].st = "Open" /\ trades[x[1]][x[2]].stop = 0}

\* schedule_tick: the daily reset, or the shutdown once the switch is on.
TickBegin ==
    /\ At("idle")
    /\ IF kill.on
       THEN /\ main' = [main EXCEPT !.pc = "cancel", !.todo = Tickers]
            /\ UNCHANGED <<acct, resetDay>>
       ELSE /\ main' = [main EXCEPT !.pc = "exec", !.todo = Bare]
            /\ resetDay' = day
            /\ acct' = IF day # resetDay THEN [acct EXCEPT !.real = 0] ELSE acct
    /\ UNCHANGED <<boot, day, executor, queue, events, exchange, disk, kill, used, tally>>

\* executor_->tick: an open trade without a stop is armed again; if the
\* gateway refuses, the next tick tries again.
TickExecutor ==
    /\ At("exec")
    /\ \E x \in main.todo, ok \in BOOLEAN :
         /\ main' = [main EXCEPT !.todo = @ \ {x}]
         /\ IF ok /\ x \in Bare /\ used.id < MaxOrders
            THEN /\ used' = [used EXCEPT !.id = @ + 1]
                 /\ orders' = orders \cup {Order(used.id + 1, x[1], "Stop", trades[x[1]][x[2]].size)}
                 /\ trades' = [trades EXCEPT ![x[1]][x[2]].stop = used.id + 1]
            ELSE /\ Fail(ok)
                 /\ UNCHANGED <<orders, trades>>
    /\ UNCHANGED <<boot, day, acct, resetDay, closed, queue, events, pos, disk, kill, tally>>

\* process_closed_trades_: with a processor, only its queue is read.
TickDrain ==
    /\ At("exec") /\ main.todo = {} /\ Goto("sync")
    /\ acct' = [acct EXCEPT !.real = @ + Total(queue)]
    /\ tally' = [tally EXCEPT !.taken = @ + Total(queue)]
    /\ queue' = <<>>
    /\ UNCHANGED <<boot, day, resetDay, executor, events, exchange, disk, kill, used>>

OpenCount == [t \in Tickers |-> Cardinality({i \in DOMAIN trades[t] : trades[t][i].st = "Open"})]

\* Mutant: only the active positions are saved.
SavedActiveOnly(account, switch) ==
    [saved |-> TRUE, acct |-> account, resetDay |-> resetDay, kill |-> switch,
     trades |-> [t \in Tickers |-> SelectSeq(trades[t], LAMBDA x : x.st = "Open")]]

\* What save writes: the account, and every trade that is not Closed.
Saved(account, switch) ==
    [saved |-> TRUE, acct |-> account, resetDay |-> resetDay, kill |-> switch,
     trades |-> [t \in Tickers |-> Unclosed(trades[t])]]

\* The executor's snapshot sets the active positions; the switch is copied;
\* every ten seconds the state is saved.
TickSync ==
    /\ At("sync") /\ Goto("idle")
    /\ acct' = [acct EXCEPT !.active = OpenCount, !.kill = kill.on]
    /\ disk' \in {disk, Saved(acct', FALSE)}
    /\ UNCHANGED <<boot, day, resetDay, executor, queue, events, exchange, kill, used, tally>>

----------------------------------------------------------------------------
(* The kill switch and handle_kill_switch_.                                *)

\* trigger (signal, clock drift, dashboard), or the file an operator dropped
\* and the watchdog saw: the flag is set and the marker file is there.
Trigger ==
    /\ Up /\ ~kill.on
    /\ kill' = [on |-> TRUE, file |-> TRUE]
    /\ UNCHANGED <<boot, day, main, acct, resetDay, executor, queue, events, exchange, disk, used, tally>>

\* An operator removes the file once the process is gone.
RemoveMarker ==
    /\ Gone /\ kill.file /\ Mishap
    /\ kill' = [kill EXCEPT !.file = FALSE]
    /\ UNCHANGED <<boot, day, main, acct, resetDay, executor, queue, events, exchange, disk, used, tally>>

\* Step 2: cancel_all of the executor, per ticker with a controller.
KillCancel ==
    /\ At("cancel")
    /\ \/ /\ main.todo = {} /\ Goto("fetch")
          /\ UNCHANGED <<orders, trades, used>>
       \/ \E t \in main.todo, ok \in BOOLEAN :
            /\ main' = [main EXCEPT !.todo = @ \ {t}]
            /\ Fail(ok)
            /\ IF ok
               THEN /\ orders' = {o \in orders : o.tk # t}
                    /\ trades' = [trades EXCEPT ![t] = [i \in DOMAIN trades[t] |->
                         IF trades[t][i].st = "Closed" THEN trades[t][i]
                         ELSE [trades[t][i] EXCEPT !.st = "Cancelling"]]]
               ELSE UNCHANGED <<orders, trades>>
    /\ UNCHANGED <<boot, day, acct, resetDay, closed, queue, events, pos, disk, kill, tally>>

\* Step 3: the positions of the exchange, or of the open trades if REST fails.
KillFetch ==
    /\ At("fetch")
    /\ \E ok \in BOOLEAN :
         /\ Fail(ok)
         /\ main' = [main EXCEPT !.pc = "close", !.todo =
              IF ok THEN {t \in Tickers : pos[t] > 0} ELSE {t \in Tickers : OpenCount[t] > 0}]
    /\ UNCHANGED <<boot, day, acct, resetDay, executor, queue, events, exchange, disk, kill, tally>>

\* Step 4, and the retries of step 5: close_trade per position.
KillClose ==
    /\ main.pc \in {"close", "retry"}
    /\ \/ /\ main.todo = {} /\ Goto("poll")
          /\ UNCHANGED <<executor, exchange, used, tally>>
       \/ \E t \in main.todo :
            /\ main' = [main EXCEPT !.todo = @ \ {t}, !.tries[t] = IF At("retry") THEN @ + 1 ELSE @]
            /\ CloseTrade(t)
    /\ UNCHANGED <<boot, day, acct, resetDay, queue, events, disk, kill>>

\* Mutant: the poll has no deadline.
KillPollForever ==
    /\ At("poll")
    /\ \/ /\ \A t \in Tickers : pos[t] = 0
          /\ Goto("final")
       \/ /\ \E t \in Tickers : pos[t] > 0
          /\ main' = [main EXCEPT !.pc = "retry", !.todo = {}]
    /\ UNCHANGED <<boot, day, acct, resetDay, executor, queue, events, exchange, disk, kill, used, tally>>

\* Step 5: poll the positions until none is left or the deadline has passed.
KillPoll ==
    /\ At("poll")
    /\ \/ /\ main.polls = MaxPolls \/ \A t \in Tickers : pos[t] = 0
          /\ Goto("final") /\ UNCHANGED used
       \/ \E ok \in BOOLEAN :
            /\ main.polls < MaxPolls /\ \E t \in Tickers : pos[t] > 0
            /\ Fail(ok)
            /\ main' = IF ok
                 THEN [main EXCEPT !.pc = "retry", !.polls = @ + 1,
                         !.todo = {t \in Tickers : pos[t] > 0 /\ main.tries[t] < MaxRetries}]
                 ELSE [main EXCEPT !.polls = @ + 1]
    /\ UNCHANGED <<boot, day, acct, resetDay, executor, queue, events, exchange, disk, kill, tally>>

\* The total deadline passes: every step that is left is skipped.
KillDeadline ==
    /\ main.pc \in {"cancel", "fetch", "close", "retry", "poll"} /\ Goto("final")
    /\ UNCHANGED <<boot, day, acct, resetDay, executor, queue, events, exchange, disk, kill, used, tally>>

\* Mutant: the trades outlive the process.
ForgetAllButTrades ==
    /\ trades' = trades /\ closed' = <<>> /\ queue' = <<>>
    /\ events' = [events EXCEPT !.sinceDrain = 0]
    /\ kill' = [kill EXCEPT !.on = FALSE]
    /\ tally' = [made |-> 0, taken |-> 0]
    /\ acct' = NewAccount

\* The process is gone: what is in memory is lost.
Forget ==
    /\ trades' = NoTrades /\ closed' = <<>> /\ queue' = <<>>
    /\ events' = [events EXCEPT !.sinceDrain = 0]
    /\ kill' = [kill EXCEPT !.on = FALSE]
    /\ tally' = [made |-> 0, taken |-> 0]
    /\ acct' = NewAccount

\* Steps 7 and 8: save the state and exit.
KillExit ==
    /\ At("final") /\ main' = [IdleMain EXCEPT !.pc = "exited"]
    /\ disk' = Saved(acct, TRUE)
    /\ Forget
    /\ UNCHANGED <<boot, day, resetDay, exchange, used>>

\* The process dies, also when a call of the recovery throws.
Crash ==
    /\ ~Gone /\ Mishap
    /\ main' = DownMain /\ boot' = NoBoot
    /\ Forget
    /\ UNCHANGED <<day, resetDay, exchange, disk, used>>

----------------------------------------------------------------------------
(* Startup: load_account_state_ and StartupRecovery::run, a step for every *)
(* call to the exchange.                                                   *)

Oldest(S) == IF S = {} THEN 0 ELSE CHOOSE i \in S : \A j \in S : i <= j
OpenIds(t, type) == {o.id : o \in {x \in boot.open : x.tk = t /\ x.type = type}}
FirstSaved(t) == IF disk.saved /\ disk.trades[t] # <<>> THEN {disk.trades[t][1]} ELSE {}
\* The tickers recovery looks at, when it was told of the positions p.
Looked(p) == {t \in Tickers : p[t] > 0 \/ FirstSaved(t) # {}}
Orphan(t) == boot.pos[t] > 0 /\ FirstSaved(t) = {}

\* Mutant: orders are matched by their ids alone.
RecoveredById(t, emergency) ==
    LET base == IF Orphan(t)
                THEN [st |-> "Open", entry |-> 0, stop |-> emergency, tp |-> 0, size |-> 0]
                ELSE CHOOSE x \in FirstSaved(t) : TRUE
    IN  [base EXCEPT !.st = "Open"]

\* The trade rebuilt for a ticker with a position: the first one saved, or an
\* emergency trade under a new stop (0 if the gateway refused it), open with
\* the size of the exchange; then the orders fetched (the oldest first) that
\* nobody owns are adopted by type where the trade has none.
Recovered(t, emergency) ==
    LET base == IF Orphan(t)
                THEN [st |-> "Open", entry |-> 0, stop |-> emergency, tp |-> 0, size |-> 0]
                ELSE CHOOSE x \in FirstSaved(t) : TRUE
        Free(type) == OpenIds(t, type) \ {base.entry, base.stop, base.tp}
    IN  [base EXCEPT !.st = "Open", !.size = boot.pos[t],
                     !.stop = IF @ = 0 THEN Oldest(Free("Stop")) ELSE @,
                     !.tp = IF @ = 0 THEN Oldest(Free("Tp")) ELSE @]

\* init_config_ refuses to start beside the marker; then the account is read
\* and the positions are fetched.
BootPositions ==
    /\ Gone /\ ~kill.file /\ Mishap
    /\ acct' = IF disk.saved THEN disk.acct ELSE NewAccount
    /\ resetDay' = IF disk.saved THEN disk.resetDay ELSE day
    /\ main' = [DownMain EXCEPT !.pc = "orders", !.todo = Looked(pos)]
    /\ boot' = [NoBoot EXCEPT !.pos = pos]
    /\ UNCHANGED <<day, executor, queue, events, exchange, disk, kill, used, tally>>

\* The open orders are fetched, ticker by ticker.
BootOrders ==
    /\ At("orders")
    /\ \/ /\ main.todo = {}
          /\ main' = [main EXCEPT !.pc = "rebuild", !.todo = Looked(boot.pos)]
          /\ UNCHANGED boot
       \/ \E t \in main.todo :
            /\ main' = [main EXCEPT !.todo = @ \ {t}]
            /\ boot' = [boot EXCEPT !.open = @ \cup {o \in orders : o.tk = t}]
    /\ UNCHANGED <<day, acct, resetDay, executor, queue, events, exchange, disk, kill, used, tally>>

\* A ticker's trade is rebuilt if it had a position, and the orders fetched for
\* it that no trade owns are to be cancelled.
BootTicker(t) ==
    /\ At("rebuild") /\ t \in main.todo /\ boot.cancel = {}
    /\ \E ok \in BOOLEAN :
         LET placed == ok /\ Orphan(t)
             mine == Recovered(t, IF placed THEN used.id + 1 ELSE 0)
             owned == IF boot.pos[t] > 0 THEN {mine.entry, mine.stop, mine.tp} ELSE {}
         IN  /\ ok \/ (Orphan(t) /\ Mishap)
             /\ placed => used.id < MaxOrders
             /\ used' = [used EXCEPT !.id = @ + (IF placed THEN 1 ELSE 0),
                                     !.faults = @ + (IF ok THEN 0 ELSE 1)]
             /\ orders' = orders \cup
                  (IF placed THEN {Order(used.id + 1, t, "Stop", boot.pos[t])} ELSE {})
             /\ boot' = [boot EXCEPT
                  !.trades[t] = IF boot.pos[t] > 0 THEN <<mine>> ELSE <<>>,
                  !.cancel = {o \in boot.open : o.tk = t /\ o.id \notin owned}]
    /\ main' = [main EXCEPT !.todo = @ \ {t}]
    /\ UNCHANGED <<day, acct, resetDay, executor, queue, events, pos, disk, kill, tally>>

\* One of them is cancelled, if it is still open.
BootCancel ==
    /\ At("rebuild")
    /\ \E o \in boot.cancel :
         /\ orders' = orders \ {o}
         /\ boot' = [boot EXCEPT !.cancel = @ \ {o}]
    /\ UNCHANGED <<day, main, acct, resetDay, executor, queue, events, pos, disk, kill, used, tally>>

\* The executor is handed the trades, and the timers start.
BootDone ==
    /\ At("rebuild") /\ main.todo = {} /\ boot.cancel = {}
    /\ trades' = boot.trades /\ boot' = NoBoot
    /\ main' = IdleMain
    /\ used' = [used EXCEPT !.boots = @ + 1]
    /\ UNCHANGED <<day, acct, resetDay, closed, queue, events, exchange, disk, kill, tally>>

Boot == BootPositions \/ BootOrders \/ (\E t \in Tickers : BootTicker(t)) \/ BootCancel \/ BootDone

Midnight ==
    /\ day < MaxDay /\ Up /\ day' = day + 1
    /\ UNCHANGED <<boot, main, acct, resetDay, executor, queue, events, exchange, disk, kill, used, tally>>

Tick == TickBegin \/ TickExecutor \/ TickDrain \/ TickSync
Shutdown == KillCancel \/ KillFetch \/ KillClose \/ KillPoll \/ KillDeadline \/ KillExit

Next ==
    \/ \E t \in Tickers : Submit(t) \/ CloseRequest(t)
    \/ \E o \in orders : UnseenFill(o) \/ EntryFill(o) \/ StopFill(o) \/ TpFill(o)
    \/ ProcessEvent \/ Drain
    \/ Tick \/ Shutdown
    \/ Trigger \/ RemoveMarker
    \/ Crash \/ Boot \/ Midnight

Spec == Init /\ [][Next]_vars

\* The main thread keeps running its timer and the processor thread keeps
\* polling; the market, the exchange, the operator and the strategies owe
\* nothing.
Fairness == WF_vars(Tick) /\ WF_vars(Shutdown) /\ WF_vars(Drain)

FairSpec == Spec /\ Fairness

----------------------------------------------------------------------------
(* Properties.                                                             *)

TypeOK ==
    /\ day \in 1..MaxDay /\ resetDay \in 1..MaxDay
    /\ main.pc \in {"idle", "exec", "sync", "cancel", "fetch", "close", "retry",
                    "poll", "final", "exited", "down", "orders", "rebuild"}
    /\ \A t \in Tickers : \A i \in DOMAIN trades[t] :
         /\ trades[t][i].st \in {"PendingEntry", "Open", "Closed", "Cancelling"}
         /\ {trades[t][i].entry, trades[t][i].stop, trades[t][i].tp} \subseteq 0..used.id
    /\ \A o \in orders \cup boot.open \cup boot.filled :
         o.id \in 1..used.id /\ o.tk \in Tickers /\ o.size > 0
    /\ pos \in [Tickers -> Nat]
    /\ ~Up => trades = NoTrades /\ closed = <<>> /\ queue = <<>>
    /\ ~Booting => boot = NoBoot

\* Every profit the executor recorded is counted by the account exactly once,
\* or is still on its way, however the processor's drain, the tick and the
\* closes interleave.
PnlConserved == Up => tally.made = tally.taken + Total(closed) + Total(queue)

\* A shutdown by the kill switch leaves no position behind that the saved
\* state has no trade for (in a process that recovered nothing itself): what could
\* not be closed can be recovered.
ExitRemembersPositions ==
    At("exited") /\ used.boots = 0 => \A t \in Tickers : pos[t] > 0 => disk.trades[t] # <<>>

\* What filled of ticker t since the recovery read its position.
Missed(t) == {o \in boot.filled : o.tk = t}

\* After recovery every position of the exchange is one open trade of its
\* size, and no order of a ticker recovery looked at is left without a trade;
\* all that may part them is an order that filled between the calls: an entry
\* whose position was not there when it was asked for, a fill that changed it.
RecoveryOwnsExchange ==
    [][~Up /\ Up' => \A t \in Tickers :
        /\ pos[t] > 0 /\ trades'[t] = <<>> => \E o \in Missed(t) : o.type = "Entry"
        /\ trades'[t] # <<>> => /\ Len(trades'[t]) = 1 /\ trades'[t][1].st = "Open"
                                /\ trades'[t][1].size = pos[t] \/ Missed(t) # {}
        /\ \A o \in orders' : o.tk = t /\ t \in Looked(boot.pos) =>
             /\ trades'[t] # <<>>
             /\ o.id \in {trades'[t][1].entry, trades'[t][1].stop, trades'[t][1].tp}]_vars

\* Once triggered, the shutdown comes to its end, whatever the gateway does.
KillTerminates == kill.on ~> ~Up

\* (violated) With every call answered in time, the shutdown closes all
\* positions the account had.
KillClosesPositions ==
    At("final") /\ used.faults = 0 /\ main.polls = MaxPolls => \A t \in Tickers : pos[t] = 0
=============================================================================
