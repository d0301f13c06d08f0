--------------------------- MODULE MCRiskManager ---------------------------
(* Instances for TLC of RiskManager and of what it stands on: the saved      *)
(* state of the account, the calendar of news and the local clock.  They     *)
(* meet only in requests, calendars and times, which RiskManager chooses     *)
(* freely, so they are checked side by side: part names the one that takes   *)
(* steps.                                                                    *)
EXTENDS RiskManager, Journal, News, ClockDrift, TLC

MCLimits == [max_daily_loss_bp |-> 300, max_concurrent_positions |-> 3,
             max_positions_per_ticker |-> 1, allow_hedge |-> FALSE, whitelist |-> {},
             min_stop_bps |-> 3, max_stop_bps |-> 20, min_rr_ratio |-> 100,
             max_per_trade_risk_bp |-> 50, max_position_value_pct |-> 10,
             margin_safety_ratio |-> 80, max_leverage |-> 5, max_entry_slippage_bps |-> 5]

Long(ticker, entry, stop, tp1) ==
    [ticker |-> ticker, side |-> "Buy", entry |-> entry, stop |-> stop, tp1 |-> tp1, tp2 |-> 0]

Healthy(equity) ==
    [starting_equity |-> equity, equity |-> equity, realized |-> 0, unrealized |-> 0,
     free_balance |-> equity, positions |-> 0, active_tickers |-> <<>>, kill |-> FALSE,
     mark |-> 0]

Listed(step, minimum) ==
    [in_pool |-> TRUE, boosted |-> FALSE, strategy_enabled |-> TRUE, stop_scale |-> 100,
     price_increment |-> 1, size_increment |-> step, min_size |-> minimum]

Request(plan, account, listing) == [plan |-> plan, account |-> account, listing |-> listing]

\* Capped by value to a size between two lots; one R6 rejects.
Capped == Request(Long("btc", 1000, 998, 1004), Healthy(100000), Listed(6, 6))
WrongSide == Request(Long("btc", 1000, 1001, 1004), Healthy(100000), Listed(1, 1))

MCRequests == {Capped, WrongSide}

ThreadSymmetry == Permutations(Threads)

SavedStates == {Fields, {"kill", "opened_at"}}

NewsAt1 == {{}, {[ts |-> 1, ticker |-> Global]}}

VARIABLE part

\* Five before the field wraps around, and after.
AroundWrap == {59, 66}
FarOff == {-9, -4, 0, 4, 9}

GateInit ==
    /\ part \in {"risk", "journal", "news", "clock"}
    /\ Init /\ JournalInit /\ NewsInit /\ DriftInit
    /\ part # "journal" => files.main = NoFile /\ lockable
    /\ part # "news" => file.valid
    /\ part # "clock" => offset = 0 /\ moment = 59

GateNext ==
    \/ part = "risk" /\ Next /\ UNCHANGED <<part, journalVars, newsVars, driftVars>>
    \/ part = "journal" /\ JournalNext /\ UNCHANGED <<part, vars, newsVars, driftVars>>
    \/ part = "news" /\ NewsNext /\ UNCHANGED <<part, vars, journalVars, driftVars>>
    \/ part = "clock" /\ DriftNext /\ UNCHANGED <<part, vars, journalVars, newsVars>>

GateSpec == GateInit /\ [][GateNext]_<<part, vars, journalVars, newsVars, driftVars>>
=============================================================================
