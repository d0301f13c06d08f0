--------------------------- MODULE MCPaperExecutor ---------------------------
(* A long plan with a partial take-profit, a short one on the same ticker  *)
(* that fills at the market, and a long one on a second ticker.            *)
EXTENDS PaperExecutor

Plan(id, tk, dir, market, entry, stop, tp, lots, part) ==
    [id |-> id, tk |-> tk, dir |-> dir, market |-> market, entry |-> entry, stop |-> stop,
     tp |-> tp, lots |-> lots, part |-> part, ttl |-> 1, noProgress |-> 1,
     grace |-> 1, follow |-> id - 1]

MCPlans == {Plan(1, 1, 1, FALSE, 4, 2, 6, 2, 1), Plan(2, 1, -1, TRUE, 4, 6, 2, 1, 0)}
MCQuotes == {[bid |-> 1, ask |-> 3], [bid |-> 4, ask |-> 5], [bid |-> 6, ask |-> 7]}
=============================================================================
