--------------------------- MODULE TradeLifecycle ---------------------------
(* What an executor promises of the plans it is given, whatever it does    *)
(* inside: a plan is taken once, waits, may open, and ends; it never goes  *)
(* back; lots are booked only for a plan that opened, never more than it   *)
(* has, and all of them when it ends by an exit; a ticker has at most one  *)
(* open plan, and an open plan is given up only with its whole ticker.     *)
EXTENDS Naturals

CONSTANTS
    Plans,      \* plans, by identity
    TickerOf,   \* plan -> ticker
    Lots        \* plan -> its size

VARIABLES
    status,     \* plan -> "new", "pending", "open", "dropped" or "exited"
    booked      \* plan -> lots recorded as closed

Stages == {"new", "pending", "open", "dropped", "exited"}

Init == status = [p \in Plans |-> "new"] /\ booked = [p \in Plans |-> 0]

\* What one step may do to plan p.  One step may open and close it, or take
\* part of it off.
Stays(p) == status'[p] = status[p] /\ booked'[p] = booked[p]
Restored(p) == status[p] = "new" /\ status'[p] = "open" /\ booked'[p] < Lots[p]
Taken(p) == status[p] = "new" /\ status'[p] = "pending" /\ booked'[p] = booked[p]
Opens(p) == status[p] = "pending" /\ status'[p] = "open" /\ booked'[p] < Lots[p]
Reduces(p) == /\ status[p] = "open" /\ status'[p] = "open"
              /\ booked[p] < booked'[p] /\ booked'[p] < Lots[p]
Expires(p) == status[p] = "pending" /\ status'[p] = "dropped" /\ booked'[p] = booked[p]
Drops(p) == /\ status[p] = "open" /\ status'[p] = "dropped" /\ booked'[p] = booked[p]
            /\ \A q \in Plans : TickerOf[q] = TickerOf[p] => status'[q] \notin {"pending", "open"}
Exits(p) == /\ status[p] \in {"pending", "open"} /\ status'[p] = "exited"
            /\ booked'[p] = Lots[p]
Moves(p) == Stays(p) \/ Restored(p) \/ Taken(p) \/ Opens(p) \/ Reduces(p) \/ Expires(p) \/ Drops(p) \/ Exits(p)

OneOpen == \A p, q \in Plans :
    status[p] = "open" /\ status[q] = "open" /\ TickerOf[p] = TickerOf[q] => p = q

\* One step of the executor may move several plans of a ticker.
Next == /\ status' \in [Plans -> Stages]
        /\ \A p \in Plans : Moves(p)
        /\ OneOpen'

Spec == Init /\ [][Next]_<<status, booked>>
=============================================================================
