--------------------------- MODULE MCLiveExecutor ---------------------------
(* Instances of LiveExecutor for TLC. *)
EXTENDS LiveExecutor

Plan(tk, side, size, tp) == [ticker |-> tk, side |-> side, size |-> size, tp |-> tp]

OnePlan == <<Plan(1, "Buy", 2, FALSE)>>
OneTpPlan == <<Plan(1, "Buy", 2, TRUE)>>
TwinPlans == <<Plan(1, "Buy", 2, FALSE), Plan(1, "Buy", 2, FALSE)>>
TwoTickerPlans == <<Plan(1, "Buy", 2, FALSE), Plan(2, "Buy", 2, FALSE)>>
=============================================================================
