-------------------------- MODULE MCExecutorShown --------------------------
(* Instances for TLC of the executor with two tickers and no failing call,   *)
(* of the strategies whose plans it is given, and of the dashboard that      *)
(* shows it.  Strategies chooses freely what becomes of an accepted plan,    *)
(* and Dashboard has the number of a tick for the trades and figures that it *)
(* reads, so they are checked side by side: part names the one that takes    *)
(* steps.                                                                    *)
EXTENDS MCLiveExecutor, Strategies, Dashboard

VARIABLE part

\* What a long bounce and a leader plan need, and what speaks against them.
Heard(kind, dir) == [kind |-> kind, dir |-> dir]
BounceAndLag == {Heard("LevelApproach", 0), Heard("DensityDetected", 1), Heard("TapeFade", 0),
                 Heard("DensityRemoved", 1), Heard("LeaderMove", 1)}
Two == {"Bounce", "LeaderLag"}
AllTwo == {Two}
Timeouts == [s \in Strategies |-> 1]

ShownInit ==
    /\ part \in {"executor", "strategies", "dashboard"}
    /\ Init /\ StrategiesInit /\ DashInit
    /\ part # "dashboard" => \A c \in Clients : view[c].format = "json"

ShownNext ==
    \/ part = "executor" /\ Next /\ UNCHANGED <<part, strategyVars, dashVars>>
    \/ part = "strategies" /\ StrategiesNext /\ UNCHANGED <<part, vars, dashVars>>
    \/ part = "dashboard" /\ DashNext /\ UNCHANGED <<part, vars, strategyVars>>

ShownSpec == ShownInit /\ [][ShownNext]_<<part, vars, strategyVars, dashVars>>
=============================================================================
