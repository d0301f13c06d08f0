------------------------------ MODULE Icebergs ------------------------------
(* IcebergDetector of one ticker: trades are kept for a while, and each      *)
(* update of a level is joined with the trades that may explain it.  A level *)
(* that stays although it was traded through gains evidence, and is          *)
(* announced once there is enough of it.                                     *)
(*                                                                           *)
(* Every handler runs under the mutex of the controller.  Prices are ticks   *)
(* and the dollar value is the size.  A refill multiplies the odds of an     *)
(* iceberg by 0.85/0.10 and anything else by 0.15/0.90, so the counts of     *)
(* both are kept instead of the posterior; the clamps at 0.0001 and 0.9999   *)
(* lie beyond the counts of a run.                                           *)
EXTENDS Integers, Sequences, FiniteSetsExt

CONSTANTS IceTicks,    \* ticks of the book
          IceSizes,    \* sizes of levels, 0 for a removed one
          JoinWindow,        \* event_join_window
          MinEaten,    \* calibrated minimum, as a volume
          PruneEvery, Stale, \* a minute and five, in on_frame
          MaxIceTime, MaxPrints, MaxIceUpdates, MaxIce \* bounds

ASSUME IcebergsAssumption ==
    /\ IceSizes \subseteq Nat
    /\ {JoinWindow, MinEaten, PruneEvery, Stale, MaxIceTime, MaxPrints, MaxIceUpdates, MaxIce} \subseteq Nat

VARIABLES shown,     \* last_sizes_, -1 where there is none
          evidence,  \* levels_
          prints,    \* trade_history_
          pruned,    \* last_prune_
          hour,
          updates,   \* updates so far
          suspected, \* the levels the last step announced
          matched    \* history: how often each trade was joined with an update

iceVars == <<shown, evidence, prints, pruned, hour, updates, suspected, matched>>

Aggressors == {"Buy", "Sell"}
NoEvidence == [refills |-> 0, misses |-> 0, eaten |-> 0, last |-> 0, emitted |-> FALSE]

\* 8.5^refills / 6^misses / 19 is at least 4, the odds of the posterior 0.80.
Likely(e) == 17 ^ e.refills >= 76 * (2 ^ e.refills) * (6 ^ e.misses)

\* As Joined, at any price.
JoinedAnywhere(t, s) ==
    {i \in DOMAIN prints : prints[i].side # s /\ hour - prints[i].at <= JoinWindow}

\* The trades that an update may be due to: at its tick, against its side,
\* and within the join window.
Joined(t, s) ==
    {i \in DOMAIN prints :
        /\ prints[i].tick = t
        /\ prints[i].side # s
        /\ hour - prints[i].at <= JoinWindow}

Volumes == [i \in DOMAIN prints |-> prints[i].size]
Traded(is) == MapThenSumSet(LAMBDA i : Volumes[i], is)

\* The level stayed although more was traded than it shows less.
IsRefill(volume, before, after) ==
    /\ volume > before - after
    /\ 2 * after >= IF before > 0 THEN before ELSE after

\* process_refill_, up to the announcement.
Counted(e, volume, before, after) ==
    IF IsRefill(volume, before, after)
    THEN [e EXCEPT !.refills = @ + 1, !.eaten = @ + volume, !.last = hour]
    ELSE [e EXCEPT !.misses = @ + 1]

Suspicious(e) == Likely(e) /\ ~e.emitted /\ e.eaten >= MinEaten

\* on_book_update with one level set to a size.
IcebergUpdate ==
    /\ updates < MaxIceUpdates /\ updates + Len(prints) < MaxIce
    /\ updates' = updates + 1
    /\ \E t \in IceTicks, s \in Aggressors, after \in IceSizes :
          LET before == shown[t]
              volume == Traded(Joined(t, s))
              e      == Counted(evidence[t], volume, before, after)
              joins  == before >= 0 /\ volume > 0 /\ (before > 0 \/ after > 0)
          IN  /\ shown' = [shown EXCEPT ![t] = after]
              /\ evidence' = IF joins
                             THEN [evidence EXCEPT ![t] = [e EXCEPT !.emitted = @ \/ Suspicious(e)]]
                             ELSE evidence
              /\ suspected' = IF joins /\ Suspicious(e) THEN {t} ELSE {}
              /\ matched' = [i \in DOMAIN prints |->
                    IF before >= 0 /\ i \in Joined(t, s) THEN matched[i] + 1 ELSE matched[i]]
    /\ UNCHANGED <<prints, pruned, hour>>

\* on_trade.
IcebergTrade ==
    /\ Len(prints) < MaxPrints /\ updates + Len(prints) < MaxIce
    /\ \E t \in IceTicks, s \in Aggressors :
          prints' = Append(prints, [tick |-> t, side |-> s, size |-> 1, at |-> hour])
    /\ matched' = Append(matched, 0)
    /\ suspected' = {}
    /\ UNCHANGED <<shown, evidence, pruned, hour, updates>>

\* on_frame forgets levels without a refill for long, the announced too.
IcebergFrame ==
    /\ \E t \in IceTicks : evidence[t] # NoEvidence
    /\ hour - pruned > PruneEvery
    /\ pruned' = hour
    /\ evidence' = [t \in IceTicks |->
          IF hour - evidence[t].last > Stale THEN NoEvidence ELSE evidence[t]]
    /\ suspected' = {}
    /\ UNCHANGED <<shown, prints, hour, updates, matched>>

IcebergClock ==
    /\ hour < MaxIceTime /\ hour' = hour + 1
    /\ suspected' = {}
    /\ UNCHANGED <<shown, evidence, prints, pruned, updates, matched>>

IcebergsInit ==
    /\ shown = [t \in IceTicks |-> -1]
    /\ evidence = [t \in IceTicks |-> NoEvidence]
    /\ prints = <<>> /\ matched = <<>>
    /\ pruned = 1 /\ hour = 1 /\ updates = 0
    /\ suspected = {}

IcebergsNext == IcebergUpdate \/ IcebergTrade \/ IcebergFrame \/ IcebergClock

IcebergsSpec == IcebergsInit /\ [][IcebergsNext]_iceVars

-----------------------------------------------------------------------------

\* Types of the detector.
IcebergsTypeOK ==
    /\ shown \in [IceTicks -> IceSizes \union {-1}]
    /\ \A t \in IceTicks :
          /\ evidence[t].refills \in 0..updates /\ evidence[t].misses \in 0..updates
          /\ evidence[t].last \in 0..hour
    /\ Len(matched) = Len(prints)

\* What a level is said to have swallowed was traded there, as long as no
\* trade was counted with two updates; so an iceberg is announced only where
\* at least the minimum was traded.  (Each update within the join window
\* counts the same trades again.)
EatenWasTraded ==
    \A t \in IceTicks :
        LET there == {i \in DOMAIN prints : prints[i].tick = t} IN
        (\A i \in there : matched[i] <= 1) =>
            /\ evidence[t].eaten <= Traded(there)
            /\ t \in suspected => Traded(there) >= MinEaten
=============================================================================
