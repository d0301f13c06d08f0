------------------------------ MODULE ClockDrift ------------------------------
(* ClockDriftMonitor and SntpClient: a thread asks time servers in turn how  *)
(* far the local clock is off, keeps the last answers and calls a handler,   *)
(* which is to stop trading, when their average is too large.                *)
(*                                                                           *)
(* A poll is one step: only the handler can change while it waits, as the    *)
(* clock is not set under way.  An answer carries the server's seconds in a  *)
(* field that wraps around; the local clock is never further off than half   *)
(* of what the field holds.                                                  *)
EXTENDS Integers, FiniteSetsExt

CONSTANTS WindowSize,         \* moving_avg_window
          WarnDrift, MaxDrift, \* warn_drift_ms, max_clock_drift_ms
          Timeout,            \* query_timeout, even
          Sources,            \* 1..n: the servers, in the order they are asked
          Era,                \* 2^32 seconds: what the seconds field holds
          Moments,            \* true times, since the field first began
          Offsets, Delays     \* how far the clock is off, how long a datagram takes

ASSUME DriftAssumption ==
    /\ WindowSize \in Nat \ {0} /\ {WarnDrift, MaxDrift} \subseteq Nat
    /\ Timeout \in Nat /\ Timeout % 2 = 0 /\ Era \in Nat \ {0} /\ Era % 2 = 0
    /\ Sources \subseteq Nat /\ Offsets \subseteq Int /\ Delays \subseteq Nat /\ Moments \subseteq Nat
    \* 1968 to 2104
    /\ \A m \in Moments, d \in Delays : Era \div 2 <= m + d /\ m + d < Era + Era \div 2

VARIABLES running,   \* running_: the thread polls
          handler,   \* kill_cb_ is set
          samples, next_slot, \* window_, window_idx_
          average,   \* drift_ms_
          triggered, \* kill_triggered_
          offset,    \* how far the local clock is off
          moment,    \* the true time
          truth,     \* history: how far it was off when a slot was written
          kills,     \* history: calls of the handler since the last calm poll
          polled     \* history: the last step judged an answer

driftVars == <<running, handler, samples, next_slot, average, triggered, offset, moment, truth,
               kills, polled>>

Slots == 0..WindowSize - 1
Magnitude(i) == IF i < 0 THEN -i ELSE i

\* Division of integers in C++ goes towards zero.
Quotient(a, b) == IF a < 0 THEN -((-a) \div b) ELSE a \div b

-----------------------------------------------------------------------------
(* SntpClient::query *)

\* Seconds whose upper bit is clear are of the next era.
Seconds1900(raw) == IF raw >= Era \div 2 THEN raw ELSE raw + Era

NoAnswer == [answered |-> FALSE, sample |-> 0]

\* As Query, without half of the round trip.
QueryAsSent(there, back) ==
    IF there + back > Timeout THEN NoAnswer
    ELSE [answered |-> TRUE,
          sample |-> (moment + offset + there + back) - Seconds1900((moment + there) % Era)]

\* The server's time when it answered, and half of the round trip; local minus
\* that is the sample of tick_once.  Late, short and failed answers are none.
Query(there, back) ==
    IF there + back > Timeout THEN NoAnswer
    ELSE [answered |-> TRUE,
          sample |-> (moment + offset + there + back)
                        - (Seconds1900((moment + there) % Era) + (there + back) \div 2)]

-----------------------------------------------------------------------------
(* ClockDriftMonitor *)

\* The first source that answers is believed.
FirstAnswer(answers) ==
    LET good == {s \in Sources : answers[s].answered}
    IN  IF good = {} THEN NoAnswer ELSE answers[Min(good)]

\* update_average_: the slots not written yet count as 0.
Average(w) == Quotient(MapThenSumSet(LAMBDA i : w[i], Slots), WindowSize)

\* evaluate_thresholds_locked_: the handler is called once, and again only
\* after a poll below the warning.
Evaluate(drift) ==
    \/ /\ Magnitude(drift) >= MaxDrift
       /\ triggered' = (triggered \/ handler)
       /\ kills' = IF handler /\ ~triggered THEN kills + 1 ELSE kills
    \/ /\ Magnitude(drift) < MaxDrift /\ Magnitude(drift) >= WarnDrift
       /\ UNCHANGED <<triggered, kills>>
    \/ /\ Magnitude(drift) < MaxDrift /\ Magnitude(drift) < WarnDrift
       /\ triggered' = FALSE /\ kills' = 0

\* tick_once: without an answer nothing is judged.
Poll ==
    /\ running
    /\ \E there, back \in [Sources -> Delays] :
          LET answer == FirstAnswer([s \in Sources |-> Query(there[s], back[s])])
              w == [samples EXCEPT ![next_slot] = answer.sample]
          IN  IF answer.answered
              THEN /\ samples' = w
                   /\ next_slot' = (next_slot + 1) % WindowSize
                   /\ average' = Average(w)
                   /\ Evaluate(Average(w))
                   /\ truth' = [truth EXCEPT ![next_slot] = offset]
                   /\ polled' = TRUE
              ELSE /\ polled' = FALSE
                   /\ UNCHANGED <<samples, next_slot, average, triggered, truth, kills>>
    /\ UNCHANGED <<running, handler, offset, moment>>

\* start and stop do nothing when it is done already.
StartMonitor ==
    /\ running' = TRUE /\ polled' = FALSE
    /\ UNCHANGED <<handler, samples, next_slot, average, triggered, offset, moment, truth, kills>>

StopMonitor ==
    /\ running' = FALSE /\ polled' = FALSE
    /\ UNCHANGED <<handler, samples, next_slot, average, triggered, offset, moment, truth, kills>>

SetKillSwitch ==
    /\ handler' = TRUE /\ polled' = FALSE
    /\ UNCHANGED <<running, samples, next_slot, average, triggered, offset, moment, truth, kills>>

\* The clock is set, or drifts, and time passes, between two polls.
ClockMoves ==
    /\ offset' \in Offsets /\ moment' \in Moments /\ moment' >= moment
    /\ polled' = FALSE
    /\ UNCHANGED <<running, handler, samples, next_slot, average, triggered, truth, kills>>

DriftInit ==
    /\ running = FALSE /\ handler = FALSE
    /\ samples = [i \in Slots |-> 0] /\ truth = samples
    /\ next_slot = 0 /\ average = 0 /\ triggered = FALSE
    /\ offset \in Offsets /\ moment \in Moments
    /\ kills = 0 /\ polled = FALSE

DriftNext == Poll \/ StartMonitor \/ StopMonitor \/ SetKillSwitch \/ ClockMoves

DriftSpec == DriftInit /\ [][DriftNext]_driftVars

-----------------------------------------------------------------------------

\* Types; the average is that of the window.
DriftTypeOK ==
    /\ samples \in [Slots -> Int] /\ truth \in [Slots -> Offsets \union {0}]
    /\ next_slot \in Slots /\ triggered \in BOOLEAN /\ kills \in Nat
    /\ average = Average(samples)

\* A sample errs by half of the slowest round trip at most.
Error == Timeout \div 2

\* The handler is called for a clock that is off, and only for one: never if
\* the clock was right by all answers that count, however uneven the ways of
\* their datagrams and whatever era their seconds are of; and after a window
\* of answers that found it off on one side by more than an answer may err, it
\* has been.  While the clock stays wrong it is called once.
DriftJudged ==
    /\ kills <= 1
    /\ triggered /\ polled /\ Magnitude(average) >= MaxDrift =>
          \E i \in Slots : Magnitude(truth[i]) >= MaxDrift - Error
    /\ polled /\ handler
          /\ (\/ \A i \in Slots : truth[i] >= MaxDrift + Error
              \/ \A i \in Slots : truth[i] <= -(MaxDrift + Error))
       => triggered /\ kills = 1
    /\ triggered => handler
=============================================================================
