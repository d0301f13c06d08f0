-------------------------------- MODULE Leader --------------------------------
(* How a ticker follows its leader: the processor makes frames of both       *)
(* tickers and hands the leader's on; LeaderSignal keeps a history of each   *)
(* in a CircularBuffer and announces a move that the follower has not made;  *)
(* FeatureExtractor measures the changes of the follower's own price.        *)
(*                                                                           *)
(* The rate of frames follows the steady clock, their time is the system     *)
(* clock, which may be set back.  A controller's entry point runs under its  *)
(* mutex and is one step; between two of them the main thread may deliver a  *)
(* snapshot.  The correlation that LeaderTracker knows is a free choice.     *)
EXTENDS Integers, Sequences, FiniteSets
LOCAL INSTANCE FiniteSetsExt

CONSTANTS HistCap,    \* N of the CircularBuffers
          MidCap,     \* reserve_history
          Warm,       \* the 50 samples a history needs
          Back,       \* the 5 s over which a move is measured
          NearWindow, FarWindow, \* two of the windows of price changes; the last one ends the scan
          Refresh,    \* 500 ms, after which a frame is made anew
          Interval,   \* 1 / feature_rate_hz
          MoveMin, LagMin, \* move_min_pct, lag_min_pct
          Corrs,      \* correlations that reach min_correlation
          LeaderQuotes,    \* mids the books may get; 0 is none yet
          MaxBack,    \* bound: how far the system clock is set back, once
          MaxLeadTime, MaxSteps \* bounds: time, messages

VARIABLES book_mid,   \* of each ticker
          ctrl_state, \* last_frame_, dirty_flags_, last_extract_ of each controller
          processing, \* what the processor is about to do
          nextEmit,   \* next_emit_ns
          leaderHist, ourHist, \* leader_history_, our_history_
          midHist,    \* mid_history_
          measuredFrom,   \* where the last frame measures its price changes from
          move,       \* the signal of the last step
          leadClock,  \* the steady clock
          setBack,    \* how far the system clock is behind it
          steps,
          pushed      \* history: all samples each history was given

leadVars == <<book_mid, ctrl_state, processing, nextEmit, leaderHist, ourHist, midHist,
              measuredFrom, move, leadClock, setBack, steps, pushed>>

Pair == {"leader", "follower"}
NoFrame == [at |-> 0, mid |-> 0]
NoMove == [now |-> 0]
AtRest == [stage |-> "idle"]
Wall == leadClock - setBack      \* the system clock
Reach == [near |-> NearWindow, far |-> FarWindow]

-----------------------------------------------------------------------------
(* CircularBuffer *)

EmptyRing == [data |-> [i \in 0..HistCap - 1 |-> NoFrame], head |-> 0, tail |-> 0, size |-> 0]

PushBack(r, x) ==
    [r EXCEPT !.data[r.head] = x,
              !.head = (@ + 1) % HistCap,
              !.size = IF @ < HistCap THEN @ + 1 ELSE @,
              !.tail = IF r.size < HistCap THEN @ ELSE (@ + 1) % HistCap]

SampleAt(r, i) == r.data[(r.tail + i) % HistCap]
NewestSample(r) == r.data[(r.head + HistCap - 1) % HistCap]

-----------------------------------------------------------------------------
(* LeaderSignal *)

\* The binary search of get_move for the last sample at or before a time, -1
\* for none.
SearchBefore(r, time) ==
    LET f[low \in 0..HistCap, high \in -1..HistCap, best \in -1..HistCap] ==
            IF low > high THEN best
            ELSE LET mid == low + (high - low) \div 2
                 IN  IF SampleAt(r, mid).at <= time
                     THEN f[mid + 1, high, mid] ELSE f[low, mid - 1, best]
    IN  f[0, r.size - 1, -1]

\* Where a move of a history is measured from: the oldest sample if none is
\* old enough.
Since(r, now) == Max({0, SearchBefore(r, now - Back)})

Pct(from, to) == IF from = 0 \/ to = 0 THEN 0 ELSE ((to - from) * 100) \div from

\* check_signal_
Announced(theirs, ours, now, corr) ==
    LET base  == Since(theirs, now)
        start == Since(ours, now)
        led   == Pct(SampleAt(theirs, base).mid, NewestSample(theirs).mid)
        own   == Pct(SampleAt(ours, start).mid, NewestSample(ours).mid)
        lag   == led * corr - own
        Size(n) == IF n < 0 THEN -n ELSE n
    IN  IF theirs.size >= Warm /\ ours.size >= Warm /\ Size(led) >= MoveMin /\ Size(lag) >= LagMin
        THEN [now |-> now, base |-> base, start |-> start,
              theirs |-> NewestSample(theirs), lag |-> lag]
        ELSE NoMove

-----------------------------------------------------------------------------
(* FeatureExtractor *)

EmptyMids == [data |-> [i \in 0..MidCap - 1 |-> NoFrame], head |-> 0, count |-> 0]

\* As PutMid, a frame without a mid included.
PutAnyMid(h, x) ==
    [h EXCEPT !.data[h.head] = x, !.head = (@ + 1) % MidCap,
              !.count = IF @ < MidCap THEN @ + 1 ELSE @]

PutMid(h, x) ==
    IF x.mid = 0 THEN h
    ELSE [h EXCEPT !.data[h.head] = x, !.head = (@ + 1) % MidCap,
                   !.count = IF @ < MidCap THEN @ + 1 ELSE @]

\* Backwards from the newest, until a sample is older than the longest window:
\* the last one seen within the window, else the oldest kept.
MidAt(h, i) == h.data[(h.head + MidCap - 1 - i) % MidCap]
ScanEnd(h, now) == Min({i \in 1..h.count - 1 : MidAt(h, i).at < now - FarWindow} \union {h.count})
ChangeFrom(h, now, w) ==
    LET seen == {i \in 1..ScanEnd(h, now) - 1 : MidAt(h, i).at >= now - Reach[w]}
    IN  IF seen = {} THEN h.data[(h.head + MidCap - h.count) % MidCap] ELSE MidAt(h, Max(seen))

-----------------------------------------------------------------------------
(* The controllers *)

\* tick makes a frame if something is new, or the last one is too old.
Renews(x, now) == ctrl_state[x].dirty \/ now - ctrl_state[x].extracted > Refresh

Extracted(x, now) ==
    IF Renews(x, now)
    THEN [frame |-> [at |-> now, mid |-> book_mid[x]], dirty |-> FALSE, extracted |-> now]
    ELSE ctrl_state[x]

TickLeader(now) ==
    /\ ctrl_state' = [ctrl_state EXCEPT !["leader"] = Extracted("leader", now)]
    /\ move' = NoMove
    /\ UNCHANGED <<ourHist, midHist, measuredFrom, pushed>>

\* A fresh frame of the follower reaches its detectors, LeaderSignal by
\* on_frame; it asks nothing of the histories when there is no mid.
TickFollower(now) ==
    LET frame == Extracted("follower", now).frame IN
    /\ ctrl_state' = [ctrl_state EXCEPT !["follower"] = Extracted("follower", now)]
    /\ IF Renews("follower", now)
       THEN /\ midHist' = PutMid(midHist, frame)
            /\ measuredFrom' = [w \in DOMAIN Reach |-> ChangeFrom(midHist', now, w)]
       ELSE UNCHANGED <<midHist, measuredFrom>>
    /\ IF Renews("follower", now) /\ frame.mid > 0
       THEN /\ ourHist' = PushBack(ourHist, frame)
            /\ pushed' = [pushed EXCEPT !.follower = Append(@, frame)]
            /\ \E corr \in Corrs : move' = Announced(leaderHist, ourHist', now, corr)
       ELSE move' = NoMove /\ UNCHANGED <<ourHist, pushed>>

\* on_leader_frame, of the controller and of LeaderSignal.
OnLeaderFrame(frame) ==
    /\ IF frame.mid > 0
       THEN /\ leaderHist' = PushBack(leaderHist, frame)
            /\ pushed' = [pushed EXCEPT !.leader = Append(@, frame)]
       ELSE UNCHANGED <<leaderHist, pushed>>
    /\ move' = NoMove

-----------------------------------------------------------------------------
(* The threads *)

\* handle_orderbook_update_ and handle_trade_update_ end with a frame, if the
\* rate allows it.
Emit(x) ==
    IF leadClock < nextEmit[x] THEN UNCHANGED <<processing, nextEmit>>
    ELSE /\ processing' = [stage |-> "tick", who |-> x]
         /\ nextEmit' = [nextEmit EXCEPT ![x] = leadClock + Interval]

ProcessBook(x, m) ==
    /\ book_mid' = [book_mid EXCEPT ![x] = m]
    /\ ctrl_state' = [ctrl_state EXCEPT ![x].dirty = TRUE]
    /\ Emit(x)

\* A message without a trade whose side is read makes nothing new, but asks
\* for a frame.
ProcessTrades(x) ==
    /\ \E new \in BOOLEAN : ctrl_state' = [ctrl_state EXCEPT ![x].dirty = @ \/ new]
    /\ Emit(x) /\ UNCHANGED book_mid

ProcessMessage ==
    /\ processing = AtRest /\ steps < MaxSteps
    /\ \E x \in Pair : ProcessTrades(x) \/ \E m \in LeaderQuotes : ProcessBook(x, m)
    /\ steps' = steps + 1 /\ move' = NoMove
    /\ UNCHANGED <<leaderHist, ourHist, midHist, measuredFrom, leadClock, setBack, pushed>>

\* trigger_feature_extraction_: a frame of the leader goes to the others,
\* one that tick returned before as well.
MakeFrame ==
    /\ processing.stage = "tick"
    /\ IF processing.who = "leader"
       THEN /\ TickLeader(Wall)
            /\ processing' = [stage |-> "hand", frame |-> ctrl_state'["leader"].frame]
       ELSE TickFollower(Wall) /\ processing' = AtRest
    /\ UNCHANGED <<book_mid, nextEmit, leaderHist, leadClock, setBack, steps>>

HandOn ==
    /\ processing.stage = "hand"
    /\ OnLeaderFrame(processing.frame)
    /\ processing' = AtRest
    /\ UNCHANGED <<book_mid, ctrl_state, nextEmit, ourHist, midHist, measuredFrom, leadClock,
                   setBack, steps>>

\* on_orderbook_snapshot, on the main thread.
LeaderSnapshot ==
    /\ steps < MaxSteps
    /\ \E x \in Pair, m \in LeaderQuotes :
          /\ book_mid' = [book_mid EXCEPT ![x] = m]
          /\ ctrl_state' = [ctrl_state EXCEPT ![x].dirty = TRUE]
    /\ steps' = steps + 1 /\ move' = NoMove
    /\ UNCHANGED <<processing, nextEmit, leaderHist, ourHist, midHist, measuredFrom, leadClock,
                   setBack, pushed>>

\* Time passes, or the system clock is set back.  (A message takes less than a
\* tick.)
TimeGoesOn ==
    /\ processing = AtRest
    /\ \/ leadClock < MaxLeadTime /\ leadClock' = leadClock + 1 /\ UNCHANGED setBack
       \/ setBack = 0 /\ setBack' = MaxBack /\ UNCHANGED leadClock
    /\ move' = NoMove
    /\ UNCHANGED <<book_mid, ctrl_state, processing, nextEmit, leaderHist, ourHist, midHist,
                   measuredFrom, steps, pushed>>

LeaderInit ==
    /\ book_mid = [x \in Pair |-> 0]
    /\ ctrl_state = [x \in Pair |-> [frame |-> NoFrame, dirty |-> TRUE, extracted |-> 0]]
    /\ processing = AtRest
    /\ nextEmit = [x \in Pair |-> 0]
    /\ leaderHist = EmptyRing /\ ourHist = EmptyRing /\ midHist = EmptyMids
    /\ measuredFrom = [w \in DOMAIN Reach |-> NoFrame]
    /\ move = NoMove /\ leadClock = 1 + MaxBack /\ setBack = 0 /\ steps = 0
    /\ pushed = [x \in Pair |-> <<>>]

LeaderNext == ProcessMessage \/ MakeFrame \/ HandOn \/ LeaderSnapshot \/ TimeGoesOn

LeaderSpec == LeaderInit /\ [][LeaderNext]_leadVars

-----------------------------------------------------------------------------

\* The last n of a sequence.
Latest(s, n) == SubSeq(s, Max({1, Len(s) - n + 1}), Len(s))

\* The histories hold the last samples they were given, whatever wrapped.
HistoriesKept ==
    \A p \in {<<leaderHist, pushed.leader>>, <<ourHist, pushed.follower>>} :
        /\ p[1].size = Len(Latest(p[2], HistCap))
        /\ \A i \in 1..p[1].size : SampleAt(p[1], i - 1) = Latest(p[2], HistCap)[i]

\* Frames come as they are made: none is younger than one after it by more
\* than the clock was set back.
NearlyInOrder(s) == \A i, j \in DOMAIN s : i < j => s[i].at - s[j].at <= setBack

\* A move is measured over the five seconds it is said to be: from the last
\* sample before them and its successor within, or from the oldest one when
\* all are younger.  A sample before them that came later is hardly older than
\* they are.
MeasuredFrom(kept, b, now) ==
    /\ \/ kept[b].at <= now - Back /\ (b < Len(kept) => kept[b + 1].at > now - Back)
       \/ b = 1 /\ kept[b].at > now - Back
    /\ \A j \in b + 1..Len(kept) : kept[j].at <= now - Back => kept[j].at >= now - Back - setBack

\* A price change of a frame with a mid is measured from the first of the kept
\* mids that its window saw, counting back to the last gap.
ChangesMeasured ==
    LET kept == Latest(pushed.follower, MidCap)
        now  == ctrl_state["follower"].frame.at
        old  == {i \in 1..Len(kept) - 1 : kept[i].at < now - FarWindow}
        seen(w) == {i \in 1..Len(kept) - 1 : kept[i].at >= now - Reach[w]
                                              /\ \A j \in old : j < i}
    IN  ctrl_state["follower"].frame.mid > 0 =>
            \A w \in DOMAIN Reach :
                measuredFrom[w] = kept[IF seen(w) = {} THEN 1 ELSE Min(seen(w))]

\* What the strategies are told of the leader is what happened in time, with
\* frames handed on twice, frames without a mid and a clock that is set back:
\* the histories lose nothing, hold samples nearly in order, and a binary
\* search in them finds the right one.
LeaderMeasured ==
    /\ HistoriesKept
    /\ NearlyInOrder(pushed.leader) /\ NearlyInOrder(pushed.follower)
    /\ ChangesMeasured
    /\ move # NoMove =>
          /\ MeasuredFrom(Latest(pushed.leader, HistCap), move.base + 1, move.now)
          /\ MeasuredFrom(Latest(pushed.follower, HistCap), move.start + 1, move.now)
          /\ move.theirs = pushed.leader[Len(pushed.leader)]
=============================================================================
