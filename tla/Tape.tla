-------------------------------- MODULE Tape --------------------------------
(* The tape of one ticker: TradeStream keeps the last trades in a ring and,  *)
(* for each window, the volumes bought and sold; FeatureExtractor and the    *)
(* controller's lazy tick make frames; TapeAnalyzer announces bursts, fades, *)
(* distributions and flushes; ChartHistory keeps what the dashboard draws.   *)
(*                                                                           *)
(* Every entry point runs under the mutex of the controller, so each is one  *)
(* step.  The unit of time is the half-life of the intensities, which are in *)
(* jumps and rounded down; the sums of TapeFade are in twentieths.  The      *)
(* background intensity, the 99th percentile and the dispersion of prices    *)
(* are free choices.                                                         *)
EXTENDS Integers, Sequences, FiniteSets
LOCAL INSTANCE FiniteSetsExt

CONSTANTS RingCap,    \* kMaxTrades
          ShortSpan, LongSpan, \* lengths of two of the windows of volumes
          Jump,       \* hawkes_alpha
          Gate, Alarm, \* fade_peak_gate, fade_cusum_h
          Horizon,    \* how long intensity_history_ looks back
          Volume,     \* distribution_min_volume_usd
          Cooldown,   \* flush_cooldown
          ChartCap,   \* ChartHistory::kCapacity
          TapePrices, MinMove, \* flush_min_move_bps, in ticks
          Strong, Calm, \* what the background and the dispersion may allow
          MaxNow, MaxMoves, MaxTape, MaxSum \* bounds: time, books, events, cusum

VARIABLES stream,   \* TradeStream: ring, head, count, tails, volumes, intensities
          tape,     \* TapeAnalyzer: samples, cusum, active signals, last mid
          mid,      \* mid of the book, 0 for none
          dirtyFlags, \* dirty_flags_
          frame,    \* last_frame_
          chart,    \* chart_history_
          tapeClock, moves,
          announced, \* the signals the last step published
          log,      \* history: every trade
          held,     \* history: the trades that the volumes of a window hold
          broken,   \* history: windows that a trade found empty in a full ring
          resynced  \* history: a snapshot moved the book since its last update

tapeVars == <<stream, tape, mid, dirtyFlags, frame, chart, tapeClock, moves, announced, log, held,
              broken, resynced>>

Span    == [short |-> ShortSpan, long |-> LongSpan]
Windows == DOMAIN Span
Takers  == {"Buy", "Sell"}
NoTrade == [side |-> "None", size |-> 0, at |-> 0]
Slot(i) == i % RingCap
Signed(t, s) == IF t.side = s THEN t.size ELSE 0

-----------------------------------------------------------------------------
(* TradeStream *)

\* The ring is full and the oldest trade of the window is the one to go.
TailEnds(w) == stream.count = RingCap /\ stream.tail[w] = stream.head

\* As Record, without taking the overwritten trade out of the volumes.
RecordOver(t) ==
    [stream EXCEPT
        !.ring[stream.head] = t,
        !.head  = Slot(@ + 1),
        !.count = IF @ = RingCap THEN @ ELSE @ + 1,
        !.tail  = [w \in Windows |-> IF TailEnds(w) THEN Slot(@[w] + 1) ELSE @[w]],
        !.vol   = [w \in Windows |-> [s \in Takers |-> @[w][s] + Signed(t, s)]],
        !.rate[t.side] = @ + Jump]

\* on_trade: the volumes gain the trade, and lose the one it overwrites.
Record(t) ==
    LET gone(w) == IF TailEnds(w) THEN stream.ring[stream.head] ELSE NoTrade
    IN  [stream EXCEPT
            !.ring[stream.head] = t,
            !.head  = Slot(@ + 1),
            !.count = IF @ = RingCap THEN @ ELSE @ + 1,
            !.tail  = [w \in Windows |-> IF TailEnds(w) THEN Slot(@[w] + 1) ELSE @[w]],
            !.vol   = [w \in Windows |->
                         [s \in Takers |-> @[w][s] + Signed(t, s) - Signed(gone(w), s)]],
            !.rate[t.side] = @ + Jump]

\* evict_expired_trades_: from the tail on, up to the first young trade; a
\* tail that meets the head ends the walk, whether the window is empty or full.
Walk(w) == Slot(stream.head - stream.tail[w])
Young(w, i) == tapeClock - stream.ring[Slot(stream.tail[w] + i)].at <= Span[w]
Expired(w) == Min({Walk(w)} \union {i \in 0..Walk(w) - 1 : Young(w, i)})

EvictExpiredTrades ==
    [stream EXCEPT
        !.tail = [w \in Windows |-> Slot(@[w] + Expired(w))],
        !.vol  = [w \in Windows |-> [s \in Takers |->
                    @[w][s] - MapThenSumSet(
                        LAMBDA i : Signed(stream.ring[Slot(stream.tail[w] + i)], s),
                                            0..Expired(w) - 1)]]]

\* update: the intensities decay since the last update, and trades expire.
UpdateStream ==
    [EvictExpiredTrades EXCEPT
        !.rate = [s \in Takers |-> @[s] \div (2 ^ (tapeClock - stream.touched))],
        !.touched = tapeClock]

-----------------------------------------------------------------------------
(* TapeAnalyzer *)

Signal(kind, rate, peak) == [kind |-> kind, rate |-> rate, peak |-> peak]

\* on_trade, after the stream has the trade: a large one away from the mid of
\* the last book update.
Flushes(t, price, outlier) ==
    /\ outlier
    /\ tape.mid > 0
    /\ (IF price > tape.mid THEN price - tape.mid ELSE tape.mid - price) >= MinMove
    /\ tape.flushAt # 0 => tapeClock - tape.flushAt >= Cooldown

Samples(rate) ==
    {s \in tape.samples \union {[at |-> tapeClock, rate |-> rate]} : tapeClock - s.at <= Horizon}

\* One side takes at least burst_ratio times the other, and the whole is
\* strong against the background, which is 0 until the first trade.
Bursts(buy, sell, strong) ==
    /\ buy >= 3 * sell \/ sell >= 3 * buy
    /\ IF buy + sell = 0 THEN log = <<>> ELSE strong

\* The sum grows by target - rate - drift: 0.2, 1 and 0.05 of the peak.
Cusum(rate, peak) ==
    LET s == tape.cusum + 3 * peak - 20 * rate
    IN  IF s < 0 THEN 0 ELSE IF s > MaxSum THEN MaxSum ELSE s

Fades(sum, peak) == sum >= 20 * Alarm /\ peak > Gate
Recovers(rate, peak) == 20 * rate > 6 * peak

\* on_frame of a valid frame.  A signal is announced when its condition
\* begins, and may be again when the condition has ended.
Analyze(strm, m, strong, calm) ==
    LET buy     == strm.rate["Buy"]
        sell    == strm.rate["Sell"]
        rate    == buy + sell
        samples == Samples(rate)
        peak    == Max({s.rate : s \in samples})
        sum     == Cusum(rate, peak)
        burst   == Bursts(buy, sell, strong)
        spread  == calm /\ \E w \in Windows :
                      /\ \A v \in Windows : Span[v] <= Span[w]
                      /\ strm.vol[w]["Buy"] + strm.vol[w]["Sell"] >= Volume
        settles == ~Fades(sum, peak) /\ Recovers(rate, peak)
    IN  /\ tape' = [tape EXCEPT
              !.samples = samples,
              !.cusum   = IF settles THEN 0 ELSE sum,
              !.burst   = burst,
              !.fade    = Fades(sum, peak) \/ (@ /\ ~settles),
              !.spread  = spread,
              !.mid     = IF @ = 0 THEN m ELSE @]
        /\ announced' =
              {Signal("TapeBurst", rate, peak) : x \in {b \in {burst} : b /\ ~tape.burst}}
                \union {Signal("TapeFade", rate, peak) :
                          x \in {f \in {Fades(sum, peak)} : f /\ ~tape.fade}}
                \union {Signal("TapeDistribution", rate, peak) :
                          x \in {d \in {spread} : d /\ ~tape.spread}}

-----------------------------------------------------------------------------
(* The controller *)

TapeTrade ==
    /\ Len(log) + moves < MaxTape
    /\ \E s \in Takers, price \in TapePrices, outlier \in BOOLEAN :
          LET t == [side |-> s, size |-> 1, at |-> tapeClock] IN
          /\ price # Min(TapePrices) => outlier
          /\ stream' = Record(t)
          /\ tape' = IF Flushes(t, price, outlier)
                     THEN [tape EXCEPT !.flushAt = tapeClock] ELSE tape
          /\ announced' = IF Flushes(t, price, outlier)
                          THEN {Signal("TapeFlush", 0, 0)} ELSE {}
          /\ log' = Append(log, t)
    /\ dirtyFlags' = TRUE
    /\ held' = [w \in Windows |-> IF TailEnds(w) /\ held[w] = RingCap THEN RingCap ELSE held[w] + 1]
    /\ broken' = broken \union {w \in Windows : TailEnds(w) /\ held[w] < RingCap}
    /\ UNCHANGED <<mid, frame, chart, tapeClock, moves, resynced>>

\* The book has the update before the detectors hear of it.
TapeUpdate ==
    /\ moves < MaxMoves /\ Len(log) + moves < MaxTape
    /\ moves' = moves + 1
    /\ \E m \in TapePrices \union {0} :
          /\ mid' = m
          /\ tape' = [tape EXCEPT !.mid = IF m > 0 THEN m ELSE @]
    /\ resynced' = FALSE
    /\ dirtyFlags' = TRUE /\ announced' = {}
    /\ UNCHANGED <<stream, frame, chart, tapeClock, log, held, broken>>

\* on_orderbook_snapshot tells no detector.
TapeSnapshot ==
    /\ moves < MaxMoves /\ Len(log) + moves < MaxTape
    /\ moves' = moves + 1
    /\ \E m \in TapePrices \ {mid} : mid' = m
    /\ resynced' = TRUE
    /\ dirtyFlags' = TRUE /\ announced' = {}
    /\ UNCHANGED <<stream, tape, frame, chart, tapeClock, log, held, broken>>

\* ChartHistory::push and snapshot.
PushOver(point) ==
    IF Len(chart.points) < ChartCap
    THEN [chart EXCEPT !.points = Append(@, point)]
    ELSE [chart EXCEPT !.points[chart.next + 1] = point]

PushChart(point) ==
    IF Len(chart.points) < ChartCap
    THEN [chart EXCEPT !.points = Append(@, point)]
    ELSE [chart EXCEPT !.points[chart.next + 1] = point, !.next = (@ + 1) % ChartCap]

ChartSnapshot ==
    IF Len(chart.points) < ChartCap THEN chart.points
    ELSE [i \in 1..ChartCap |-> chart.points[((chart.next + i - 1) % ChartCap) + 1]]

\* FeatureExtractor::extract.
Extract == [at |-> tapeClock, mid |-> mid, valid |-> mid > 0]

\* tick: nothing new makes no frame, unless the last one is too old.
TapeTick ==
    /\ stream' = UpdateStream
    /\ held' = [w \in Windows |-> held[w] - Expired(w)]
    /\ IF ~dirtyFlags /\ tapeClock = frame.at
       THEN announced' = {} /\ UNCHANGED <<tape, dirtyFlags, frame, chart>>
       ELSE /\ frame' = Extract
            /\ chart' = PushChart(Extract)
            /\ dirtyFlags' = FALSE
            /\ IF Extract.valid
               THEN \E strong \in Strong, calm \in Calm : Analyze(UpdateStream, mid, strong, calm)
               ELSE announced' = {} /\ UNCHANGED tape
    /\ UNCHANGED <<mid, tapeClock, moves, log, broken, resynced>>

TapeElapse ==
    /\ tapeClock < MaxNow /\ tapeClock' = tapeClock + 1
    /\ announced' = {}
    /\ UNCHANGED <<stream, tape, mid, dirtyFlags, frame, chart, moves, log, held, broken, resynced>>

TapeInit ==
    /\ stream = [ring |-> [i \in 0..RingCap - 1 |-> NoTrade], head |-> 0, count |-> 0,
                 tail |-> [w \in Windows |-> 0],
                 vol |-> [w \in Windows |-> [s \in Takers |-> 0]],
                 rate |-> [s \in Takers |-> 0], touched |-> 1]
    /\ tape = [samples |-> {}, cusum |-> 0, burst |-> FALSE, fade |-> FALSE,
               spread |-> FALSE, flushAt |-> 0, mid |-> 0]
    /\ mid = 0 /\ dirtyFlags = TRUE
    /\ frame = [at |-> 0, mid |-> 0, valid |-> FALSE]
    /\ chart = [points |-> <<>>, next |-> 0]
    /\ tapeClock = 1 /\ moves = 0 /\ announced = {} /\ log = <<>>
    /\ held = [w \in Windows |-> 0]
    /\ broken = {} /\ resynced = FALSE

TapeNext == TapeTrade \/ TapeUpdate \/ TapeSnapshot \/ TapeTick \/ TapeElapse

TapeSpec == TapeInit /\ [][TapeNext]_tapeVars

-----------------------------------------------------------------------------

\* Types; a tail and a head are slots of the ring.
TapeTypeOK ==
    /\ stream.head \in 0..RingCap - 1 /\ stream.count \in 0..RingCap
    /\ \A w \in Windows : stream.tail[w] \in 0..RingCap - 1 /\ held[w] \in 0..Len(log)
    /\ tape.cusum \in 0..MaxSum
    /\ mid \in TapePrices \union {0} /\ tape.mid \in TapePrices \union {0}
    /\ Len(chart.points) <= ChartCap

\* The trades of the ring that were young at the last update, or came since.
InWindow(w) ==
    {i \in 1..Len(log) : i > Len(log) - RingCap /\ stream.touched - log[i].at <= Span[w]}

\* The volumes of a window are those of its trades, through all that wraps
\* ("indices of the OLDEST trade still in window", TradeStream.hpp:60).
VolumesTrue(w) ==
    \A s \in Takers :
        stream.vol[w][s] = MapThenSumSet(LAMBDA i : Signed(log[i], s), InWindow(w))

\* A tail that meets the head of a full ring stays with it: nothing expires
\* any more.  It meets it when the window holds the whole ring, or when a
\* trade finds the window empty, which also takes the overwritten trade out
\* a second time.
Stuck(w) == w \in broken \/ (held[w] = RingCap /\ Cardinality(InWindow(w)) < RingCap)

WindowsExact == \A w \in Windows : VolumesTrue(w) \/ Stuck(w)

\* A flush is measured from the mid of the book as it is, unless a snapshot
\* has moved the book, which no detector hears of.
MidFollows == mid > 0 /\ ~resynced => tape.mid \in {0, mid}

\* The dashboard draws points in the order of their frames, up to the last.
ChartInOrder ==
    LET c == ChartSnapshot IN
    /\ \A i, j \in DOMAIN c : i < j => c[i].at <= c[j].at
    /\ c # <<>> => c[Len(c)] = frame

\* What the tape's consumers read is what was traded.
TapeExact == WindowsExact /\ MidFollows /\ ChartInOrder
=============================================================================
