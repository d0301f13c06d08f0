------------------------------ MODULE Densities ------------------------------
(* DensityDetector of one ticker and the order book it watches: large levels *)
(* are tracked by their tick, announced when they stood long enough, eaten   *)
(* by trades, removed by the book's updates, and joined into stacks.         *)
(*                                                                           *)
(* Every handler runs under the mutex of the ticker's controller, so each is *)
(* one step.  A price is a tick and its dollar value is its size: the limits *)
(* of size and distance are kept, the running average of sizes becomes the   *)
(* free choice of a threshold.                                               *)
EXTENDS Integers, FiniteSets, Sequences
LOCAL INSTANCE FiniteSetsExt
LOCAL INSTANCE SequencesExt

CONSTANTS Ticks,        \* ticks of the book
          MaxSize,      \* largest size of a level
          Thresholds,   \* smallest size of a density: values the average may give
          MinDist, MaxDist, \* min_ and max_distance_bps, in half ticks from the mid
          Sticky,       \* sticky_duration
          Fake,         \* fake_threshold
          Window,       \* eating_window
          MinPrints,    \* eating_min_prints
          StackLevels, StackWidth, StackSize, \* stack_min_levels, _max_width_bps, _min_size_usd
          Start,        \* the book the controller starts with
          Moving,       \* bound: ticks whose level changes
          MaxTime, MaxUpdates, MaxTrades, MaxResyncs, MaxActs \* bounds

VARIABLES book,     \* OrderBook: side and size of every tick
          tracked,  \* tracked_
          stack,    \* last_stack_
          now, marketActs,
          out,      \* the signals the last step published
          since,    \* history: when the level last appeared or was set to no less
          vol,      \* history: what was traded against the level since its last message
          unseen    \* history: ticks whose level changed without the detector taking it over

densityVars == <<book, tracked, stack, now, marketActs, out, since, vol, unseen>>

Sides    == {"Bid", "Ask"}
Empty    == [side |-> "none", size |-> 0]
Levels   == {Empty} \union [side : Sides, size : 1..MaxSize]
OtherSide(s) == IF s = "Bid" THEN "Ask" ELSE "Bid"
NoStack  == [side |-> "none", first |-> 0, last |-> 0, size |-> 0]
Untracked == [side |-> "none"]
Tracked(t) == tracked[t] # Untracked

Bids(b) == {t \in Ticks : b[t].side = "Bid"}
Asks(b) == {t \in Ticks : b[t].side = "Ask"}
HasMid(b) == Bids(b) # {} /\ Asks(b) # {}
\* Distance to the mid, in half ticks.
Distance(b, t) == LET d == 2 * t - Max(Bids(b)) - Min(Asks(b)) IN IF d < 0 THEN -d ELSE d

Books == {b \in [Ticks -> Levels] : \A p \in Bids(b), q \in Asks(b) : p < q}

-----------------------------------------------------------------------------
(* on_book_update *)

SetLevel(b, c) ==
    [t \in Ticks |->
        CASE t = c.tick -> IF c.size > 0 THEN [side |-> c.side, size |-> c.size]
                           ELSE IF b[t].side = c.side THEN Empty ELSE b[t]
          [] c.size > 0 /\ c.side = "Bid" /\ b[t].side = "Ask" /\ t < c.tick -> Empty
          [] c.size > 0 /\ c.side = "Ask" /\ b[t].side = "Bid" /\ t > c.tick -> Empty
          [] OTHER -> b[t]]

RemovedTicks(u) == {c.tick : c \in {d \in ToSet(u) : d.size = 0}}

\* As ForgetRemoved, but only when the book has a mid.
ForgetWithAMid(tr, u) ==
    [t \in Ticks |-> IF t \in RemovedTicks(u) /\ HasMid(FoldLeft(SetLevel, book, u))
                     THEN Untracked ELSE tr[t]]

\* Pass 1 needs no mid: a removed level is forgotten, whatever its side.
ForgetRemoved(tr, u) == [t \in Ticks |-> IF t \in RemovedTicks(u) THEN Untracked ELSE tr[t]]

RemovedSignals(u) ==
    {[kind |-> "DensityRemoved", tick |-> t, fake |-> now - tracked[t].first_seen < Fake] :
        t \in {s \in RemovedTicks(u) : Tracked(s)}}

Qualifies(b, c, threshold) ==
    /\ c.size >= threshold
    /\ Distance(b, c.tick) \in MinDist..MaxDist

NewLevel(c) ==
    [side |-> c.side, size |-> c.size, first_seen |-> now, emitted |-> FALSE,
     eaten |-> 0, prints |-> 0, hit |-> 0, eating |-> FALSE]

\* A level set to no less than its size starts anew; a smaller one only
\* starts a new count of what is eaten.
Resize(m, size) ==
    IF size >= m.size
    THEN [m EXCEPT !.size = size, !.first_seen = now, !.emitted = FALSE,
                   !.eaten = 0, !.prints = 0, !.eating = FALSE]
    ELSE [m EXCEPT !.size = size, !.eaten = 0, !.prints = 0]

Track(tr, c) ==
    [tr EXCEPT ![c.tick] = IF @ = Untracked THEN NewLevel(c) ELSE Resize(@, c.size)]

Additions(b, u, threshold) ==
    IF HasMid(b) THEN SelectSeq(u, LAMBDA c : c.size > 0 /\ Qualifies(b, c, threshold)) ELSE <<>>

\* The detector's count of the level t starts anew, on the side of the book.
Anew(t, u, added) ==
    \E c \in ToSet(added) : c.tick = t /\
        (t \in RemovedTicks(u) \/ (c.side = tracked[t].side /\ c.size >= tracked[t].size))

OnBookUpdate(u, threshold) ==
    LET after == FoldLeft(SetLevel, book, u)
        added == Additions(after, u, threshold)
        next  == FoldLeft(Track, ForgetRemoved(tracked, u), added)
    IN  /\ book' = after
        /\ tracked' = next
        /\ out' = RemovedSignals(u)
        /\ stack' = IF RemovedSignals(u) = {} THEN stack ELSE NoStack
        /\ since' = [t \in Ticks |->
              IF \E c \in ToSet(u) : c.tick = t /\ c.size > 0
                                      /\ (c.side # book[t].side \/ c.size >= book[t].size)
              THEN now ELSE since[t]]
        /\ vol' = [t \in Ticks |-> IF \E c \in ToSet(u) : c.tick = t THEN 0 ELSE vol[t]]
        /\ unseen' = {t \in Ticks : next[t] # Untracked /\
              \/ t \in unseen /\ ~Anew(t, u, added)
              \/ \E c \in ToSet(u) : c.tick = t /\ c.size > 0 /\ c \notin ToSet(added)}
        /\ UNCHANGED now

-----------------------------------------------------------------------------
(* on_trade *)

\* The level a trade eats: at its tick, or else one below, or else one above,
\* where the first one on the opposite side counts.
Hit(tick, side) ==
    LET eats(t) == t \in Ticks /\ tracked[t].side = OtherSide(side)
    IN  IF eats(tick) THEN {tick} ELSE IF eats(tick - 1) THEN {tick - 1}
        ELSE {t \in {tick + 1} : eats(t)}

\* A pause longer than the window starts a new burst.
Burst(m) ==
    IF m.hit # 0 /\ now - m.hit > Window
    THEN [m EXCEPT !.eaten = 0, !.prints = 0, !.eating = FALSE] ELSE m

Ate(m) == [Burst(m) EXCEPT !.eaten = @ + 1, !.prints = @ + 1, !.hit = now]

\* eating_ratio_threshold is a half.
Eats(m) == ~m.eating /\ 2 * m.eaten >= m.size /\ m.prints >= MinPrints

OnTrade(tick, side) ==
    /\ tracked' = [t \in Ticks |->
          IF t \in Hit(tick, side)
          THEN [Ate(tracked[t]) EXCEPT !.eating = @ \/ Eats(Ate(tracked[t]))] ELSE tracked[t]]
    /\ out' = {[kind |-> "DensityEating", tick |-> t] :
                 t \in {s \in Hit(tick, side) : Eats(Ate(tracked[s]))}}
    /\ vol' = [t \in Ticks |->
          IF t \in tick - 1..tick + 1 /\ book[t].side = OtherSide(side) THEN vol[t] + 1 ELSE vol[t]]
    /\ UNCHANGED <<book, stack, now, since, unseen>>

-----------------------------------------------------------------------------
(* on_frame: check_sticky_levels_ and check_density_stacks_ *)

Evicted == {t \in Ticks : Tracked(t) /\ HasMid(book) /\ Distance(book, t) > MaxDist}
Stood   == {t \in Ticks \ Evicted :
              Tracked(t) /\ ~tracked[t].emitted /\ now - tracked[t].first_seen >= Sticky}
Matured == Stood \union {t \in Ticks \ Evicted : Tracked(t) /\ tracked[t].emitted}

\* Neighbouring announced levels of one side no further apart than the width.
Join(cs, t) ==
    IF cs # <<>> /\ LET c == Last(cs) IN
           tracked[Head(c)].side = tracked[t].side /\ t - Head(c) <= StackWidth
    THEN [cs EXCEPT ![Len(cs)] = Append(@, t)]
    ELSE Append(cs, <<t>>)

Clusters == FoldLeft(Join, <<>>, SetToSortSeq(Matured, <))

Sized(c) == FoldLeft(LAMBDA a, t : a + tracked[t].size, 0, c)

\* The end nearer to the mid comes first.
Signature(c) ==
    LET ask == tracked[Head(c)].side = "Ask"
    IN  [side  |-> tracked[Head(c)].side, size |-> Sized(c),
         first |-> IF ask THEN Head(c) ELSE Last(c),
         last  |-> IF ask THEN Last(c) ELSE Head(c)]

Stacks == SelectSeq(Clusters, LAMBDA c : Len(c) >= StackLevels /\ Sized(c) >= StackSize)

\* Only the latest stack is remembered, so two stacks displace each other.
Announce(a, c) ==
    IF Signature(c) = a.last THEN a
    ELSE [last |-> Signature(c),
          out  |-> a.out \union {[kind |-> "DensityStack", tick |-> Signature(c).first,
                                  ticks |-> ToSet(c), size |-> Sized(c)]}]

OnFrame ==
    LET after == IF HasMid(book) THEN FoldLeft(Announce, [last |-> stack, out |-> {}], Stacks)
                 ELSE [last |-> stack, out |-> {}]
    IN  /\ HasMid(book)
        /\ \E t \in Ticks : Tracked(t)
        /\ tracked' = [t \in Ticks |->
              IF t \in Evicted THEN Untracked
              ELSE IF t \in Stood THEN [tracked[t] EXCEPT !.emitted = TRUE] ELSE tracked[t]]
        /\ stack' = after.last
        /\ out' = {[kind |-> "DensityDetected", tick |-> t, side |-> tracked[t].side,
                    size |-> tracked[t].size] : t \in Stood} \union after.out
        /\ unseen' = unseen \ Evicted
        /\ UNCHANGED <<book, now, since, vol>>

-----------------------------------------------------------------------------
(* The market and the controller around the detector. *)

Act(k, limit) == marketActs[k] < limit /\ marketActs.all < MaxActs
Done(k) == marketActs' = [marketActs EXCEPT ![k] = @ + 1, !.all = @ + 1]

Change(t, s, n) == [tick |-> t, side |-> s, size |-> n]

\* What one update carries: a level set or removed, or a tick that changes
\* its side.  An update never crosses the book.
Updates ==
    {<<Change(t, s, n)>> : t \in Moving, s \in Sides, n \in 0..MaxSize}
      \union {<<Change(t, OtherSide(s), 0), Change(t, s, n)>> :
                 t \in Moving, s \in Sides, n \in 1..MaxSize}

Sound(u) ==
    /\ \A i \in DOMAIN u : u[i].size = 0 => book[u[i].tick].side = u[i].side
    /\ Len(u) = 1 /\ u[1].size > 0 =>
          book[u[1].tick].side \in {"none", u[1].side} /\ book[u[1].tick].size # u[1].size
    /\ \A t \in Ticks : \A c \in ToSet(u) : c.size > 0 /\ t # c.tick =>
          (c.side = "Bid" /\ book[t].side = "Ask" => t > c.tick)
            /\ (c.side = "Ask" /\ book[t].side = "Bid" => t < c.tick)

BookUpdate ==
    /\ Act("updates", MaxUpdates) /\ Done("updates")
    /\ \E u \in Updates, threshold \in Thresholds : Sound(u) /\ OnBookUpdate(u, threshold)

Trade ==
    /\ Act("trades", MaxTrades) /\ Done("trades")
    /\ \E t \in Ticks, s \in Sides : Hit(t, s) # {} /\ OnTrade(t, s)

DetectorFrame == OnFrame /\ UNCHANGED marketActs

\* on_orderbook_snapshot: the controller replaces the book after a gap and
\* tells no detector.  Here one level differs.
Snapshot ==
    /\ Act("resyncs", MaxResyncs) /\ Done("resyncs")
    /\ \E t \in Moving, l \in Levels :
          LET after == [book EXCEPT ![t] = l] IN
          /\ after \in Books /\ after # book
          /\ book' = after
          /\ since' = [since EXCEPT ![t] = now]
          /\ unseen' = IF Tracked(t) THEN unseen \union {t} ELSE unseen
    /\ out' = {}
    /\ UNCHANGED <<tracked, stack, now, vol>>

Pass ==
    /\ now < MaxTime
    /\ now' = now + 1 /\ out' = {}
    /\ UNCHANGED <<book, tracked, stack, marketActs, since, vol, unseen>>

DensitiesInit ==
    /\ book = Start
    /\ tracked = [t \in Ticks |-> Untracked]
    /\ stack = NoStack
    /\ now = 1 /\ out = {}
    /\ marketActs = [k \in {"updates", "trades", "resyncs", "all"} |-> 0]
    /\ since = [t \in Ticks |-> 1]
    /\ vol = [t \in Ticks |-> 0]
    /\ unseen = {}

DensitiesNext == BookUpdate \/ Trade \/ DetectorFrame \/ Snapshot \/ Pass

DensitiesSpec == DensitiesInit /\ [][DensitiesNext]_densityVars

-----------------------------------------------------------------------------

\* Types, and an uncrossed book.
DensitiesTypeOK ==
    /\ book \in Books
    /\ \A t \in Ticks : Tracked(t) =>
          /\ tracked[t].side \in Sides /\ tracked[t].size \in 1..MaxSize
          /\ tracked[t].first_seen \in 1..now /\ tracked[t].hit \in 0..now
          /\ tracked[t].prints = tracked[t].eaten
    /\ stack.side \in Sides \union {"none"}
    /\ unseen \subseteq Ticks

\* What is published of a level that the detector was told everything about
\* is true of the book: a density that is announced is there, with its side
\* and size, and stood for sticky_duration; one that is removed as real stood
\* for fake_threshold; one that is being eaten has lost half of its present
\* size to trades; a stack has the size of its levels.
SignalsTrue ==
    [][\A s \in out' : s.tick \notin unseen =>
        CASE s.kind = "DensityDetected" ->
                /\ book'[s.tick] = [side |-> s.side, size |-> s.size]
                /\ now - since[s.tick] >= Sticky
          [] s.kind = "DensityRemoved" -> s.fake \/ now - since[s.tick] >= Fake
          [] s.kind = "DensityEating" ->
                vol'[s.tick] >= MinPrints /\ 2 * vol'[s.tick] >= book[s.tick].size
          [] s.kind = "DensityStack" ->
                s.ticks \intersect unseen = {} =>
                    s.size = FoldSet(LAMBDA t, n : n + book[t].size, 0, s.ticks)]_densityVars
=============================================================================
