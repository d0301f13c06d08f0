----------------------------- MODULE Approaches -----------------------------
(* LevelDetector of one ticker: turning points of the mid become extremes,   *)
(* clusters of extremes become levels, and a mid that comes near a level is  *)
(* an approach, which ends as a rejection or a break when the mid leaves.    *)
(*                                                                           *)
(* A frame is one step, under the mutex of the controller.  Prices of levels *)
(* are ticks and so are the tolerances, which the code has in basis points   *)
(* of the mid; the mean of a cluster is rounded to its tick, by which        *)
(* approaches are kept.  Time is the number of the frame; a minute may end   *)
(* with any of them.                                                         *)
EXTENDS Integers, Sequences, FiniteSets
LOCAL INSTANCE FiniteSetsExt

CONSTANTS Mids,        \* the mids of the market
          MinReversal, \* min_reversal_bps
          Eps,         \* cluster_tolerance_bps
          TouchesMin,  \* touches_min
          TriggerDist, \* approach_trigger_bps
          MaxFrames    \* bound

VARIABLES mids,      \* mid_history_
          extremes,  \* extremes_
          levels_,   \* active_levels_
          near,      \* current_approaches_: by tick, the approach
          published, \* the signals the last step published
          strayed    \* history: approaches whose level has left their tick

approachVars == <<mids, extremes, levels_, near, published, strayed>>

Gap(a, b) == IF a > b THEN a - b ELSE b - a
NoApproach == [since |-> 0, above |-> FALSE]
Ticks_ == Min(Mids)..Max(Mids)

-----------------------------------------------------------------------------

\* update_extremes_ with a half window of one: the mid before last, if it is
\* beyond both neighbours and far enough from one of them.
Turn(path) ==
    LET n == Len(path) IN
    {e \in {[price |-> path[n - 1], at |-> n - 1]} :
        /\ \/ path[n - 2] < e.price /\ path[n] < e.price
           \/ path[n - 2] > e.price /\ path[n] > e.price
        /\ \/ Gap(e.price, path[n - 2]) >= MinReversal
           \/ Gap(e.price, path[n]) >= MinReversal}

UpdateExtremes(path) == extremes \union (IF Len(path) >= 3 THEN Turn(path) ELSE {})

\* Dbscan1D: points with enough neighbours, joined where they are close, and
\* the points near them; one between two clusters belongs to the lower.
Around(es, p) == {e \in es : Gap(e.price, p) <= Eps}
Cores(es) == {e.price : e \in {d \in es : Cardinality(Around(es, d.price)) >= TouchesMin}}
Root(cs, c) ==
    Min({r \in cs : r <= c /\ \A x \in cs : r < x /\ x <= c =>
                        \E y \in cs : r <= y /\ y < x /\ x - y <= Eps})
Cluster(es, r) ==
    LET cs == Cores(es) IN
    {e \in es : \E c \in cs : Gap(c, e.price) <= Eps
                   /\ Root(cs, c) = r
                   /\ e.price \notin cs =>
                        \A d \in cs : Gap(d, e.price) <= Eps => r <= Root(cs, d)
                   /\ (e.price \in cs => c = e.price)}

\* The mean price of a cluster, to the nearest tick.
Centroid(c) ==
    LET n == Cardinality(c) IN (2 * MapThenSumSet(LAMBDA e : e.price, c) + n) \div (2 * n)

NewLevels(es) ==
    {[price |-> Centroid(Cluster(es, r)), touches |-> Cardinality(Cluster(es, r)),
      last |-> Max({e.at : e \in Cluster(es, r)})] : r \in {Root(Cores(es), c) : c \in Cores(es)}}

LevelPrices(ls) == {l.price : l \in ls}

\* rebuild_levels_: too few extremes change nothing; an approach stays while
\* some level is close to the price it was made for.
RebuiltLevels(es) == IF Cardinality(es) < TouchesMin THEN levels_ ELSE NewLevels(es)

FormedLevels(ls) == {p \in LevelPrices(ls) : \A o \in LevelPrices(levels_) : Gap(p, o) >= Eps}

Pruned(ls) ==
    [t \in Ticks_ |->
        IF \E p \in LevelPrices(ls) : Gap(p, t) < Eps THEN near[t] ELSE NoApproach]

-----------------------------------------------------------------------------

Told(kind, p) == [kind |-> kind, price |-> p]
Close(m, p) == Gap(m, p) <= TriggerDist
Approached(ap, p) == ap[p] # NoApproach

\* What check_approaches_ says of the level p.
Verdicts(ap, m, p) ==
    CASE Close(m, p) /\ ~Approached(ap, p) -> {Told("LevelApproach", p)}
      [] ~Close(m, p) /\ Approached(ap, p) ->
            {Told(IF (m > p) = ap[p].above THEN "LevelRejection" ELSE "LevelBreak", p)}
      [] OTHER -> {}

\* As Checked, but an approach that has ended stays.
CheckedOpen(ap, m, ls) ==
    [t \in Ticks_ |->
        IF t \in LevelPrices(ls) /\ Close(m, t) /\ ~Approached(ap, t)
        THEN [since |-> Len(mids) + 1, above |-> m > t] ELSE ap[t]]

\* The approaches after check_approaches_.
Checked(ap, m, ls) ==
    [t \in Ticks_ |->
        CASE t \in LevelPrices(ls) /\ Close(m, t) /\ ~Approached(ap, t) ->
                [since |-> Len(mids) + 1, above |-> m > t]
          [] t \in LevelPrices(ls) /\ ~Close(m, t) -> NoApproach
          [] OTHER -> ap[t]]

\* on_frame of a valid frame.
ApproachFrame ==
    /\ Len(mids) < MaxFrames
    /\ \E m \in Mids, minute \in BOOLEAN :
          LET path == Append(mids, m)
              es   == UpdateExtremes(path)
              full == minute /\ Cardinality(es) >= TouchesMin
              ls   == IF minute THEN RebuiltLevels(es) ELSE levels_
              ap   == IF full THEN Pruned(ls) ELSE near
          IN  /\ mids' = path /\ extremes' = es /\ levels_' = ls
              /\ near' = Checked(ap, m, ls)
              /\ published' = {Told("LevelFormed", p) : p \in IF full THEN FormedLevels(ls) ELSE {}}
                               \union UNION {Verdicts(ap, m, p) : p \in LevelPrices(ls)}
              /\ strayed' = {t \in Ticks_ : near'[t] # NoApproach /\
                                (t \in strayed \/ t \notin LevelPrices(ls))}

\* on_frame ignores a frame without a mid.
InvalidFrame ==
    /\ Len(mids) < MaxFrames
    /\ published # {} /\ published' = {}
    /\ UNCHANGED <<mids, extremes, levels_, near, strayed>>

ApproachesInit ==
    /\ mids = <<>> /\ extremes = {} /\ levels_ = {}
    /\ near = [t \in Ticks_ |-> NoApproach]
    /\ published = {} /\ strayed = {}

ApproachesNext == ApproachFrame \/ InvalidFrame

ApproachesSpec == ApproachesInit /\ [][ApproachesNext]_approachVars

-----------------------------------------------------------------------------

\* Types; a level rests on touches_min extremes near it or near each other.
ApproachesTypeOK ==
    /\ LevelPrices(levels_) \subseteq Ticks_
    /\ \A l \in levels_ : l.touches >= TouchesMin
    /\ \A t \in Ticks_ : near[t].since \in 0..Len(mids)

\* An approach is open for exactly the levels the mid is near, and the
\* outcome is announced when the mid leaves for the first time: a break if it
\* leaves on the other side.  Left out: an approach whose level was moved to
\* another tick by a rebuild, which stays and ends when a level comes back.
ApproachesJudged ==
    /\ [](\A p \in LevelPrices(levels_) : Close(mids[Len(mids)], p) <=> Approached(near, p))
    /\ [][\A s \in published' :
            s.kind \in {"LevelRejection", "LevelBreak"} /\ s.price \notin strayed =>
                /\ Approached(near, s.price)
                /\ \A i \in near[s.price].since..Len(mids) : Close(mids[i], s.price)
                /\ s.kind = "LevelBreak" <=>
                      (mids[near[s.price].since] > s.price) # (mids'[Len(mids')] > s.price)
         ]_approachVars
=============================================================================
