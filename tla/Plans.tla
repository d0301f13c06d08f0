-------------------------------- MODULE Plans --------------------------------
(* The prices of a plan: how the four strategies place entry, stop and first *)
(* target from the signals they remember and the mids they have seen.        *)
(* Strategies models when a plan is made; here every signal is fresh, and     *)
(* conditions on volumes, sizes and the spread are the choice of making the   *)
(* plan or not.                                                               *)
(*                                                                            *)
(* Floating point is replaced by exact fractions: a price of the market is a  *)
(* number of grains, Grain to a tick (a level is the mean of a cluster), a    *)
(* price of a plan a number of ticks, a distance a number of half basis       *)
(* points, and a scale a number of parts, Fraction to one.  The offsets and   *)
(* the bounds of the scales are the defaults of the configurations.           *)
EXTENDS Integers, Sequences, FiniteSetsExt

CONSTANTS
    Grain,          \* grains of a tick
    Fraction,       \* parts of a scale of one
    Grounds,        \* where the market is: grains of the lowest price
    Rises,          \* prices of signals and mids above it
    Scales,         \* 1 / sqrt(volume_scale_factor) of a ticker, in parts
    Catchups,       \* catch-up a leader's move promises, in parts of a half bp
    Remembered,     \* the kinds of signals remembered
    MaxMemory,      \* bound: signals remembered
    MaxSeen         \* bound: signals and mids

\* volume_scale_factor is clamped to 0.15 .. 5.
ASSUME PlansAssumption ==
    /\ Grain \in Nat \ {0} /\ Fraction \in Nat \ {0}
    /\ Grounds \subseteq Nat \ {0} /\ Rises \subseteq Nat
    /\ Scales \subseteq {s \in Nat : /\ 5 * (s * s) >= Fraction * Fraction
                                   /\ 3 * (s * s) <= 20 * (Fraction * Fraction)}
    /\ Catchups \subseteq Nat /\ MaxMemory \in Nat /\ MaxSeen \in Nat
    /\ Remembered \subseteq {"DensityDetected", "DensityRemoved", "IcebergSuspected", "LevelFormed"}

VARIABLES
    ground, scale,  \* the ticker's market and scale
    memory,         \* signal_history, newest last: [kind, dir, price]
    pastMids,       \* price_history_ of LeaderLag, newest last
    plan            \* the plan last made

planVars == <<ground, scale, memory, pastMids, plan>>

NoPlan == [by |-> "none", dir |-> 1, held |-> 0, entry |-> 0, stop |-> 0, target |-> 0]
Around_ == {ground + r : r \in Rises}
OnTick(p) == p % Grain = 0
OnTicks == {p \in Around_ : OnTick(p)}

\* A price, in half bps and in their parts.
HalfBps == 20000
Whole == HalfBps * Fraction
\* round_to_tick of a price moved by b parts of a half bp.
At(p, b) == (2 * (p * (Whole + b)) + Grain * Whole) \div (2 * (Grain * Whole))
Off(p, q) == Max({p - q, q - p})
\* p is within w half bps of q.
Within(p, q, w) == Off(p, q) * HalfBps <= w * q
\* p lies beyond q in the direction of a trade of side d.
Beyond(d, p, q) == d * p > d * q

\* The signals of kinds ks, and the newest of some of them.
Heard(ks) == {i \in DOMAIN memory : memory[i].kind \in ks}
Newest(is) == memory[Max(is)]

\* held is density_price_for_stop, 0 for none.
Propose(by, d, held, entry, stop, target) ==
    plan' = [by |-> by, dir |-> d, held |-> held, entry |-> entry, stop |-> stop, target |-> target]

\* Target at r / 2 times the risk, rounded to a tick.
TargetAt(d, entry, stop, r) == (2 * entry + d * r * Off(entry, stop) + 1) \div 2

----------------------------------------------------------------------------
(* BounceFromDensity: a density at the level approached.                    *)

\* Densities of the same side close by: the stop goes behind the last one.
Piled(density) == {memory[i].price : i \in {j \in Heard({"DensityDetected"}) :
                      /\ memory[j].dir = density.dir
                      /\ Within(memory[j].price, density.price, 30)
                      /\ Off(memory[j].price, density.price) * HalfBps >= density.price}}

\* Mutant: the stop behind the first density of a cluster.
FirstAnchor(density) == density.price

StopAnchor(density) ==
    CHOOSE p \in Piled(density) \cup {density.price} :
        \A q \in Piled(density) \cup {density.price} : ~Beyond(-density.dir, q, p)

Bounce(level) ==
    LET at == {i \in Heard({"DensityDetected"}) : Within(memory[i].price, level, 3)}
    IN  /\ at # {}
        /\ LET density == Newest(at)
               d == density.dir
               entry == At(level, d * 6 * scale)
               stop == At(StopAnchor(density), -d * 10 * scale)
           IN  /\ ~\E i \in Heard({"DensityRemoved"}) : Within(memory[i].price, density.price, 3)
               /\ ~\E i \in Heard({"IcebergSuspected"}) :
                      memory[i].dir = d /\ Within(memory[i].price, level, 4)
               /\ entry # stop
               /\ Propose("Bounce", d, density.price, entry, stop, TargetAt(d, entry, stop, 3))

----------------------------------------------------------------------------
(* BreakoutEatThrough: through a density, away from support behind it.      *)

Supports(d, eaten) == {i \in Heard({"DensityDetected", "IcebergSuspected"}) :
                         /\ memory[i].dir = d
                         /\ Beyond(-d, memory[i].price, eaten)
                         /\ Within(memory[i].price, eaten, 40)}

\* Something remembered that may stop the move before the target.
Obstacle(d, entry, target) ==
    \E i \in Heard({"DensityDetected", "LevelFormed"}) :
        /\ memory[i].kind = "LevelFormed" \/ memory[i].dir = -d
        /\ Beyond(d, memory[i].price, Grain * entry) /\ Beyond(-d, memory[i].price, Grain * target)

\* A density of side -d at price eaten is being eaten; best is the price
\* frames show on that side.
Breakout(d, eaten, best) ==
    /\ Supports(d, eaten) # {}
    /\ Off(eaten, best) * HalfBps >= 4 * best
    /\ LET support == Newest(Supports(d, eaten)).price
           entry == At(eaten, d * 4 * scale)
           stop == At(support, -d * 10 * scale)
           target == TargetAt(d, entry, stop, 3)
       IN  /\ entry # stop
           /\ Off(target, entry) >= Off(entry, stop)
           /\ ~Obstacle(d, entry, target)
           /\ Propose("Breakout", d, 0, entry, stop, target)

----------------------------------------------------------------------------
(* LeaderLag: towards where the leader has gone.                            *)

\* find_swing_low and find_swing_high: none before three pastMids.
Swing(d) == IF Len(pastMids) < 3 THEN {}
            ELSE {CHOOSE m \in Range(pastMids) : \A n \in Range(pastMids) : ~Beyond(-d, n, m)}

\* The swing, when it lies between the mid and one and a half stop distances.
LagStop(d, mid) ==
    IF \E m \in Swing(d) : /\ Beyond(-d, m, mid)
                           /\ Beyond(d, m * Whole, mid * (Whole - d * 24 * scale))
    THEN At(CHOOSE m \in Swing(d) : TRUE, 0)
    ELSE At(mid, -d * 16 * scale)

\* A density of the other side that the move would have to pass.
InTheWay(d, mid) ==
    \E i \in Heard({"DensityDetected"}) :
        /\ memory[i].dir = -d /\ Beyond(d, memory[i].price, mid)
        /\ Within(memory[i].price, mid, 50)

Lag(d, catchup) ==
    /\ pastMids # <<>>
    /\ LET mid == pastMids[Len(pastMids)]
       IN  /\ ~InTheWay(d, mid)
           /\ Propose("LeaderLag", d, 0, At(mid, 0), LagStop(d, mid), At(mid, d * catchup))

----------------------------------------------------------------------------
(* FlushReversal: back through a level broken in a flush.                   *)

Flush(d, level) ==
    LET entry == At(level, -d * 4 * scale)
        stop == At(level, -d * 16 * scale)
    IN  /\ entry # stop
        /\ Propose("Flush", d, 0, entry, stop, At(level, d * 20 * scale))

----------------------------------------------------------------------------

PlansInit ==
    /\ ground \in Grounds /\ scale \in Scales
    /\ memory = <<>> /\ pastMids = <<>>
    /\ plan = NoPlan

\* Every signal goes into the strategies' memory.
Hear(x) ==
    /\ Len(memory) < MaxMemory /\ Len(memory) + Len(pastMids) < MaxSeen
    /\ memory' = Append(memory, x)
    /\ plan' = NoPlan
    /\ UNCHANGED <<ground, scale, pastMids>>

\* on_frame of LeaderLag.
SeeMid(p) ==
    /\ Len(memory) + Len(pastMids) < MaxSeen
    /\ pastMids' = Append(pastMids, p)
    /\ plan' = NoPlan
    /\ UNCHANGED <<ground, scale, memory>>

Decide ==
    /\ plan = NoPlan
    /\ \/ \E p \in Around_ : Bounce(p)
       \/ \E d \in {-1, 1}, p \in OnTicks, best \in OnTicks : Breakout(d, p, best)
       \/ \E d \in {-1, 1}, c \in Catchups : Lag(d, c)
       \/ \E d \in {-1, 1}, p \in Around_ : Flush(d, p)
    /\ UNCHANGED <<ground, scale, memory, pastMids>>

\* Densities, icebergs and removals are on ticks, levels anywhere.
PlansNext ==
    \/ \E k \in Remembered, d \in {-1, 1}, p \in Around_ :
           (k = "LevelFormed" \/ OnTick(p)) /\ Hear([kind |-> k, dir |-> d, price |-> p])
    \/ \E p \in Around_ : SeeMid(p)
    \/ Decide

PlansSpec == PlansInit /\ [][PlansNext]_planVars

----------------------------------------------------------------------------

\* Types of the module's state.
PlansTypeOK ==
    /\ ground \in Grounds /\ scale \in Scales
    /\ memory \in Seq([kind : Remembered, dir : {-1, 1}, price : Around_])
    /\ pastMids \in Seq(Around_)
    /\ plan.entry \in Nat /\ plan.stop \in Nat /\ plan.target \in Nat

\* The stop of a plan lies behind its entry, and the target ahead of it by at
\* least the risk, whatever the ticks round away.  FlushReversal computes its
\* target before it rounds: a tick less, and so the entry itself when the risk
\* is a tick.  LeaderLag, which does not look at its prices after rounding, may
\* have both on its entry.
Ordered ==
    LET risk == plan.dir * (plan.entry - plan.stop)
        reward == plan.dir * (plan.target - plan.entry)
    IN  CASE plan.by = "LeaderLag" -> risk >= 0 /\ reward >= 0
          [] plan.by = "Flush" -> risk > 0 /\ reward >= risk - 1
          [] OTHER -> risk > 0 /\ reward >= risk

\* The stop of a bounce leaves no density of the pile behind it.
PileCovered ==
    \A i \in Heard({"DensityDetected"}) :
        memory[i].dir = plan.dir /\ Within(memory[i].price, plan.held, 30) =>
            ~Beyond(-plan.dir, memory[i].price, Grain * plan.stop)

\* Every plan made can be traded: its prices are in order, and the stop of a
\* bounce lies behind all densities it leans on.
PlansTradable == plan # NoPlan => Ordered /\ (plan.by = "Bounce" => PileCovered)
=============================================================================
