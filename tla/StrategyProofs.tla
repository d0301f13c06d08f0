--------------------------- MODULE StrategyProofs ---------------------------
(* Proofs about Universe, Strategies, Levels, Icebergs and Plans: the engine  *)
(* runs the strategies that are enabled, a trade begins only for a ticker     *)
(* that has stayed in the pool, what a strategy proposes follows one order at *)
(* a time, the bridge has the terminal's levels once it is told of            *)
(* everything, what an iceberg is said to have swallowed was traded, and the  *)
(* prices of every plan are in order.                                         *)
EXTENDS Levels, Universe, Strategies, Icebergs, Plans, SumProofs, FiniteSetTheorems, SequenceTheorems, TLAPS

-----------------------------------------------------------------------------
(* Universe. *)

Affinities == {"none", "off", "on"}
AffinityType == [Tickers -> [Names -> Affinities]]
ChangeType == [ticker : Tickers, name : Names, enabled : BOOLEAN]

IsOf(c, t, s) == c.ticker = t /\ c.name = s

\* The engine has strategy s of ticker t as often as its affinity says, or as
\* the one change under way will make it.
InStep(aff, handed, eng, t, s) ==
    /\ \A th \in Callers : \A c \in handed[th] : IsOf(c, t, s) =>
           /\ c.enabled <=> aff[t][s] = "on"
           /\ eng[t][s] = IF c.enabled THEN 0 ELSE 1
    /\ \A c \in handed["main"], d \in handed["dashboard"] : ~(IsOf(c, t, s) /\ IsOf(d, t, s))
    /\ (\A th \in Callers : \A c \in handed[th] : ~IsOf(c, t, s)) =>
           eng[t][s] = IF aff[t][s] = "on" THEN 1 ELSE 0

\* As UniverseTypeOK, and with what is handed on.
TypeInv ==
    /\ UniverseTypeOK
    /\ pending \in [Callers -> SUBSET ChangeType]
    /\ entered \in [Tickers -> Nat] /\ activeSince \in [Tickers -> Nat]
    /\ clock \in Nat \ {0}

\* The pool's clock starts when a ticker enters it.
SinceEntered == \A t \in pool : activeSince[t] = entered[t]

AllInStep ==
    \A t \in Tickers, s \in Names : <<t, s>> \notin adrift =>
        InStep(affinity, pending, engine, t, s)

UniverseInv == TypeInv /\ SinceEntered /\ AllInStep

-----------------------------------------------------------------------------
(* Scores and changes. *)

LEMMA ScoreIs == ASSUME NEW s PROVE Score(s) \in {"on", "off"} /\ Score(s) \in Affinities
BY DEF Score, Affinities

LEMMA ChangesAre ==
    ASSUME NEW a \in AffinityType, NEW p \in SUBSET Tickers
    PROVE  /\ Changes(a, p) \in SUBSET ChangeType
           /\ \A c \in Changes(a, p) :
                 /\ c.ticker \in p /\ c.name \in Names
                 /\ c.enabled <=> Score(c.name) = "on"
                 /\ c.enabled <=> a[c.ticker][c.name] # "on"
           /\ \A t \in p, s \in Names :
                 \/ \E c \in Changes(a, p) : IsOf(c, t, s)
                 \/ a[t][s] = "on" <=> Score(s) = "on"
<1>1. ASSUME NEW c \in Changes(a, p)
      PROVE  \E t \in p, s \in Names :
                 /\ c = [ticker |-> t, name |-> s, enabled |-> Score(s) = "on"]
                 /\ a[t][s] # Score(s) /\ (a[t][s] = "on" \/ Score(s) = "on")
  BY <1>1 DEF Changes, AffinityChange
<1>2. ASSUME NEW c \in Changes(a, p)
      PROVE  /\ c \in ChangeType /\ c.ticker \in p /\ c.name \in Names
             /\ c.enabled <=> Score(c.name) = "on"
             /\ c.enabled <=> a[c.ticker][c.name] # "on"
  <2>1. PICK t \in p, s \in Names :
            /\ c = [ticker |-> t, name |-> s, enabled |-> Score(s) = "on"]
            /\ a[t][s] # Score(s) /\ (a[t][s] = "on" \/ Score(s) = "on")
    BY <1>1
  <2>2. c.ticker = t /\ c.name = s BY <2>1
  <2>3. c.enabled <=> Score(s) = "on" BY <2>1
  <2>4. (Score(s) = "on") \in BOOLEAN OBVIOUS
  <2>5. c \in ChangeType BY <2>1, <2>4 DEF ChangeType
  <2> QED BY <2>1, <2>2, <2>3, <2>5
<1>3. ASSUME NEW t \in p, NEW s \in Names, ~(a[t][s] = "on" <=> Score(s) = "on")
      PROVE  \E c \in Changes(a, p) : IsOf(c, t, s)
  <2> DEFINE c == AffinityChange(t, s, Score(s) = "on")
  <2>1. a[t][s] # Score(s) /\ (a[t][s] = "on" \/ Score(s) = "on") BY <1>3
  <2>2. <<t, s>> \in {x \in p \X Names : a[x[1]][x[2]] # Score(x[2])
                            /\ (a[x[1]][x[2]] = "on" \/ Score(x[2]) = "on")}
    BY <2>1
  <2>3. c \in Changes(a, p) BY <2>2 DEF Changes
  <2>4. IsOf(c, t, s) BY DEF IsOf, AffinityChange
  <2> QED BY <2>3, <2>4
<1> QED BY <1>2, <1>3

LEMMA ScoredIs ==
    ASSUME NEW a \in AffinityType, NEW p \in SUBSET Tickers
    PROVE  /\ Scored(a, p) \in AffinityType
           /\ \A t \in Tickers, s \in Names :
                 Scored(a, p)[t][s] = IF t \in p THEN Score(s) ELSE a[t][s]
BY ScoreIs DEF Scored, AffinityType

LEMMA KeptIs ==
    ASSUME affinity \in AffinityType, NEW p \in SUBSET Tickers
    PROVE  /\ Kept(p) \in AffinityType
           /\ \A t \in Tickers, s \in Names :
                 Kept(p)[t][s] = IF t \in p THEN affinity[t][s] ELSE "none"
BY DEF Kept, AffinityType, Unknown, Affinities

-----------------------------------------------------------------------------
(* The pool. *)

\* A collection on the main thread, whatever the pool: what another change
\* runs across, or is dropped with its ticker, is adrift.
LEMMA CollectKeepsInStep ==
    ASSUME UniverseInv, MainFree, NEW a \in AffinityType, NEW p \in SUBSET Tickers,
           Collect(a, p), UNCHANGED engine,
           NEW t \in Tickers, NEW s \in Names, <<t, s>> \notin adrift,
           <<t, s>> \notin Raced("main", Changes(a, p)),
           a[t][s] = "on" <=> affinity[t][s] = "on"
    PROVE  InStep(affinity', pending', engine', t, s)
<1> DEFINE cs == Changes(a, p)
<1>1. /\ cs \in SUBSET ChangeType
      /\ \A c \in cs : /\ c.ticker \in p /\ c.name \in Names
                       /\ c.enabled <=> Score(c.name) = "on"
                       /\ c.enabled <=> a[c.ticker][c.name] # "on"
      /\ t \in p => \/ \E c \in cs : IsOf(c, t, s)
                    \/ a[t][s] = "on" <=> Score(s) = "on"
  BY ChangesAre
<1>2. affinity'[t][s] = IF t \in p THEN Score(s) ELSE a[t][s]
  BY ScoredIs DEF Collect
<1>3. pending' = [pending EXCEPT !["main"] = cs] BY DEF Collect
<1>4. /\ pending'["main"] = cs /\ pending'["dashboard"] = pending["dashboard"]
      /\ pending["main"] = {}
  BY <1>3 DEF UniverseInv, TypeInv, Callers, MainFree
<1>5. InStep(affinity, pending, engine, t, s) BY DEF UniverseInv, AllInStep
<1>6. engine' = engine OBVIOUS
<1> HIDE DEF cs
<1>7. CASE \E c \in cs : IsOf(c, t, s)
  <2>1. PICK c \in cs : IsOf(c, t, s) BY <1>7
  <2>2. ~\E d \in pending["dashboard"] : IsOf(d, t, s)
    <3>1. Other("main") = "dashboard" BY DEF Other, Callers
    <3> QED BY <2>1, <3>1 DEF Raced, IsOf, cs
  <2>3. t \in p /\ (c.enabled <=> Score(s) = "on") /\ (c.enabled <=> affinity[t][s] # "on")
    BY <1>1, <2>1 DEF IsOf
  <2>4. engine[t][s] = IF affinity[t][s] = "on" THEN 1 ELSE 0
    BY <1>4, <1>5, <2>2 DEF InStep, Callers
  <2>5. ASSUME NEW d \in cs, IsOf(d, t, s) PROVE d.enabled <=> c.enabled
    BY <1>1, <2>3, <2>5 DEF IsOf
  <2> QED BY <1>2, <1>4, <1>6, <2>1, <2>2, <2>3, <2>4, <2>5 DEF InStep, Callers
<1>8. CASE ~\E c \in cs : IsOf(c, t, s)
  <2>1. affinity'[t][s] = "on" <=> affinity[t][s] = "on" BY <1>1, <1>2, <1>8
  <2> QED BY <1>4, <1>5, <1>6, <1>8, <2>1 DEF InStep, Callers
<1> QED BY <1>7, <1>8

LEMMA CollectKeepsTypes ==
    ASSUME UniverseInv, NEW a \in AffinityType, NEW p \in SUBSET Tickers, Collect(a, p)
    PROVE  affinity' \in AffinityType /\ pending' \in [Callers -> SUBSET ChangeType]
BY ChangesAre, ScoredIs DEF Collect, UniverseInv, TypeInv

LEMMA SurvivorsAre ==
    ASSUME NEW available \in SUBSET Tickers, NEW p \in Survivors(available)
    PROVE  p \in SUBSET Tickers /\ Cardinality(p) <= MaxPool
BY UniverseAssumption DEF Survivors

LEMMA RebuildKeeps ==
    ASSUME UniverseInv, MainFree, NEW available \in SUBSET Tickers, RebuildPool(available),
           approved' \in SUBSET Tickers, UNCHANGED <<engine, controllers, trades, clock>>
    PROVE  UniverseInv'
<1>1. PICK p \in Survivors(available) :
          /\ RefreshPool(p)
          /\ Collect(Kept(p), p)
          /\ adrift' = adrift \union Dropped(p) \union Raced("main", Changes(Kept(p), p))
  BY DEF RebuildPool
<1>2. p \in SUBSET Tickers /\ Cardinality(p) <= MaxPool BY SurvivorsAre
<1>3. affinity \in AffinityType
  BY DEF UniverseInv, TypeInv, UniverseTypeOK, AffinityType, Affinities
<1>4. /\ Kept(p) \in AffinityType
      /\ \A t \in Tickers, s \in Names :
            Kept(p)[t][s] = IF t \in p THEN affinity[t][s] ELSE "none"
  BY <1>2, <1>3, KeptIs
<1>5. affinity' \in AffinityType /\ pending' \in [Callers -> SUBSET ChangeType]
  BY <1>1, <1>2, <1>4, CollectKeepsTypes
<1>6. /\ activeSince' = [t \in Tickers |-> IF t \notin p THEN 0
                           ELSE IF activeSince[t] = 0 THEN clock ELSE activeSince[t]]
      /\ entered' = [t \in Tickers |-> IF t \in p \ pool THEN clock ELSE entered[t]]
      /\ pool' = p
  BY <1>1 DEF RefreshPool, SinceWith
<1>7. /\ pool \subseteq Tickers /\ clock \in Nat \ {0}
      /\ activeSince \in [Tickers -> Nat] /\ entered \in [Tickers -> Nat]
      /\ \A t \in Tickers : activeSince[t] \in 0..clock /\ (activeSince[t] # 0 <=> t \in pool)
  BY DEF UniverseInv, TypeInv, UniverseTypeOK
<1>8. /\ activeSince' \in [Tickers -> Nat] /\ entered' \in [Tickers -> Nat]
      /\ \A t \in Tickers : activeSince'[t] \in 0..clock /\ (activeSince'[t] # 0 <=> t \in pool')
  BY <1>2, <1>6, <1>7
<1>9. TypeInv'
  BY <1>2, <1>5, <1>6, <1>8 DEF UniverseInv, TypeInv, UniverseTypeOK, AffinityType, Affinities
<1>10. SinceEntered'
  BY <1>2, <1>6, <1>7 DEF UniverseInv, SinceEntered
<1>11. AllInStep'
  <2>1. SUFFICES ASSUME NEW t \in Tickers, NEW s \in Names, <<t, s>> \notin adrift'
                 PROVE  InStep(affinity', pending', engine', t, s)
    BY DEF AllInStep
  <2>2. <<t, s>> \notin adrift /\ <<t, s>> \notin Raced("main", Changes(Kept(p), p))
    BY <1>1, <2>1
  <2>3. t \in p \/ affinity[t][s] # "on"
    <3>1. <<t, s>> \notin Dropped(p) BY <1>1, <2>1
    <3> QED BY <3>1 DEF Dropped
  <2>4. Kept(p)[t][s] = "on" <=> affinity[t][s] = "on" BY <1>4, <2>3
  <2> QED BY <1>1, <1>2, <1>4, <2>2, <2>4, CollectKeepsInStep
<1> QED BY <1>9, <1>10, <1>11 DEF UniverseInv

LEMMA RefreshAffinityKeeps == ASSUME UniverseInv, RefreshAffinity PROVE UniverseInv'
<1>1. affinity \in AffinityType /\ pool \in SUBSET Tickers
  BY DEF UniverseInv, TypeInv, UniverseTypeOK, AffinityType, Affinities
<1>2. affinity' \in AffinityType /\ pending' \in [Callers -> SUBSET ChangeType]
  BY <1>1, CollectKeepsTypes DEF RefreshAffinity
<1>3. TypeInv'
  BY <1>2 DEF RefreshAffinity, UniverseInv, TypeInv, UniverseTypeOK, AffinityType, Affinities
<1>4. SinceEntered' BY DEF RefreshAffinity, UniverseInv, SinceEntered
<1>5. AllInStep'
  <2>1. SUFFICES ASSUME NEW t \in Tickers, NEW s \in Names, <<t, s>> \notin adrift'
                 PROVE  InStep(affinity', pending', engine', t, s)
    BY DEF AllInStep
  <2>2. <<t, s>> \notin adrift /\ <<t, s>> \notin Raced("main", Changes(affinity, pool))
    BY <2>1 DEF RefreshAffinity
  <2> QED BY <1>1, <2>2, CollectKeepsInStep DEF RefreshAffinity
<1> QED BY <1>3, <1>4, <1>5 DEF UniverseInv

LEMMA PoolFallbackKeeps == ASSUME UniverseInv, PoolFallback PROVE UniverseInv'
<1>1. CASE pool = {}
  <2>1. approved' \in SUBSET Tickers BY DEF PoolFallback, UniverseInv, TypeInv, UniverseTypeOK
  <2> QED BY <1>1, <2>1, UniverseAssumption, RebuildKeeps DEF PoolFallback
<1>2. CASE pool # {}
  BY <1>2 DEF PoolFallback, UniverseInv, TypeInv, UniverseTypeOK, SinceEntered, AllInStep
<1> QED BY <1>1, <1>2

LEMMA NewCoinKeeps ==
    ASSUME UniverseInv, NEW t \in Tickers, OnScreenerNewCoin(t) PROVE UniverseInv'
<1>1. approved' \in SUBSET Tickers
  BY DEF OnScreenerNewCoin, UniverseInv, TypeInv, UniverseTypeOK
<1> QED BY <1>1, RebuildKeeps DEF OnScreenerNewCoin

-----------------------------------------------------------------------------
(* The dashboard's command, and the handler. *)

LEMMA OverrideKeeps ==
    ASSUME UniverseInv, NEW u \in Tickers, NEW r \in Names, NEW on \in BOOLEAN,
           OverrideAffinity(u, r, on)
    PROVE  UniverseInv'
<1> DEFINE new == IF on THEN "on" ELSE "off"
           cs == IF (affinity[u][r] = "on") # on THEN {AffinityChange(u, r, on)} ELSE {}
<1>1. affinity \in AffinityType /\ pending \in [Callers -> SUBSET ChangeType]
  BY DEF UniverseInv, TypeInv, UniverseTypeOK, AffinityType, Affinities
<1>2. /\ affinity' = [affinity EXCEPT ![u][r] = new]
      /\ pending' = [pending EXCEPT !["dashboard"] = cs]
      /\ adrift' = adrift \union Raced("dashboard", cs)
      /\ pending["dashboard"] = {}
  BY DEF OverrideAffinity
<1>3. UNCHANGED <<approved, pool, activeSince, engine, controllers, trades, fallback, clock,
                  entered>>
  BY DEF OverrideAffinity
<1>4. /\ affinity' \in AffinityType
      /\ \A t \in Tickers, s \in Names :
            affinity'[t][s] = IF t = u /\ s = r THEN new ELSE affinity[t][s]
  BY <1>1, <1>2 DEF AffinityType, Affinities
<1>5. cs \in SUBSET ChangeType /\ \A c \in cs : IsOf(c, u, r) /\ c.enabled = on
  BY DEF AffinityChange, ChangeType, IsOf
<1>6. cs = {} <=> (affinity[u][r] = "on" <=> on) OBVIOUS
<1>7. /\ pending'["dashboard"] = cs /\ pending'["main"] = pending["main"]
      /\ pending' \in [Callers -> SUBSET ChangeType]
  BY <1>1, <1>2, <1>5 DEF Callers
<1>8. new = "on" <=> on OBVIOUS
<1> HIDE DEF cs, new
<1>9. TypeInv'
  BY <1>3, <1>4, <1>7 DEF UniverseInv, TypeInv, UniverseTypeOK, AffinityType, Affinities
<1>10. SinceEntered' BY <1>3 DEF UniverseInv, SinceEntered
<1>11. AllInStep'
  <2>1. SUFFICES ASSUME NEW t \in Tickers, NEW s \in Names, <<t, s>> \notin adrift'
                 PROVE  InStep(affinity', pending', engine', t, s)
    BY DEF AllInStep
  <2>2. <<t, s>> \notin adrift /\ <<t, s>> \notin Raced("dashboard", cs) BY <1>2, <2>1
  <2>3. InStep(affinity, pending, engine, t, s) BY <2>2 DEF UniverseInv, AllInStep
  <2>4. CASE t = u /\ s = r /\ cs # {}
    <3>1. PICK c \in cs : IsOf(c, t, s) BY <1>5, <2>4
    <3>2. ~\E d \in pending["main"] : IsOf(d, t, s)
      <4>1. Other("dashboard") = "main" BY DEF Other, Callers
      <4> QED BY <2>2, <3>1, <4>1 DEF Raced, IsOf
    <3>3. engine[t][s] = IF affinity[t][s] = "on" THEN 1 ELSE 0
      BY <1>2, <2>3, <3>2 DEF InStep, Callers
    <3>4. affinity'[t][s] = "on" <=> on BY <1>4, <1>8, <2>4
    <3>5. affinity[t][s] = "on" <=> ~on BY <1>6, <2>4
    <3> QED BY <1>3, <1>5, <1>7, <3>1, <3>2, <3>3, <3>4, <3>5 DEF InStep, Callers
  <2>5. CASE ~(t = u /\ s = r /\ cs # {})
    <3>1. affinity'[t][s] = "on" <=> affinity[t][s] = "on" BY <1>4, <1>6, <1>8, <2>5
    <3>2. ~\E c \in cs : IsOf(c, t, s) BY <1>5, <2>5 DEF IsOf
    <3> QED BY <1>2, <1>3, <1>7, <2>3, <3>1, <3>2 DEF InStep, Callers
  <2> QED BY <2>4, <2>5
<1> QED BY <1>9, <1>10, <1>11 DEF UniverseInv

LEMMA FireKeeps ==
    ASSUME UniverseInv, NEW th \in Callers, FireAffinityChange(th) PROVE UniverseInv'
<1>1. PICK c \in pending[th] :
          /\ pending' = [pending EXCEPT ![th] = @ \ {c}]
          /\ Enable(c) \/ Disable(c)
  BY DEF FireAffinityChange
<1>2. UNCHANGED <<approved, pool, affinity, activeSince, trades, fallback, clock, spent,
                  entered, adrift>>
  BY DEF FireAffinityChange
<1>3. /\ engine \in [Tickers -> [Names -> Nat]] /\ pending \in [Callers -> SUBSET ChangeType]
      /\ controllers \subseteq Tickers \union {Leader}
  BY DEF UniverseInv, TypeInv, UniverseTypeOK
<1>4. c \in ChangeType BY <1>3
<1>5. c.ticker \in Tickers /\ c.name \in Names /\ c.enabled \in BOOLEAN BY <1>4 DEF ChangeType
<1>6. /\ engine' \in [Tickers -> [Names -> Nat]]
      /\ \A t \in Tickers, s \in Names :
            engine'[t][s] = IF ~IsOf(c, t, s) THEN engine[t][s]
                            ELSE IF c.enabled THEN engine[t][s] + 1 ELSE 0
  BY <1>1, <1>3, <1>5 DEF Enable, Disable, IsOf
<1>7. controllers' \subseteq Tickers \union {Leader} BY <1>1, <1>3, <1>5 DEF Enable, Disable
<1>8. /\ pending' \in [Callers -> SUBSET ChangeType]
      /\ \A o \in Callers : pending'[o] = IF o = th THEN pending[o] \ {c} ELSE pending[o]
  BY <1>1, <1>3
<1>9. TypeInv' BY <1>2, <1>6, <1>7, <1>8 DEF UniverseInv, TypeInv, UniverseTypeOK
<1>10. SinceEntered' BY <1>2 DEF UniverseInv, SinceEntered
<1>11. AllInStep'
  <2>1. SUFFICES ASSUME NEW t \in Tickers, NEW s \in Names, <<t, s>> \notin adrift
                 PROVE  InStep(affinity', pending', engine', t, s)
    BY <1>2 DEF AllInStep
  <2>2. InStep(affinity, pending, engine, t, s) BY <2>1 DEF UniverseInv, AllInStep
  <2>3. CASE IsOf(c, t, s)
    <3>1. ASSUME NEW o \in Callers, NEW d \in pending'[o] PROVE ~IsOf(d, t, s)
      <4>1. d \in pending[o] BY <1>8, <3>1
      <4>2. CASE o = th
        <5>1. SUFFICES ASSUME IsOf(d, t, s) PROVE FALSE OBVIOUS
        <5>2. d.enabled <=> c.enabled BY <2>2, <2>3, <4>1, <4>2, <5>1 DEF InStep
        <5>3. d \in ChangeType /\ d.ticker = c.ticker /\ d.name = c.name
          BY <1>3, <2>3, <4>1, <5>1 DEF IsOf
        <5>4. d.enabled = c.enabled BY <1>4, <5>2, <5>3, Zenon DEF ChangeType
        <5>5. d = c BY <1>4, <5>3, <5>4 DEF ChangeType
        <5> QED BY <1>8, <3>1, <4>2, <5>5
      <4>3. CASE o # th
        BY <2>2, <2>3, <4>1, <4>3 DEF InStep, Callers
      <4> QED BY <4>2, <4>3
    <3>2. engine'[t][s] = IF affinity[t][s] = "on" THEN 1 ELSE 0
      <4>1. (c.enabled <=> affinity[t][s] = "on") /\ engine[t][s] = IF c.enabled THEN 0 ELSE 1
        BY <2>2, <2>3 DEF InStep
      <4> QED BY <1>6, <2>3, <4>1
    <3> QED BY <1>2, <3>1, <3>2 DEF InStep, Callers
  <2>4. CASE ~IsOf(c, t, s)
    <3>1. engine'[t][s] = engine[t][s] BY <1>6, <2>4
    <3>2. \A o \in Callers : \A d : IsOf(d, t, s) => (d \in pending'[o] <=> d \in pending[o])
      BY <1>8, <2>4
    <3> QED BY <1>2, <2>2, <3>1, <3>2 DEF InStep, Callers
  <2> QED BY <2>3, <2>4
<1> QED BY <1>9, <1>10, <1>11 DEF UniverseInv

-----------------------------------------------------------------------------
(* The specification. *)

LEMMA UniverseInitially == UniverseInit => UniverseInv
<1> SUFFICES ASSUME UniverseInit PROVE UniverseInv OBVIOUS
<1>1. Cardinality(pool) <= MaxPool
  <2>1. pool = {} /\ Cardinality({}) = 0 BY FS_EmptySet DEF UniverseInit
  <2> QED BY <2>1, UniverseAssumption
<1>2. affinity \in AffinityType /\ \A t \in Tickers, s \in Names : affinity[t][s] # "on"
  BY DEF UniverseInit, Unknown, AffinityType, Affinities
<1>3. TypeInv
  BY <1>1, <1>2 DEF UniverseInit, TypeInv, UniverseTypeOK, AffinityType, Affinities
<1>4. SinceEntered BY DEF UniverseInit, SinceEntered
<1>5. AllInStep BY <1>2 DEF UniverseInit, AllInStep, InStep, Callers
<1> QED BY <1>3, <1>4, <1>5 DEF UniverseInv

LEMMA UniverseStep == UniverseInv /\ [UniverseNext]_universeVars => UniverseInv'
<1> SUFFICES ASSUME UniverseInv, [UniverseNext]_universeVars PROVE UniverseInv' OBVIOUS
<1>1. ASSUME NEW t \in Tickers, OnScreenerNewCoin(t) PROVE UniverseInv'
  BY <1>1, NewCoinKeeps
<1>2. ASSUME NEW t \in Tickers, Plan(t) \/ TradeEnds(t) PROVE UniverseInv'
  BY <1>2 DEF Plan, TradeEnds, UniverseInv, TypeInv, UniverseTypeOK, SinceEntered, AllInStep
<1>3. ASSUME NEW t \in Tickers, NEW s \in Names, NEW on \in BOOLEAN, OverrideAffinity(t, s, on)
      PROVE  UniverseInv'
  BY <1>3, OverrideKeeps
<1>4. ASSUME NEW th \in Callers, FireAffinityChange(th) PROVE UniverseInv'
  BY <1>4, FireKeeps
<1>5. CASE PoolFallback BY <1>5, PoolFallbackKeeps
<1>6. CASE RefreshAffinity BY <1>6, RefreshAffinityKeeps
<1>7. CASE TimePasses
  <2>1. clock' \in Nat \ {0} /\ \A n \in 0..clock : n \in 0..clock'
    BY <1>7 DEF TimePasses, UniverseInv, TypeInv
  <2> QED BY <1>7, <2>1
          DEF TimePasses, UniverseInv, TypeInv, UniverseTypeOK, SinceEntered, AllInStep
<1>8. CASE UNCHANGED universeVars
  BY <1>8 DEF universeVars, UniverseInv, TypeInv, UniverseTypeOK, SinceEntered, AllInStep
<1> QED BY <1>1, <1>2, <1>3, <1>4, <1>5, <1>6, <1>7, <1>8 DEF UniverseNext

LEMMA InStepAgree == UniverseInv => StrategiesAgree
<1> SUFFICES ASSUME UniverseInv, \A th \in Callers : pending[th] = {},
                    NEW t \in Tickers, NEW s \in Names, <<t, s>> \notin adrift
             PROVE  engine[t][s] = IF affinity[t][s] = "on" THEN 1 ELSE 0
  BY DEF StrategiesAgree
<1>1. InStep(affinity, pending, engine, t, s) BY DEF UniverseInv, AllInStep
<1> QED BY <1>1 DEF InStep

\* The affinity handler: when every change has been handed on, the engine runs
\* one strategy of each enabled name and none of the others.
THEOREM EngineFollowsAffinity == UniverseSpec => []StrategiesAgree
<1> QED BY UniverseInitially, UniverseStep, InStepAgree, PTL DEF UniverseSpec

LEMMA StableStep ==
    ASSUME UniverseInv, UniverseNext, NEW t \in trades' \ trades
    PROVE  t \in pool /\ clock - entered[t] >= StableMin
<1>1. PICK u \in Tickers : Plan(u)
  <2>1. \A u \in Tickers : OnScreenerNewCoin(u) \/ TradeEnds(u) => trades' \subseteq trades
    BY DEF OnScreenerNewCoin, TradeEnds
  <2>2. \A u \in Tickers, s \in Names, on \in BOOLEAN :
            OverrideAffinity(u, s, on) => trades' \subseteq trades
    BY DEF OverrideAffinity
  <2>3. \A th \in Callers : FireAffinityChange(th) => trades' \subseteq trades
    BY DEF FireAffinityChange
  <2>4. PoolFallback \/ RefreshAffinity \/ TimePasses => trades' \subseteq trades
    BY DEF PoolFallback, RefreshAffinity, TimePasses
  <2> QED BY <2>1, <2>2, <2>3, <2>4 DEF UniverseNext
<1>2. u = t BY <1>1 DEF Plan
<1>3. activeSince[t] # 0 /\ clock - activeSince[t] >= StableMin /\ t \in Tickers
  BY <1>1, <1>2 DEF Plan, IsAffinityStable
<1>4. t \in pool BY <1>3 DEF UniverseInv, TypeInv, UniverseTypeOK
<1> QED BY <1>3, <1>4 DEF UniverseInv, SinceEntered

\* is_affinity_stable: a trade begins only for a ticker that has been in the pool
\* without a break for the stable time.
THEOREM TradesAreStable == UniverseSpec => TradesStable
<1>1. UniverseInv /\ [UniverseNext]_universeVars =>
          [\A t \in trades' \ trades : t \in pool /\ clock - entered[t] >= StableMin]_universeVars
  BY StableStep DEF universeVars
<1> QED BY <1>1, UniverseInitially, UniverseStep, PTL DEF UniverseSpec, TradesStable

-----------------------------------------------------------------------------
(* Strategies.  The plan a strategy has made stays with it until its time is  *)
(* over, and meanwhile it makes no other: the order that came of the plan,    *)
(* and the thread on its way with it, are the only ones.                      *)

OrderType == [id : Nat \ {Gone}, s : Strategies, age : Nat, open : BOOLEAN, asked : BOOLEAN]
WatchType == [s : Strategies, dir : {-1, 1}, id : Nat]
PlanType  == [s : Strategies, left : Int]
OnTheWay  == [at : {"risk", "notify"}, s : Strategies, dir : {-1, 1}, id : Nat]

EngineType ==
    /\ added \subseteq Strategies
    /\ plans \subseteq PlanType /\ watch \subseteq WatchType /\ orders \subseteq OrderType
    /\ doing \in [Threads -> OnTheWay \union {Free}]

Engaged(th) == doing[th].at \in {"risk", "notify"}

\* An order its strategy may not yet follow by another.
Young(o) == o.age <= Ttl[o.s]

OnePlanEach == \A p, q \in plans : p.s = q.s => p = q
IdsUnique   == \A o, p \in orders : o.id = p.id => o = p

\* An accepted plan is kept as long as its order is young.
PlanKept == \A o \in orders : Young(o) => \E p \in plans : p.s = o.s /\ p.left = Ttl[o.s] - o.age

OneYoungEach == \A o, p \in orders : Young(o) /\ Young(p) /\ o.s = p.s => o = p

\* No second passes between a plan and its callback, and no other thread makes
\* a plan for the strategy meanwhile.
FreshPlan == \A th \in Threads : Engaged(th) =>
                \E p \in plans : p.s = doing[th].s /\ p.left = Ttl[doing[th].s]
Apart == \A th, ot \in Threads :
            Engaged(th) /\ Engaged(ot) /\ doing[th].s = doing[ot].s => th = ot

\* A plan waiting for the risk manager is the only thing its strategy follows.
NothingElse == \A th \in Threads : doing[th].at = "risk" =>
                  \A o \in orders : o.s = doing[th].s => ~Young(o) /\ (o.s = "Bounce" => o.asked)

\* An accepted plan about to be watched has its order, unless that is over.
AboutToWatch == \A th \in Threads : doing[th].at = "notify" =>
    /\ doing[th].id # Gone => \E o \in orders : o.id = doing[th].id /\ o.s = doing[th].s
    /\ \A o \in orders : o.s = "Bounce" /\ doing[th].s = "Bounce" /\ ~o.asked
                           => o.id = doing[th].id

EngineInv ==
    /\ EngineType /\ OnePlanEach /\ IdsUnique /\ PlanKept /\ OneYoungEach
    /\ FreshPlan /\ Apart /\ NothingElse /\ AboutToWatch /\ BounceWatched

LEMMA ForgetIs ==
    ASSUME NEW x \in OnTheWay \union {Free}, NEW ids
    PROVE  /\ Forget(x, ids) \in OnTheWay \union {Free}
           /\ Forget(x, ids).at = x.at
           /\ Forget(x, ids).id = IF x.id \in ids THEN Gone ELSE x.id
           /\ x.at \in {"risk", "notify"} => Forget(x, ids).s = x.s
<1>1. CASE x.id \notin ids BY <1>1 DEF Forget
<1>2. CASE x.id \in ids
  <2>1. Forget(x, ids) = [x EXCEPT !.id = Gone] BY <1>2 DEF Forget
  <2>2. CASE x = Free BY <1>2, <2>1, <2>2 DEF Free, Gone
  <2>3. CASE x \in OnTheWay BY <1>2, <2>1, <2>3 DEF OnTheWay, Gone
  <2> QED BY <2>2, <2>3
<1> QED BY <1>1, <1>2

LEMMA ForgetWatchIs ==
    ASSUME NEW w \in WatchType, NEW ids
    PROVE  /\ Forget(w, ids) \in WatchType /\ Forget(w, ids).s = w.s
           /\ w.id \notin ids => Forget(w, ids).id = w.id
BY DEF Forget, WatchType, Gone

LEMMA DoingIs ==
    ASSUME EngineType, NEW th \in Threads
    PROVE  /\ doing[th] \in OnTheWay \union {Free}
           /\ Engaged(th) => doing[th] \in OnTheWay /\ doing[th].s \in Strategies
           /\ doing[th].at \in {"risk", "notify"} <=> doing[th] # Free
           /\ Free.at = "idle" /\ ~(Free.at \in {"risk", "notify"})
BY DEF EngineType, Engaged, OnTheWay, Free

LEMMA TtlIs == ASSUME NEW s \in Strategies PROVE Ttl[s] \in Nat
BY StrategiesAssumption

-----------------------------------------------------------------------------
(* Steps that make no plan and accept none. *)

\* What becomes of an order that stays: only asked may be set, or open.
Same(o2, o) == o2.id = o.id /\ o2.s = o.s /\ o2.age = o.age /\ (o.asked => o2.asked)

OrdersStay ==
    /\ orders' \subseteq OrderType /\ IdsUnique'
    /\ \A o2 \in orders' : \E o \in orders : Same(o2, o)

\* Plans go only when their time is over.
PlansStay ==
    /\ plans' \subseteq plans
    /\ \A p \in plans : p.left >= 0 => p \in plans'

\* Threads may lose an order that is no more.
ThreadsStay ==
    /\ doing' \in [Threads -> OnTheWay \union {Free}]
    /\ \A th \in Threads :
          /\ doing'[th].at = doing[th].at
          /\ Engaged(th) =>
                /\ doing'[th].s = doing[th].s
                /\ doing'[th].id # Gone => doing'[th].id = doing[th].id
                /\ doing[th].at = "notify" /\ doing'[th].id # Gone =>
                      \E o2 \in orders' : o2.id = doing'[th].id
                /\ \A o2 \in orders' : o2.id = doing[th].id => doing'[th].id = doing[th].id

\* A bounce is watched as long as its order stays, unless its close is asked for.
WatchStays ==
    /\ watch' \subseteq WatchType
    /\ \A o2 \in orders', w \in watch :
          w.s = "Bounce" /\ w.id = o2.id /\ ~o2.asked =>
              \E w2 \in watch' : w2.s = "Bounce" /\ w2.id = o2.id

LEMMA Stays ==
    ASSUME EngineInv, added' \subseteq Strategies, OrdersStay, PlansStay, ThreadsStay,
           WatchStays
    PROVE  EngineInv'
<1> USE DEF EngineInv
<1>0. \A o \in orders : o.s \in Strategies /\ o.age \in Nat /\ o.id # Gone /\ Ttl[o.s] \in Nat
  BY TtlIs DEF EngineType, OrderType
<1>1. EngineType'
  BY DEF EngineType, OrdersStay, PlansStay, ThreadsStay, WatchStays
<1>2. OnePlanEach' BY DEF OnePlanEach, PlansStay
<1>3. IdsUnique' BY DEF OrdersStay
<1>4. PlanKept'
  <2> SUFFICES ASSUME NEW o2 \in orders', Young(o2)
               PROVE  \E p \in plans' : p.s = o2.s /\ p.left = Ttl[o2.s] - o2.age
    BY DEF PlanKept, Young
  <2>1. PICK o \in orders : Same(o2, o) BY DEF OrdersStay
  <2>2. Young(o) BY <2>1 DEF Same, Young
  <2>3. PICK p \in plans : p.s = o.s /\ p.left = Ttl[o.s] - o.age
    BY <2>2 DEF PlanKept
  <2>4. p.left >= 0 BY <1>0, <2>2, <2>3 DEF Young
  <2> QED BY <2>1, <2>3, <2>4 DEF PlansStay, Same
<1>5. OneYoungEach'
  <2> SUFFICES ASSUME NEW o2 \in orders', NEW p2 \in orders', Young(o2), Young(p2),
                      o2.s = p2.s
               PROVE  o2 = p2
    BY DEF OneYoungEach, Young
  <2>1. PICK o \in orders : Same(o2, o) BY DEF OrdersStay
  <2>2. PICK p \in orders : Same(p2, p) BY DEF OrdersStay
  <2>3. o = p BY <2>1, <2>2 DEF Same, Young, OneYoungEach
  <2> QED BY <1>3, <2>1, <2>2, <2>3 DEF Same, IdsUnique
<1>6. \A th \in Threads : /\ Engaged(th)' => Engaged(th) /\ doing'[th].s = doing[th].s
                          /\ doing'[th].at = doing[th].at
  BY DEF ThreadsStay, Engaged
<1>7. FreshPlan'
  <2> SUFFICES ASSUME NEW th \in Threads, Engaged(th)'
               PROVE  \E p \in plans' : p.s = doing'[th].s /\ p.left = Ttl[doing'[th].s]
    BY DEF FreshPlan
  <2>1. Engaged(th) /\ doing'[th].s = doing[th].s BY <1>6
  <2>2. PICK p \in plans : p.s = doing[th].s /\ p.left = Ttl[doing[th].s]
    BY <2>1 DEF FreshPlan
  <2>3. p.left >= 0 BY <2>1, <2>2, DoingIs, TtlIs
  <2> QED BY <2>1, <2>2, <2>3 DEF PlansStay
<1>8. Apart' BY <1>6 DEF Apart
<1>9. NothingElse'
  <2> SUFFICES ASSUME NEW th \in Threads, doing'[th].at = "risk",
                      NEW o2 \in orders', o2.s = doing'[th].s
               PROVE  ~Young(o2) /\ (o2.s = "Bounce" => o2.asked)
    BY DEF NothingElse, Young
  <2>1. doing[th].at = "risk" /\ doing'[th].s = doing[th].s
    BY <1>6 DEF Engaged
  <2>2. PICK o \in orders : Same(o2, o) BY DEF OrdersStay
  <2> QED BY <2>1, <2>2 DEF NothingElse, Same, Young
<1>10. AboutToWatch'
  <2> SUFFICES ASSUME NEW th \in Threads, doing'[th].at = "notify"
               PROVE  /\ doing'[th].id # Gone =>
                            \E o2 \in orders' : o2.id = doing'[th].id /\ o2.s = doing'[th].s
                      /\ \A o2 \in orders' :
                            o2.s = "Bounce" /\ doing'[th].s = "Bounce" /\ ~o2.asked
                              => o2.id = doing'[th].id
    BY DEF AboutToWatch
  <2>1. /\ doing[th].at = "notify" /\ Engaged(th) /\ doing'[th].s = doing[th].s
    BY <1>6 DEF Engaged
  <2>2. ASSUME doing'[th].id # Gone
        PROVE  \E o2 \in orders' : o2.id = doing'[th].id /\ o2.s = doing'[th].s
    <3>1. doing'[th].id = doing[th].id BY <2>1, <2>2 DEF ThreadsStay
    <3>2. PICK o2 \in orders' : o2.id = doing'[th].id BY <2>1, <2>2 DEF ThreadsStay
    <3>3. PICK o \in orders : Same(o2, o) BY DEF OrdersStay
    <3>4. PICK p \in orders : p.id = doing[th].id /\ p.s = doing[th].s
      BY <2>1, <2>2, <3>1 DEF AboutToWatch
    <3>5. o = p BY <3>1, <3>2, <3>3, <3>4 DEF Same, IdsUnique
    <3> QED BY <2>1, <3>2, <3>3, <3>4, <3>5 DEF Same
  <2>3. ASSUME NEW o2 \in orders', o2.s = "Bounce", doing'[th].s = "Bounce", ~o2.asked
        PROVE  o2.id = doing'[th].id
    <3>1. PICK o \in orders : Same(o2, o) BY DEF OrdersStay
    <3>2. o.id = doing[th].id BY <2>1, <2>3, <3>1 DEF Same, AboutToWatch
    <3>3. o2.id = doing[th].id BY <3>1, <3>2 DEF Same
    <3> QED BY <2>1, <3>3 DEF ThreadsStay
  <2> QED BY <2>2, <2>3
<1>11. BounceWatched'
  <2> SUFFICES ASSUME NEW o2 \in orders', o2.s = "Bounce", ~o2.asked
               PROVE  \/ \E w2 \in watch' : w2.s = "Bounce" /\ w2.id = o2.id
                      \/ \E th \in Threads : doing'[th].at = "notify" /\ doing'[th].id = o2.id
    BY DEF BounceWatched
  <2>1. PICK o \in orders : Same(o2, o) BY DEF OrdersStay
  <2>2. o.s = "Bounce" /\ ~o.asked /\ o.id = o2.id BY <2>1 DEF Same
  <2>3. CASE \E w \in watch : w.s = "Bounce" /\ w.id = o.id
    BY <2>2, <2>3 DEF WatchStays
  <2>4. CASE \E th \in Threads : doing[th].at = "notify" /\ doing[th].id = o.id
    <3>1. PICK th \in Threads : doing[th].at = "notify" /\ doing[th].id = o.id BY <2>4
    <3>2. doing'[th].id = o2.id BY <2>2, <3>1 DEF ThreadsStay, Engaged
    <3> QED BY <1>6, <3>1, <3>2
  <2> QED BY <2>2, <2>3, <2>4 DEF BounceWatched
<1> QED BY <1>1, <1>2, <1>3, <1>4, <1>5, <1>7, <1>8, <1>9, <1>10, <1>11

LEMMA ThreadsAndOrdersStay ==
    ASSUME EngineInv, UNCHANGED <<orders, doing>> PROVE OrdersStay /\ ThreadsStay
<1> USE DEF EngineInv, EngineType
<1>1. OrdersStay BY DEF OrdersStay, IdsUnique, Same
<1>2. ASSUME NEW th \in Threads, doing[th].at = "notify", doing[th].id # Gone
      PROVE  \E o2 \in orders : o2.id = doing[th].id
  BY <1>2 DEF AboutToWatch
<1> QED BY <1>1, <1>2 DEF ThreadsStay

\* Ids of orders that are gone are forgotten by the threads.
LEMMA ThreadsForget ==
    ASSUME EngineInv, NEW ids,
           doing' = [th \in Threads |-> Forget(doing[th], ids)],
           \A o2 \in orders' : o2.id \notin ids,
           \A o \in orders : o.id \notin ids => \E o2 \in orders' : o2.id = o.id
    PROVE  ThreadsStay
<1> USE DEF EngineInv
<1>1. ASSUME NEW th \in Threads
      PROVE  /\ doing'[th] \in OnTheWay \union {Free}
             /\ doing'[th].at = doing[th].at
             /\ doing'[th].id = IF doing[th].id \in ids THEN Gone ELSE doing[th].id
             /\ Engaged(th) => doing'[th].s = doing[th].s
  BY DoingIs, ForgetIs DEF Engaged
<1>2. doing' \in [Threads -> OnTheWay \union {Free}] BY <1>1
<1>3. ASSUME NEW th \in Threads, doing[th].at = "notify", doing'[th].id # Gone
      PROVE  \E o2 \in orders' : o2.id = doing'[th].id
  <2>1. doing'[th].id = doing[th].id /\ doing[th].id \notin ids BY <1>1, <1>3
  <2>2. PICK o \in orders : o.id = doing[th].id BY <1>3, <2>1 DEF AboutToWatch
  <2> QED BY <2>1, <2>2
<1> QED BY <1>1, <1>2, <1>3 DEF ThreadsStay

LEMMA PlansUntouched == plans' = plans => PlansStay
BY DEF PlansStay

LEMMA EngineFrameKeeps == ASSUME EngineInv, EngineFrame PROVE EngineInv'
<1> USE DEF EngineInv
<1> DEFINE ids == {o.id : o \in {x \in orders : x.open}}
<1>1. PICK over \in SUBSET {w \in watch : Invalidated(w)} :
        /\ watch' = IF over = {} THEN watch ELSE {Forget(w, ids) : w \in watch \ over}
        /\ doing' = IF over = {} THEN doing
                    ELSE [other \in Threads |-> Forget(doing[other], ids)]
        /\ orders' = IF over = {} THEN orders
                     ELSE {[o EXCEPT !.asked = @ \/ \E w \in over : w.id = o.id] :
                             o \in {x \in orders : ~x.open}}
  BY DEF EngineFrame
<1>2. added' = added /\ PlansStay BY PlansUntouched DEF EngineFrame
<1>3. added' \subseteq Strategies BY <1>2 DEF EngineType
<1>4. CASE over = {}
  <2>1. UNCHANGED <<watch, doing, orders>> BY <1>1, <1>4
  <2>2. OrdersStay /\ ThreadsStay BY <2>1, ThreadsAndOrdersStay
  <2>3. WatchStays BY <2>1 DEF WatchStays, EngineType
  <2> QED BY <1>2, <1>3, <2>2, <2>3, Stays
<1>5. CASE over # {}
  <2> DEFINE Asked(o) == [o EXCEPT !.asked = @ \/ \E w \in over : w.id = o.id]
  <2>1. ASSUME NEW o \in orders
        PROVE  /\ Asked(o) \in OrderType /\ Same(Asked(o), o)
               /\ (\E w \in over : w.id = o.id) => Asked(o).asked
    <3>1. o \in OrderType BY DEF EngineType
    <3>2. PICK v \in BOOLEAN : v = (o.asked \/ \E w \in over : w.id = o.id)
      BY <3>1 DEF OrderType
    <3>3. Asked(o) = [o EXCEPT !.asked = v] BY <3>2
    <3> HIDE DEF Asked
    <3> QED BY <3>1, <3>2, <3>3 DEF OrderType, Same
  <2>2. orders' = {Asked(o) : o \in {x \in orders : ~x.open}} BY <1>1, <1>5
  <2> HIDE DEF Asked
  <2>3. OrdersStay
    <3>1. IdsUnique' BY <2>1, <2>2 DEF IdsUnique, Same
    <3> QED BY <2>1, <2>2, <3>1 DEF OrdersStay
  <2>4. ASSUME NEW o2 \in orders' PROVE o2.id \notin ids
    <3>1. PICK o \in orders : ~o.open /\ o2 = Asked(o) BY <2>2
    <3>2. o2.id = o.id BY <2>1, <3>1 DEF Same
    <3> QED BY <3>1, <3>2 DEF IdsUnique
  <2>5. ASSUME NEW o \in orders, o.id \notin ids PROVE \E o2 \in orders' : o2.id = o.id
    <3>1. ~o.open BY <2>5
    <3>2. Asked(o) \in orders' BY <2>2, <3>1
    <3> QED BY <2>1, <3>2 DEF Same
  <2>6. ThreadsStay
    <3>1. doing' = [th \in Threads |-> Forget(doing[th], ids)] BY <1>1, <1>5
    <3> HIDE DEF ids
    <3> QED BY <2>4, <2>5, <3>1, ThreadsForget
  <2>7. WatchStays
    <3>1. watch' = {Forget(w, ids) : w \in watch \ over} BY <1>1, <1>5
    <3> HIDE DEF ids
    <3>2. watch \subseteq WatchType BY DEF EngineType
    <3>3. watch' \subseteq WatchType BY <3>1, <3>2, ForgetWatchIs
    <3>4. ASSUME NEW o2 \in orders', NEW w \in watch, w.s = "Bounce", w.id = o2.id,
                 ~o2.asked
          PROVE  \E w2 \in watch' : w2.s = "Bounce" /\ w2.id = o2.id
      <4>1. PICK o \in orders : o2 = Asked(o) BY <2>2
      <4>2. w.id = o.id BY <2>1, <3>4, <4>1 DEF Same
      <4>3. w \notin over BY <2>1, <3>4, <4>1, <4>2
      <4>4. w.id \notin ids BY <2>4, <3>4
      <4>5. Forget(w, ids) \in watch' BY <3>1, <4>3
      <4> QED BY <3>2, <3>4, <4>4, <4>5, ForgetWatchIs
    <3> QED BY <3>3, <3>4 DEF WatchStays
  <2> QED BY <1>2, <1>3, <2>3, <2>6, <2>7, Stays
<1> QED BY <1>4, <1>5

LEMMA FillKeeps == ASSUME EngineInv, NEW o \in orders, Fill(o) PROVE EngineInv'
<1> USE DEF EngineInv
<1> DEFINE f == [o EXCEPT !.open = TRUE]
<1>1. /\ orders' = (orders \ {o}) \cup {f}
      /\ UNCHANGED <<added, plans, watch, doing>>
  BY DEF Fill
<1>2. o \in OrderType /\ f \in OrderType /\ Same(f, o) BY DEF EngineType, OrderType, Same
<1> HIDE DEF f
<1>3. OrdersStay
  <2>1. orders' \subseteq OrderType BY <1>1, <1>2 DEF EngineType
  <2>2. ASSUME NEW p \in orders' PROVE \E q \in orders : Same(p, q)
    BY <1>1, <1>2 DEF Same
  <2>3. \A p, q \in orders \ {o} : p.id = q.id => p = q BY DEF IdsUnique
  <2>4. \A p \in orders \ {o} : p.id # f.id BY <1>2 DEF IdsUnique, Same
  <2>5. IdsUnique' BY <1>1, <2>3, <2>4 DEF IdsUnique
  <2> QED BY <2>1, <2>2, <2>5 DEF OrdersStay
<1>4. \A p \in orders : \E q \in orders' : q.id = p.id
  BY <1>1, <1>2 DEF Same
<1>5. ASSUME NEW th \in Threads, doing[th].at = "notify", doing[th].id # Gone
      PROVE  \E q \in orders' : q.id = doing[th].id
  BY <1>4, <1>5 DEF AboutToWatch
<1>6. ThreadsStay BY <1>1, <1>5 DEF ThreadsStay, EngineType
<1>7. WatchStays BY <1>1 DEF WatchStays, EngineType
<1>8. PlansStay /\ added' \subseteq Strategies BY <1>1, PlansUntouched DEF EngineType
<1> QED BY <1>3, <1>6, <1>7, <1>8, Stays

LEMMA EndsKeeps == ASSUME EngineInv, NEW o \in orders, Ends(o) PROVE EngineInv'
<1> USE DEF EngineInv
<1>1. /\ orders' = orders \ {o}
      /\ watch' = {Forget(w, {o.id}) : w \in watch}
      /\ doing' = [th \in Threads |-> Forget(doing[th], {o.id})]
      /\ UNCHANGED <<added, plans>>
  BY DEF Ends
<1>2. \A p \in orders' : p \in orders /\ p.id # o.id BY <1>1 DEF IdsUnique
<1>3. OrdersStay BY <1>2 DEF OrdersStay, EngineType, IdsUnique, Same
<1>4. \A p \in orders : p.id \notin {o.id} => \E q \in orders' : q.id = p.id
  BY <1>1
<1>5. ThreadsStay
  <2>1. \A p \in orders' : p.id \notin {o.id} BY <1>2
  <2> QED BY <1>1, <1>4, <2>1, ThreadsForget
<1>6. WatchStays
  <2>1. watch \subseteq WatchType BY DEF EngineType
  <2>2. watch' \subseteq WatchType BY <1>1, <2>1, ForgetWatchIs
  <2>3. ASSUME NEW p \in orders', NEW w \in watch, w.s = "Bounce", w.id = p.id
        PROVE  \E w2 \in watch' : w2.s = "Bounce" /\ w2.id = p.id
    <3>1. w.id \notin {o.id} BY <1>2, <2>3
    <3>2. Forget(w, {o.id}) \in watch' BY <1>1
    <3> QED BY <2>1, <2>3, <3>1, <3>2, ForgetWatchIs
  <2> QED BY <2>2, <2>3 DEF WatchStays
<1>7. PlansStay /\ added' \subseteq Strategies BY <1>1, PlansUntouched DEF EngineType
<1> QED BY <1>3, <1>5, <1>6, <1>7, Stays

-----------------------------------------------------------------------------
(* A plan is made, accepted or rejected. *)

LEMMA DecidingIs ==
    ASSUME NEW s \in Strategies, NEW d \in {-1, 1}
    PROVE  /\ Deciding(s, d) \in OnTheWay /\ Deciding(s, d).at = "risk"
           /\ Deciding(s, d).s = s
           /\ NewPlan(s) \in PlanType /\ NewPlan(s).s = s /\ NewPlan(s).left = Ttl[s]
BY TtlIs DEF Deciding, NewPlan, OnTheWay, PlanType, Gone

\* Thread th makes a plan for s, which has none whose time is not over and, if
\* it is the bounce, watches nothing.
MakesPlan(th, s, d) ==
    /\ doing[th] = Free
    /\ \E kept \in SUBSET plans :
          /\ \A p \in plans : p.left >= 0 => p \in kept
          /\ \A p \in kept : p.s # s
          /\ plans' = kept \cup {NewPlan(s)}
    /\ doing' = [doing EXCEPT ![th] = Deciding(s, d)]
    /\ UNCHANGED <<added, orders>>
    /\ watch' \subseteq watch /\ \A w \in watch : w.s = "Bounce" => w \in watch'
    /\ s = "Bounce" => ~Watched("Bounce")

LEMMA PlanMade ==
    ASSUME EngineInv, NEW th \in Threads, NEW s \in Strategies, NEW d \in {-1, 1},
           MakesPlan(th, s, d)
    PROVE  EngineInv'
<1> USE DEF EngineInv
<1>1. PICK kept \in SUBSET plans :
          /\ \A p \in plans : p.left >= 0 => p \in kept
          /\ \A p \in kept : p.s # s
          /\ plans' = kept \cup {NewPlan(s)}
  BY DEF MakesPlan
<1>2. /\ doing[th] = Free /\ doing' = [doing EXCEPT ![th] = Deciding(s, d)]
      /\ added' = added /\ orders' = orders
      /\ watch' \subseteq watch /\ \A w \in watch : w.s = "Bounce" => w \in watch'
  BY DEF MakesPlan
<1>3. /\ Deciding(s, d) \in OnTheWay /\ Deciding(s, d).at = "risk" /\ Deciding(s, d).s = s
      /\ NewPlan(s) \in PlanType /\ NewPlan(s).s = s /\ NewPlan(s).left = Ttl[s]
  BY DecidingIs
<1> HIDE DEF EngineInv
<1>4. doing'[th] = Deciding(s, d) /\ \A ot \in Threads : ot # th => doing'[ot] = doing[ot]
  BY <1>2 DEF EngineInv, EngineType
<1> USE DEF EngineInv
<1>5. \A o \in orders : o.s \in Strategies /\ o.age \in Nat /\ Ttl[o.s] \in Nat
  BY TtlIs DEF EngineType, OrderType
<1>6. ASSUME NEW o \in orders, Young(o)
      PROVE  o.s # s /\ \E p \in kept : p.s = o.s /\ p.left = Ttl[o.s] - o.age
  <2>1. PICK p \in plans : p.s = o.s /\ p.left = Ttl[o.s] - o.age
    BY <1>6 DEF PlanKept
  <2>2. p.left >= 0 BY <1>5, <1>6, <2>1 DEF Young
  <2> QED BY <1>1, <2>1, <2>2
<1>7. ASSUME NEW ot \in Threads, Engaged(ot)
      PROVE  /\ ot # th /\ doing[ot].s # s
             /\ \E p \in kept : p.s = doing[ot].s /\ p.left = Ttl[doing[ot].s]
  <2>1. ot # th BY <1>2, <1>7, DoingIs DEF Engaged
  <2>2. PICK p \in plans : p.s = doing[ot].s /\ p.left = Ttl[doing[ot].s]
    BY <1>7 DEF FreshPlan
  <2>3. p.left >= 0 BY <1>7, <2>2, DoingIs, TtlIs
  <2> QED BY <1>1, <2>1, <2>2, <2>3
<1>8. ASSUME NEW o \in orders, o.s = s PROVE ~Young(o) /\ (s = "Bounce" => o.asked)
  <2>1. ~Young(o) BY <1>6, <1>8
  <2>2. ASSUME s = "Bounce", ~o.asked PROVE FALSE
    <3>1. ~Watched("Bounce") BY <2>2 DEF MakesPlan
    <3>2. PICK ot \in Threads : doing[ot].at = "notify" /\ doing[ot].id = o.id
      BY <1>8, <2>2, <3>1 DEF BounceWatched, Watched
    <3>3. doing[ot].id # Gone BY <3>2 DEF EngineType, OrderType
    <3>4. PICK q \in orders : q.id = doing[ot].id /\ q.s = doing[ot].s
      BY <3>2, <3>3 DEF AboutToWatch
    <3>5. q = o BY <3>2, <3>4 DEF IdsUnique
    <3> QED BY <1>7, <1>8, <3>2, <3>4, <3>5 DEF Engaged
  <2> QED BY <2>1, <2>2
<1>9. EngineType'
  <2>1. doing' \in [Threads -> OnTheWay \union {Free}] BY <1>2, <1>3 DEF EngineType
  <2> QED BY <1>1, <1>2, <1>3, <2>1 DEF EngineType
<1>10. OnePlanEach' BY <1>1, <1>3 DEF OnePlanEach
<1>11. IdsUnique' /\ OneYoungEach' BY <1>2 DEF IdsUnique, OneYoungEach, Young
<1>12. PlanKept' BY <1>1, <1>2, <1>6 DEF PlanKept, Young
<1>13. ASSUME NEW ot \in Threads, ot # th
       PROVE  doing'[ot] = doing[ot] /\ Engaged(ot)' = Engaged(ot)
  BY <1>4, <1>13 DEF Engaged
<1>14. FreshPlan'
  <2> SUFFICES ASSUME NEW ot \in Threads, Engaged(ot)'
               PROVE  \E p \in plans' : p.s = doing'[ot].s /\ p.left = Ttl[doing'[ot].s]
    BY DEF FreshPlan
  <2>1. CASE ot = th BY <1>1, <1>3, <1>4, <2>1
  <2>2. CASE ot # th BY <1>1, <1>7, <1>13, <2>2
  <2> QED BY <2>1, <2>2
<1>15. Apart' BY <1>3, <1>4, <1>7, <1>13 DEF Apart
<1>16. NothingElse' BY <1>2, <1>3, <1>4, <1>8 DEF NothingElse, Young
<1>17. AboutToWatch' BY <1>2, <1>3, <1>4 DEF AboutToWatch
<1>18. BounceWatched'
  <2> SUFFICES ASSUME NEW o \in orders, o.s = "Bounce", ~o.asked
               PROVE  \/ \E w \in watch' : w.s = "Bounce" /\ w.id = o.id
                      \/ \E ot \in Threads : doing'[ot].at = "notify" /\ doing'[ot].id = o.id
    BY <1>2 DEF BounceWatched
  <2>1. CASE \E w \in watch : w.s = "Bounce" /\ w.id = o.id BY <1>2, <2>1
  <2>2. CASE \E ot \in Threads : doing[ot].at = "notify" /\ doing[ot].id = o.id
    BY <1>2, <1>4, <2>2 DEF Free
  <2> QED BY <2>1, <2>2 DEF BounceWatched
<1> QED BY <1>9, <1>10, <1>11, <1>12, <1>14, <1>15, <1>16, <1>17, <1>18

LEMMA PublishKeeps ==
    ASSUME EngineInv, NEW th \in Threads, NEW x \in Signals, Publish(th, x)
    PROVE  EngineInv'
<1>1. UNCHANGED <<added, watch, orders>> /\ doing[th] = Free BY DEF Publish
<1>2. CASE UNCHANGED <<plans, doing>>
  <2>1. OrdersStay /\ ThreadsStay BY <1>1, <1>2, ThreadsAndOrdersStay
  <2>2. WatchStays BY <1>1 DEF WatchStays, EngineInv, EngineType
  <2>3. PlansStay /\ added' \subseteq Strategies
    BY <1>1, <1>2, PlansUntouched DEF EngineInv, EngineType
  <2> QED BY <2>1, <2>2, <2>3, Stays
<1>3. ASSUME NEW s \in added, NEW d \in {-1, 1},
             SignalPlan([age EXCEPT ![x] = 0], x.kind, s, d),
             plans' = plans \cup {NewPlan(s)},
             doing' = [doing EXCEPT ![th] = Deciding(s, d)]
      PROVE  EngineInv'
  <2>1. ~Planned(s) /\ (s = "Bounce" => ~Watched("Bounce"))
    BY <1>3 DEF SignalPlan, BouncePlan, BreakoutPlan, FlushPlan
  <2>2. \A p \in plans : p.s # s BY <2>1 DEF Planned
  <2>3. MakesPlan(th, s, d) BY <1>1, <1>3, <2>1, <2>2 DEF MakesPlan
  <2>4. s \in Strategies BY DEF EngineInv, EngineType
  <2> QED BY <2>3, <2>4, PlanMade
<1> QED BY <1>2, <1>3 DEF Publish

LEMMA TickKeeps == ASSUME EngineInv, Tick PROVE EngineInv'
<1> DEFINE kept == {p \in plans : p.left >= 0}
<1> DEFINE watched == IF \E p \in plans \ kept : p.s = "LeaderLag"
                      THEN Without(watch, {"LeaderLag"}) ELSE watch
<1>1. /\ doing["main"] = Free /\ UNCHANGED <<added, orders>>
      /\ \/ /\ watch' \in {watched, Without(watch, {"LeaderLag"})}
            /\ plans' = kept /\ UNCHANGED doing
         \/ \E d \in {-1, 1} :
              /\ \A p \in kept : p.s # "LeaderLag"
              /\ watch' = watched
              /\ plans' = kept \cup {NewPlan("LeaderLag")}
              /\ doing' = [doing EXCEPT !["main"] = Deciding("LeaderLag", d)]
  BY DEF Tick
<1>2. \A set \in {watched, Without(watch, {"LeaderLag"})} :
          set \subseteq watch /\ \A w \in watch : w.s = "Bounce" => w \in set
  BY DEF Without
<1> HIDE DEF watched
<1>3. CASE /\ watch' \in {watched, Without(watch, {"LeaderLag"})}
           /\ plans' = kept /\ UNCHANGED doing
  <2>1. OrdersStay /\ ThreadsStay BY <1>1, <1>3, ThreadsAndOrdersStay
  <2>2. watch' \subseteq watch /\ \A w \in watch : w.s = "Bounce" => w \in watch'
    BY <1>2, <1>3
  <2>3. WatchStays BY <2>2 DEF WatchStays, EngineInv, EngineType
  <2>4. PlansStay /\ added' \subseteq Strategies
    BY <1>1, <1>3 DEF PlansStay, EngineInv, EngineType
  <2> QED BY <2>1, <2>3, <2>4, Stays
<1>4. ASSUME NEW d \in {-1, 1},
             \A p \in kept : p.s # "LeaderLag",
             watch' = watched,
             plans' = kept \cup {NewPlan("LeaderLag")},
             doing' = [doing EXCEPT !["main"] = Deciding("LeaderLag", d)]
      PROVE  EngineInv'
  <2>1. watch' \subseteq watch /\ \A w \in watch : w.s = "Bounce" => w \in watch'
    BY <1>2, <1>4
  <2>2. kept \in SUBSET plans /\ \A p \in plans : p.left >= 0 => p \in kept OBVIOUS
  <2> HIDE DEF kept
  <2>3. MakesPlan("main", "LeaderLag", d) BY <1>1, <1>4, <2>1, <2>2 DEF MakesPlan
  <2>4. "main" \in Threads /\ "LeaderLag" \in Strategies BY DEF Threads, Strategies
  <2> QED BY <2>3, <2>4, PlanMade
<1> QED BY <1>1, <1>3, <1>4

LEMMA RejectedKeeps ==
    ASSUME EngineInv, NEW th \in Threads, Rejected(th) PROVE EngineInv'
<1> USE DEF EngineInv
<1> DEFINE s == doing[th].s
<1>1. /\ doing[th].at = "risk" /\ Engaged(th)
      /\ plans' = Without(plans, {s}) /\ watch' = Without(watch, {s})
      /\ doing' = [doing EXCEPT ![th] = Free]
      /\ UNCHANGED <<added, orders>>
  BY DEF Rejected, Engaged
<1>2. doing'[th] = Free /\ \A ot \in Threads : ot # th => doing'[ot] = doing[ot]
  BY <1>1 DEF EngineType
<1>3. \A ot \in Threads : Engaged(ot)' => ot # th /\ Engaged(ot) /\ doing[ot].s # s
  BY <1>1, <1>2 DEF Engaged, Free, Apart
<1>4. \A o \in orders : o.s = s => ~Young(o) /\ (o.s = "Bounce" => o.asked)
  BY <1>1 DEF NothingElse
<1> HIDE DEF s
<1>5. EngineType' BY <1>1 DEF EngineType, Without
<1>6. OnePlanEach' BY <1>1 DEF OnePlanEach, Without
<1>7. IdsUnique' /\ OneYoungEach' BY <1>1 DEF IdsUnique, OneYoungEach, Young
<1>8. PlanKept' BY <1>1, <1>4 DEF PlanKept, Young, Without
<1>9. FreshPlan'
  <2> SUFFICES ASSUME NEW ot \in Threads, Engaged(ot)'
               PROVE  \E p \in plans' : p.s = doing'[ot].s /\ p.left = Ttl[doing'[ot].s]
    BY DEF FreshPlan
  <2>1. ot # th /\ Engaged(ot) /\ doing[ot].s # s BY <1>3
  <2> QED BY <1>1, <1>2, <2>1 DEF FreshPlan, Without
<1>10. Apart' BY <1>2, <1>3 DEF Apart
<1>11. NothingElse' BY <1>1, <1>2 DEF NothingElse, Young, Free
<1>12. AboutToWatch' BY <1>1, <1>2 DEF AboutToWatch, Free
<1>13. BounceWatched' BY <1>1, <1>2, <1>4 DEF BounceWatched, Without
<1> QED BY <1>5, <1>6, <1>7, <1>8, <1>9, <1>10, <1>11, <1>12, <1>13

LEMMA NotifyingIs ==
    ASSUME NEW x \in OnTheWay, NEW id \in Nat
    PROVE  LET e == [x EXCEPT !.at = "notify", !.id = id]
           IN  e \in OnTheWay /\ e.at = "notify" /\ e.id = id /\ e.s = x.s
BY DEF OnTheWay

\* The order of an accepted plan is a new one.
AcceptsPlan(th, id) ==
    LET n == [id |-> id, s |-> doing[th].s, age |-> 0, open |-> FALSE, asked |-> FALSE]
    IN  /\ orders' = orders \cup {n}
        /\ doing' = [doing EXCEPT ![th] = [doing[th] EXCEPT !.at = "notify", !.id = id]]

LEMMA AcceptedIs ==
    ASSUME NEW th \in Threads, Accepted(th)
    PROVE  \E id \in Unused : AcceptsPlan(th, id)
<1>1. Unused # {} BY DEF Accepted
<1>2. (CHOOSE i \in Unused : TRUE) \in Unused BY <1>1
<1>3. AcceptsPlan(th, CHOOSE i \in Unused : TRUE) BY DEF Accepted, AcceptsPlan
<1> QED BY <1>2, <1>3

LEMMA AcceptedKeeps ==
    ASSUME EngineInv, NEW th \in Threads, Accepted(th) PROVE EngineInv'
<1> USE DEF EngineInv
<1>1. PICK id \in Unused : AcceptsPlan(th, id) BY AcceptedIs
<1> DEFINE s == doing[th].s
<1> DEFINE n == [id |-> id, s |-> s, age |-> 0, open |-> FALSE, asked |-> FALSE]
<1> DEFINE e == [doing[th] EXCEPT !.at = "notify", !.id = id]
<1>2. /\ doing[th].at = "risk" /\ Engaged(th) /\ UNCHANGED <<added, plans, watch>>
      /\ orders' = orders \cup {n} /\ doing' = [doing EXCEPT ![th] = e]
  BY <1>1 DEF Accepted, Engaged, AcceptsPlan
<1>3. id \in Nat \ {Gone} /\ \A o \in orders : o.id # id
  BY StrategiesAssumption DEF Unused, Gone
<1>4. doing[th] \in OnTheWay /\ s \in Strategies /\ Ttl[s] \in Nat BY <1>2, DoingIs, TtlIs
<1>5. e \in OnTheWay /\ e.at = "notify" /\ e.id = id /\ e.s = s
  BY <1>3, <1>4, NotifyingIs
<1>6. n \in OrderType /\ n.id = id /\ n.s = s /\ n.age = 0 /\ n.asked = FALSE
  BY <1>3, <1>4 DEF OrderType
<1> HIDE DEF n, e
<1>7. doing'[th] = e /\ \A ot \in Threads : ot # th => doing'[ot] = doing[ot]
  BY <1>2 DEF EngineType
<1>8. \A o \in orders : o.s = s => ~Young(o) /\ (o.s = "Bounce" => o.asked)
  BY <1>2 DEF NothingElse
<1>9. \A ot \in Threads : ot # th /\ Engaged(ot) => doing[ot].s # s
  BY <1>2 DEF Apart
<1> HIDE DEF s
<1>10. \A ot \in Threads : /\ Engaged(ot)' = Engaged(ot)
                           /\ Engaged(ot) => doing'[ot].s = doing[ot].s
  BY <1>2, <1>5, <1>7 DEF Engaged, s
<1>11. EngineType' BY <1>2, <1>5, <1>6 DEF EngineType
<1>12. OnePlanEach' BY <1>2 DEF OnePlanEach
<1>13. IdsUnique' BY <1>2, <1>3, <1>6 DEF IdsUnique
<1>14. PICK p \in plans : p.s = s /\ p.left = Ttl[s] BY <1>2 DEF FreshPlan, s
<1>15. PlanKept' BY <1>2, <1>4, <1>6, <1>14 DEF PlanKept, Young
<1>16. OneYoungEach' BY <1>2, <1>6, <1>8 DEF OneYoungEach, Young
<1>17. FreshPlan' BY <1>2, <1>10 DEF FreshPlan
<1>18. Apart' BY <1>10 DEF Apart
<1>19. NothingElse'
  <2> SUFFICES ASSUME NEW ot \in Threads, doing'[ot].at = "risk",
                      NEW o \in orders', o.s = doing'[ot].s
               PROVE  ~Young(o) /\ (o.s = "Bounce" => o.asked)
    BY DEF NothingElse, Young
  <2>1. ot # th /\ doing'[ot] = doing[ot] BY <1>5, <1>7
  <2>2. doing[ot].s # s BY <1>9, <2>1 DEF Engaged
  <2>3. o \in orders BY <1>2, <1>6, <2>1, <2>2
  <2> QED BY <2>1, <2>3 DEF NothingElse
<1>20. AboutToWatch'
  <2> SUFFICES ASSUME NEW ot \in Threads, doing'[ot].at = "notify"
               PROVE  /\ doing'[ot].id # Gone =>
                            \E o \in orders' : o.id = doing'[ot].id /\ o.s = doing'[ot].s
                      /\ \A o \in orders' :
                            o.s = "Bounce" /\ doing'[ot].s = "Bounce" /\ ~o.asked
                              => o.id = doing'[ot].id
    BY DEF AboutToWatch
  <2>1. CASE ot = th
    <3>1. \A o \in orders : o.s = "Bounce" /\ s = "Bounce" => o.asked BY <1>8
    <3> QED BY <1>2, <1>5, <1>6, <1>7, <2>1, <3>1
  <2>2. CASE ot # th
    <3>1. doing'[ot] = doing[ot] /\ doing[ot].at = "notify" BY <1>7, <2>2
    <3>2. doing[ot].s # s BY <1>9, <2>2, <3>1 DEF Engaged
    <3>3. \A o \in orders' : o \in orders \/ o.s = s BY <1>2, <1>6
    <3> QED BY <1>2, <3>1, <3>2, <3>3 DEF AboutToWatch
  <2> QED BY <2>1, <2>2
<1>21. BounceWatched'
  <2> SUFFICES ASSUME NEW o \in orders', o.s = "Bounce", ~o.asked
               PROVE  \/ \E w \in watch : w.s = "Bounce" /\ w.id = o.id
                      \/ \E ot \in Threads : doing'[ot].at = "notify" /\ doing'[ot].id = o.id
    BY <1>2 DEF BounceWatched
  <2>1. CASE o = n BY <1>5, <1>6, <1>7, <2>1
  <2>2. CASE o \in orders
    <3>1. CASE \E w \in watch : w.s = "Bounce" /\ w.id = o.id BY <3>1
    <3>2. CASE \E ot \in Threads : doing[ot].at = "notify" /\ doing[ot].id = o.id
      BY <1>2, <1>7, <3>2
    <3> QED BY <2>2, <3>1, <3>2 DEF BounceWatched
  <2> QED BY <1>2, <2>1, <2>2
<1> QED BY <1>11, <1>12, <1>13, <1>15, <1>16, <1>17, <1>18, <1>19, <1>20, <1>21

LEMMA NotifiedKeeps ==
    ASSUME EngineInv, NEW th \in Threads, Notified(th) PROVE EngineInv'
<1> USE DEF EngineInv
<1> DEFINE s == doing[th].s
<1> DEFINE n == [s |-> s, dir |-> doing[th].dir, id |-> doing[th].id]
<1>1. /\ doing[th].at = "notify" /\ Engaged(th)
      /\ watch' = Without(watch, {s}) \cup {n}
      /\ doing' = [doing EXCEPT ![th] = Free]
      /\ UNCHANGED <<added, plans, orders>>
  BY DEF Notified, Engaged
<1>2. doing'[th] = Free /\ \A ot \in Threads : ot # th => doing'[ot] = doing[ot]
  BY <1>1 DEF EngineType
<1>3. n \in WatchType /\ n.s = s /\ n.id = doing[th].id
  BY <1>1, DoingIs DEF OnTheWay, WatchType
<1> HIDE DEF n
<1>4. \A ot \in Threads : Engaged(ot)' => ot # th /\ Engaged(ot) /\ doing'[ot] = doing[ot]
  BY <1>2 DEF Engaged, Free
<1>5. EngineType' BY <1>1, <1>3 DEF EngineType, Without
<1>6. /\ OnePlanEach' /\ IdsUnique' /\ OneYoungEach' /\ PlanKept'
  BY <1>1 DEF OnePlanEach, IdsUnique, OneYoungEach, PlanKept, Young
<1>7. FreshPlan' BY <1>1, <1>4 DEF FreshPlan
<1>8. Apart' BY <1>4 DEF Apart
<1>9. NothingElse' BY <1>1, <1>2 DEF NothingElse, Young, Free
<1>10. AboutToWatch' BY <1>1, <1>2 DEF AboutToWatch, Free
<1>11. BounceWatched'
  <2> SUFFICES ASSUME NEW o \in orders, o.s = "Bounce", ~o.asked
               PROVE  \/ \E w \in watch' : w.s = "Bounce" /\ w.id = o.id
                      \/ \E ot \in Threads : doing'[ot].at = "notify" /\ doing'[ot].id = o.id
    BY <1>1 DEF BounceWatched
  <2>1. CASE s = "Bounce"
    <3>1. o.id = doing[th].id BY <1>1, <2>1 DEF AboutToWatch
    <3> QED BY <1>1, <1>3, <2>1, <3>1
  <2>2. CASE s # "Bounce"
    <3>1. CASE \E w \in watch : w.s = "Bounce" /\ w.id = o.id
      BY <1>1, <2>2, <3>1 DEF Without
    <3>2. CASE \E ot \in Threads : doing[ot].at = "notify" /\ doing[ot].id = o.id
      <4>1. PICK ot \in Threads : doing[ot].at = "notify" /\ doing[ot].id = o.id BY <3>2
      <4>2. doing[ot].id # Gone BY <4>1 DEF EngineType, OrderType
      <4>3. PICK q \in orders : q.id = doing[ot].id /\ q.s = doing[ot].s
        BY <4>1, <4>2 DEF AboutToWatch
      <4>4. q = o BY <4>1, <4>3 DEF IdsUnique
      <4>5. ot # th BY <2>2, <4>3, <4>4
      <4> QED BY <1>2, <4>1, <4>5
    <3> QED BY <3>1, <3>2 DEF BounceWatched
  <2> QED BY <2>1, <2>2
<1> QED BY <1>5, <1>6, <1>7, <1>8, <1>9, <1>10, <1>11

-----------------------------------------------------------------------------
(* While no thread is in the engine. *)

LEMMA NoneEngaged ==
    ASSUME AllFree, UNCHANGED doing
    PROVE  FreshPlan' /\ Apart' /\ NothingElse' /\ AboutToWatch'
<1>1. \A th \in Threads : doing'[th] = Free BY DEF AllFree
<1> QED BY <1>1 DEF FreshPlan, Apart, NothingElse, AboutToWatch, Engaged, Free

LEMMA RemoveSetKeeps ==
    ASSUME EngineInv, NEW ss \in Removals, RemoveSet(ss) PROVE EngineInv'
<1> USE DEF EngineInv
<1>1. /\ AllFree /\ added' = added \ ss /\ UNCHANGED doing
      /\ plans' = Without(plans, ss) /\ watch' = Without(watch, ss)
      /\ orders' = Without(orders, ss)
  BY DEF RemoveSet
<1>2. EngineType' BY <1>1 DEF EngineType, Without
<1>3. OnePlanEach' /\ IdsUnique' /\ OneYoungEach'
  BY <1>1 DEF OnePlanEach, IdsUnique, OneYoungEach, Young, Without
<1>4. PlanKept' BY <1>1 DEF PlanKept, Young, Without
<1>5. BounceWatched' BY <1>1 DEF BounceWatched, Without, AllFree, Free
<1> QED BY <1>1, <1>2, <1>3, <1>4, <1>5, NoneEngaged

LEMMA AddKeeps == ASSUME EngineInv, Add PROVE EngineInv'
<1>1. UNCHANGED <<plans, watch, doing, orders>> /\ added' \subseteq Strategies
  BY StrategiesAssumption DEF Add
<1>2. OrdersStay /\ ThreadsStay /\ PlansStay
  BY <1>1, ThreadsAndOrdersStay, PlansUntouched
<1>3. WatchStays BY <1>1 DEF WatchStays, EngineInv, EngineType
<1> QED BY <1>1, <1>2, <1>3, Stays

LEMMA ElapseKeeps == ASSUME EngineInv, Elapse PROVE EngineInv'
<1> USE DEF EngineInv
<1> DEFINE Q(p) == [p EXCEPT !.left = IF @ < 0 THEN @ ELSE @ - 1]
<1> DEFINE O(o) == [o EXCEPT !.age = Older(@, Ttl[o.s] + 1)]
<1>1. /\ AllFree /\ UNCHANGED <<added, watch, doing>>
      /\ plans' = {Q(p) : p \in plans} /\ orders' = {O(o) : o \in orders}
  BY DEF Elapse
<1>2. ASSUME NEW p \in plans
      PROVE  /\ Q(p) \in PlanType /\ Q(p).s = p.s
             /\ p.left >= 0 => Q(p).left = p.left - 1
  BY DEF EngineType, PlanType
<1>3. ASSUME NEW o \in orders
      PROVE  /\ O(o) \in OrderType /\ O(o).id = o.id /\ O(o).s = o.s /\ O(o).asked = o.asked
             /\ Young(O(o)) => Young(o) /\ O(o).age = o.age + 1
             /\ o.age \in Nat /\ Ttl[o.s] \in Nat
  <2>1. o \in OrderType /\ Ttl[o.s] \in Nat BY TtlIs DEF EngineType, OrderType
  <2>2. PICK a \in Nat : a = Older(o.age, Ttl[o.s] + 1) BY <2>1 DEF Older, OrderType
  <2>3. O(o) = [o EXCEPT !.age = a] BY <2>2
  <2> HIDE DEF O
  <2>4. /\ O(o) \in OrderType /\ O(o).id = o.id /\ O(o).s = o.s /\ O(o).asked = o.asked
        /\ O(o).age = a
    BY <2>1, <2>3 DEF OrderType
  <2>5. a <= Ttl[o.s] => o.age <= Ttl[o.s] /\ a = o.age + 1
    BY <2>1, <2>2 DEF Older, OrderType
  <2> QED BY <2>1, <2>4, <2>5 DEF Young, OrderType
<1> HIDE DEF Q, O
<1>4. EngineType' BY <1>1, <1>2, <1>3 DEF EngineType
<1>5. OnePlanEach' BY <1>1, <1>2 DEF OnePlanEach
<1>6. IdsUnique' BY <1>1, <1>3 DEF IdsUnique
<1>7. OneYoungEach'
  <2>1. \A o, p \in orders : Young(O(o)) /\ Young(O(p)) /\ O(o).s = O(p).s => O(o) = O(p)
    BY <1>3 DEF OneYoungEach
  <2> QED BY <1>1, <2>1 DEF OneYoungEach, Young
<1>8. PlanKept'
  <2> SUFFICES ASSUME NEW o \in orders, Young(O(o))
               PROVE  \E p \in plans' : p.s = O(o).s /\ p.left = Ttl[O(o).s] - O(o).age
    BY <1>1 DEF PlanKept, Young
  <2>1. Young(o) /\ O(o).age = o.age + 1 /\ O(o).s = o.s BY <1>3
  <2>2. PICK p \in plans : p.s = o.s /\ p.left = Ttl[o.s] - o.age BY <2>1 DEF PlanKept
  <2>3. p.left >= 0 BY <1>3, <2>1, <2>2 DEF Young
  <2>4. Q(p) \in plans' /\ Q(p).s = o.s /\ Q(p).left = Ttl[o.s] - o.age - 1
    BY <1>1, <1>2, <2>2, <2>3
  <2>5. Ttl[o.s] - o.age - 1 = Ttl[O(o).s] - O(o).age BY <1>3, <2>1
  <2> QED BY <2>1, <2>4, <2>5
<1>9. BounceWatched'
  <2>1. \A o \in orders : o.s = "Bounce" /\ ~o.asked =>
            \E w \in watch : w.s = "Bounce" /\ w.id = o.id
    BY <1>1 DEF BounceWatched, AllFree, Free
  <2> QED BY <1>1, <1>3, <2>1 DEF BounceWatched
<1> QED BY <1>1, <1>4, <1>5, <1>6, <1>7, <1>8, <1>9, NoneEngaged

-----------------------------------------------------------------------------
LEMMA EngineStarts == StrategiesInit => EngineInv
<1> SUFFICES ASSUME StrategiesInit PROVE EngineInv OBVIOUS
<1>1. /\ added \subseteq Strategies /\ plans = {} /\ watch = {} /\ orders = {}
      /\ doing = [th \in Threads |-> Free]
  BY StrategiesAssumption DEF StrategiesInit
<1>2. \A th \in Threads : ~Engaged(th) BY <1>1 DEF Engaged, Free
<1> QED BY <1>1, <1>2 DEF EngineInv, EngineType, OnePlanEach, IdsUnique, PlanKept,
              OneYoungEach, FreshPlan, Apart, NothingElse, AboutToWatch, BounceWatched,
              Engaged

LEMMA EngineStep == EngineInv /\ [StrategiesNext]_strategyVars => EngineInv'
<1> SUFFICES ASSUME EngineInv, [StrategiesNext]_strategyVars PROVE EngineInv' OBVIOUS
<1>1. ASSUME NEW th \in Threads, Rejected(th) PROVE EngineInv' BY <1>1, RejectedKeeps
<1>2. ASSUME NEW th \in Threads, Accepted(th) PROVE EngineInv' BY <1>2, AcceptedKeeps
<1>3. ASSUME NEW th \in Threads, Notified(th) PROVE EngineInv' BY <1>3, NotifiedKeeps
<1>4. ASSUME NEW th \in Threads, NEW x \in Signals, Publish(th, x) PROVE EngineInv'
  BY <1>4, PublishKeeps
<1>5. CASE EngineFrame BY <1>5, EngineFrameKeeps
<1>6. CASE Tick BY <1>6, TickKeeps
<1>7. ASSUME NEW o \in orders, Fill(o) PROVE EngineInv' BY <1>7, FillKeeps
<1>8. ASSUME NEW o \in orders, Ends(o) PROVE EngineInv' BY <1>8, EndsKeeps
<1>9. ASSUME NEW ss \in Removals, RemoveSet(ss) PROVE EngineInv' BY <1>9, RemoveSetKeeps
<1>10. CASE Add BY <1>10, AddKeeps
<1>11. CASE Elapse BY <1>11, ElapseKeeps
<1>12. CASE UNCHANGED strategyVars
  <2>1. UNCHANGED <<added, plans, watch, doing, orders>> BY <1>12 DEF strategyVars
  <2> QED BY <2>1 DEF EngineInv, EngineType, OnePlanEach, IdsUnique, PlanKept,
             OneYoungEach, FreshPlan, Apart, NothingElse, AboutToWatch, BounceWatched,
             Engaged, Young
<1> QED BY <1>1, <1>2, <1>3, <1>4, <1>5, <1>6, <1>7, <1>8, <1>9, <1>10, <1>11, <1>12
        DEF StrategiesNext, Step

LEMMA EngineInvAlways == StrategiesSpec => []EngineInv
BY EngineStarts, EngineStep, PTL DEF StrategiesSpec

LEMMA EngineInvPaces == EngineInv => PlanPacing
<1> SUFFICES ASSUME EngineInv, NEW s \in added
             PROVE  Cardinality({o \in orders : o.s = s /\ o.age <= Ttl[s]}) <= 1
  BY DEF PlanPacing
<1> DEFINE young == {o \in orders : o.s = s /\ o.age <= Ttl[s]}
<1>1. \A o, p \in young : o = p BY DEF EngineInv, OneYoungEach, Young
<1>2. CASE young = {} BY <1>2, FS_EmptySet
<1>3. CASE young # {}
  <2>1. PICK o \in young : TRUE BY <1>3
  <2>2. young = {o} BY <1>1, <2>1
  <2>3. Cardinality({o}) = 1 BY FS_Singleton
  <2> HIDE DEF young
  <2>4. Cardinality(young) <= 1 BY <2>2, <2>3
  <2> QED BY <2>4 DEF young
<1> QED BY <1>2, <1>3

\* Two orders of one strategy are further apart than its entry_timeout, however
\* signals, ticks, frames, fills, closes and removals follow each other on the
\* two threads of the engine, for every table of timeouts.
THEOREM PlansArePaced == StrategiesSpec => []PlanPacing
BY EngineInvAlways, EngineInvPaces, PTL

\* The trade of BounceFromDensity whose close it has not asked for is the one
\* in its active_trade_info_, or is on its way there: no plan, rejection, reset
\* or closed trade of another strategy makes it forget one.
THEOREM BouncesAreWatched == StrategiesSpec => []BounceWatched
<1>1. EngineInv => BounceWatched BY DEF EngineInv
<1> QED BY <1>1, EngineInvAlways, PTL

-----------------------------------------------------------------------------
(* Levels: what the bridge knows of one level changes with the messages under *)
(* way; a run over them, from what it knows now or from the first message that *)
(* leaves no choice, ends with the terminal's view.                           *)

Views == {"absent", "plain", "triggered"}

View(f, i) ==
    IF i \notin DOMAIN f THEN "absent" ELSE IF f[i].triggered THEN "triggered" ELSE "plain"

Changing == {"placed", "triggered", "removed", "removed_all", "removed_triggered"}

Messages(n) ==
    [kind : Changing, ids : SUBSET (1..n)]
    \union [kind : {"snapshot"}, ids : SUBSET (1..n), triggered : SUBSET (1..n)]

\* What a message makes of view c of level i.
Effect(m, c, i) ==
    CASE m.kind = "snapshot"  -> IF i \notin m.ids THEN "absent"
                                 ELSE IF i \in m.triggered THEN "triggered" ELSE "plain"
      [] m.kind = "placed"    -> IF i \in m.ids THEN "plain" ELSE c
      [] m.kind = "triggered" -> IF i \in m.ids /\ c # "absent" THEN "triggered" ELSE c
      [] m.kind = "removed"   -> IF i \in m.ids THEN "absent" ELSE c
      [] m.kind = "removed_all" -> "absent"
      [] m.kind = "removed_triggered" -> IF c = "triggered" THEN "absent" ELSE c

Forces(m, i, d) == \A c \in Views : Effect(m, c, i) = d

Places(m, i) == m.kind \in {"snapshot", "placed"} /\ i \in m.ids
PlacesPlain(m, i) == Places(m, i) /\ (m.kind = "snapshot" => i \notin m.triggered)

\* A trigger or removal of i, after which i counts as told.
Tells(m, i) == m.kind \notin {"snapshot", "placed"} /\ i \in m.ids

\* A run v over the messages of w after the k-th.
Runs(v, k, w, i) ==
    /\ v \in [k..Len(w) -> Views]
    /\ \A j \in (k + 1)..Len(w) : v[j] = Effect(w[j], v[j - 1], i)

Starts(v, k, w, c, i) == IF k = 0 THEN v[0] = c ELSE Forces(w[k], i, v[k])

\* After the messages of w view c of level i is s.
Synced(w, c, s, i) ==
    \E k \in 0..Len(w) : \E v \in [k..Len(w) -> Views] :
        Runs(v, k, w, i) /\ Starts(v, k, w, c, i) /\ v[Len(w)] = s

-----------------------------------------------------------------------------
(* Views and runs. *)

LEMMA ViewIs == ASSUME NEW f, NEW i PROVE View(f, i) \in Views
BY DEF View, Views

LEMMA EffectIs ==
    ASSUME NEW n \in Nat, NEW m \in Messages(n), NEW c \in Views, NEW i
    PROVE  Effect(m, c, i) \in Views
BY DEF Effect, Views, Messages, Changing

LEMMA PlacesForces ==
    ASSUME NEW n \in Nat, NEW m \in Messages(n), NEW i, Places(m, i)
    PROVE  \E d \in Views : Forces(m, i, d)
BY DEF Places, Forces, Effect, Views

LEMMA SyncedAppend ==
    ASSUME NEW n \in Nat, NEW w \in Seq(Messages(n)), NEW m \in Messages(n),
           NEW c \in Views, NEW s \in Views, NEW i, Synced(w, c, s, i)
    PROVE  Synced(Append(w, m), c, Effect(m, s, i), i)
<1>0. PICK k \in 0..Len(w) : \E v \in [k..Len(w) -> Views] :
          Runs(v, k, w, i) /\ Starts(v, k, w, c, i) /\ v[Len(w)] = s
  BY DEF Synced
<1>1. PICK v \in [k..Len(w) -> Views] :
          Runs(v, k, w, i) /\ Starts(v, k, w, c, i) /\ v[Len(w)] = s
  BY <1>0
<1> DEFINE x == Append(w, m)
           u == [j \in k..(Len(w) + 1) |-> IF j = Len(w) + 1 THEN Effect(m, s, i) ELSE v[j]]
<1>2. /\ Len(x) = Len(w) + 1 /\ x[Len(w) + 1] = m /\ \A j \in 1..Len(w) : x[j] = w[j]
      /\ Len(w) \in Nat
  OBVIOUS
<1>3. u \in [k..Len(x) -> Views] BY <1>2, EffectIs
<1>4. \A j \in k..Len(w) : u[j] = v[j] BY <1>2
<1>5. u[Len(x)] = Effect(m, s, i) BY <1>2
<1> HIDE DEF u, x
<1>6. ASSUME NEW j \in (k + 1)..Len(x) PROVE u[j] = Effect(x[j], u[j - 1], i)
  <2>1. CASE j = Len(w) + 1 BY <1>1, <1>2, <1>4, <1>5, <2>1
  <2>2. CASE j \in (k + 1)..Len(w)
    <3>1. x[j] = w[j] /\ u[j] = v[j] /\ u[j - 1] = v[j - 1] BY <1>2, <1>4, <2>2
    <3> QED BY <1>1, <2>2, <3>1 DEF Runs
  <2> QED BY <1>2, <2>1, <2>2
<1>7. Starts(u, k, x, c, i)
  <2>1. CASE k = 0 BY <1>1, <1>2, <1>4, <2>1 DEF Starts
  <2>2. CASE k # 0 BY <1>1, <1>2, <1>4, <2>2 DEF Starts
  <2> QED BY <2>1, <2>2
<1>8. Synced(x, c, Effect(m, s, i), i)
  <2>1. Runs(u, k, x, i) BY <1>3, <1>6 DEF Runs
  <2>2. k \in 0..Len(x) BY <1>2
  <2> QED BY <1>3, <1>5, <1>7, <2>1, <2>2 DEF Synced
<1> QED BY <1>8 DEF x

LEMMA SyncedForced ==
    ASSUME NEW n \in Nat, NEW w \in Seq(Messages(n)), NEW m \in Messages(n),
           NEW c \in Views, NEW s \in Views, NEW i, Forces(m, i, s)
    PROVE  Synced(Append(w, m), c, s, i)
<1> DEFINE x == Append(w, m)
           v == [j \in (Len(w) + 1)..(Len(w) + 1) |-> s]
<1>1. Len(x) = Len(w) + 1 /\ x[Len(w) + 1] = m /\ Len(w) \in Nat OBVIOUS
<1>2. v \in [Len(x)..Len(x) -> Views] /\ v[Len(x)] = s BY <1>1
<1> HIDE DEF x, v
<1>3. Runs(v, Len(x), x, i) BY <1>1, <1>2 DEF Runs
<1>4. Starts(v, Len(x), x, c, i)
  <2>1. x[Len(x)] = m /\ Len(x) # 0 BY <1>1
  <2> QED BY <1>2, <2>1 DEF Starts
<1>5. Synced(x, c, s, i)
  <2>1. Len(x) \in 0..Len(x) BY <1>1
  <2> QED BY <1>2, <1>3, <1>4, <2>1 DEF Synced
<1> QED BY <1>5 DEF x

LEMMA SyncedTail ==
    ASSUME NEW n \in Nat, NEW w \in Seq(Messages(n)), w # <<>>,
           NEW c \in Views, NEW s \in Views, NEW i, Synced(w, c, s, i)
    PROVE  Synced(Tail(w), Effect(Head(w), c, i), s, i)
<1>0. PICK k \in 0..Len(w) : \E v \in [k..Len(w) -> Views] :
          Runs(v, k, w, i) /\ Starts(v, k, w, c, i) /\ v[Len(w)] = s
  BY DEF Synced
<1>1. PICK v \in [k..Len(w) -> Views] :
          Runs(v, k, w, i) /\ Starts(v, k, w, c, i) /\ v[Len(w)] = s
  BY <1>0
<1> DEFINE x == Tail(w)
           h == IF k = 0 THEN 0 ELSE k - 1
           u == [j \in h..(Len(w) - 1) |-> v[j + 1]]
<1>2. /\ Len(x) = Len(w) - 1 /\ Head(w) = w[1] /\ \A j \in 1..Len(x) : x[j] = w[j + 1]
      /\ Len(w) \in Nat /\ Len(w) > 0
  OBVIOUS
<1>3. h \in 0..Len(x) /\ u \in [h..Len(x) -> Views] BY <1>1, <1>2
<1>4. \A j \in h..Len(x) : u[j] = v[j + 1] BY <1>2
<1>5. h = IF k = 0 THEN 0 ELSE k - 1 OBVIOUS
<1> HIDE DEF u, x, h
<1>6. u[Len(x)] = s BY <1>1, <1>2, <1>3, <1>4
<1>7. ASSUME NEW j \in (h + 1)..Len(x) PROVE u[j] = Effect(x[j], u[j - 1], i)
  <2>1. u[j] = v[j + 1] /\ u[j - 1] = v[j] /\ x[j] = w[j + 1] BY <1>2, <1>3, <1>4
  <2>2. j + 1 \in (k + 1)..Len(w) BY <1>2, <1>3, <1>5
  <2>3. v[j + 1] = Effect(w[j + 1], v[(j + 1) - 1], i) BY <1>1, <2>2 DEF Runs
  <2> QED BY <1>3, <2>1, <2>3
<1>8. Starts(u, h, x, Effect(Head(w), c, i), i)
  <2>1. CASE k = 0
    <3>1. u[0] = v[1] /\ v[1] = Effect(w[1], v[0], i) BY <1>1, <1>2, <1>4, <1>5, <2>1 DEF Runs
    <3> QED BY <1>1, <1>2, <1>5, <2>1, <3>1 DEF Starts
  <2>2. CASE k = 1
    <3>1. u[0] = v[1] BY <1>2, <1>4, <1>5, <2>2
    <3>2. Effect(w[1], c, i) = v[1] BY <1>1, <2>2 DEF Starts, Forces
    <3> QED BY <1>2, <1>5, <2>2, <3>1, <3>2 DEF Starts
  <2>3. CASE k > 1
    <3>1. u[h] = v[k] /\ x[h] = w[k] /\ h # 0 BY <1>2, <1>3, <1>4, <1>5, <2>3
    <3> QED BY <1>1, <2>3, <3>1 DEF Starts
  <2> QED BY <2>1, <2>2, <2>3
<1>9. Synced(x, Effect(Head(w), c, i), s, i)
  BY <1>3, <1>6, <1>7, <1>8 DEF Synced, Runs
<1> QED BY <1>9 DEF x

\* While a message that places i is under way, what the bridge knows of i now
\* makes no difference.
LEMMA SyncedPlaced ==
    ASSUME NEW n \in Nat, NEW w \in Seq(Messages(n)), NEW c \in Views, NEW s \in Views, NEW i,
           Synced(w, c, s, i), NEW p \in 1..Len(w), Places(w[p], i), NEW d
    PROVE  Synced(w, d, s, i)
<1>0. PICK k \in 0..Len(w) : \E v \in [k..Len(w) -> Views] :
          Runs(v, k, w, i) /\ Starts(v, k, w, c, i) /\ v[Len(w)] = s
  BY DEF Synced
<1>1. PICK v \in [k..Len(w) -> Views] :
          Runs(v, k, w, i) /\ Starts(v, k, w, c, i) /\ v[Len(w)] = s
  BY <1>0
<1>2. Len(w) \in Nat OBVIOUS
<1>3. CASE k # 0
  BY <1>1, <1>3 DEF Synced, Starts
<1>4. CASE k = 0
  <2> DEFINE u == [j \in p..Len(w) |-> v[j]]
  <2>1. u \in [p..Len(w) -> Views] /\ \A j \in p..Len(w) : u[j] = v[j] BY <1>2, <1>4
  <2> HIDE DEF u
  <2>2. ASSUME NEW j \in (p + 1)..Len(w) PROVE u[j] = Effect(w[j], u[j - 1], i)
    <3>1. u[j] = v[j] /\ u[j - 1] = v[j - 1] BY <1>2, <2>1
    <3>2. v[j] = Effect(w[j], v[j - 1], i) BY <1>1, <1>2, <1>4 DEF Runs
    <3> QED BY <3>1, <3>2
  <2>3. Forces(w[p], i, u[p])
    <3>1. w[p] \in Messages(n) OBVIOUS
    <3>2. PICK e \in Views : Forces(w[p], i, e) BY <3>1, PlacesForces
    <3>3. v[p - 1] \in Views /\ v[p] = Effect(w[p], v[p - 1], i) BY <1>1, <1>2, <1>4 DEF Runs
    <3>4. u[p] = v[p] BY <1>2, <2>1
    <3> QED BY <3>2, <3>3, <3>4 DEF Forces
  <2>4. u[Len(w)] = s BY <1>1, <1>2, <2>1
  <2>5. Starts(u, p, w, d, i) BY <2>3 DEF Starts
  <2>6. Runs(u, p, w, i) BY <2>1, <2>2 DEF Runs
  <2>7. p \in 0..Len(w) BY <1>2
  <2> QED BY <2>1, <2>4, <2>5, <2>6, <2>7 DEF Synced
<1> QED BY <1>3, <1>4

\* A level that no message under way places stays absent.
LEMMA AbsentSynced ==
    ASSUME NEW n \in Nat, NEW w \in Seq(Messages(n)), NEW i,
           \A k \in 1..Len(w) : ~Places(w[k], i)
    PROVE  Synced(w, "absent", "absent", i)
<1> DEFINE v == [j \in 0..Len(w) |-> "absent"]
<1>1. Len(w) \in Nat OBVIOUS
<1>2. v \in [0..Len(w) -> Views] /\ \A j \in 0..Len(w) : v[j] = "absent" BY DEF Views
<1> HIDE DEF v
<1>3. ASSUME NEW j \in 1..Len(w) PROVE v[j] = Effect(w[j], v[j - 1], i)
  <2>1. w[j] \in Messages(n) /\ ~Places(w[j], i) OBVIOUS
  <2>2. Effect(w[j], "absent", i) = "absent"
    BY <2>1 DEF Effect, Places, Messages, Changing
  <2> QED BY <1>1, <1>2, <2>2
<1>4. Runs(v, 0, w, i) BY <1>1, <1>2, <1>3 DEF Runs
<1>5. Starts(v, 0, w, "absent", i) /\ v[Len(w)] = "absent" BY <1>1, <1>2 DEF Starts
<1> QED BY <1>1, <1>2, <1>4, <1>5 DEF Synced

LEMMA SyncedEmpty ==
    ASSUME NEW c, NEW s, NEW i, Synced(<<>>, c, s, i)
    PROVE  c = s
BY DEF Synced, Starts

\* A level that will be there untriggered is so now, or a message under way
\* makes it so.
LEMMA PlainComesFrom ==
    ASSUME NEW n \in Nat, NEW w \in Seq(Messages(n)), NEW c \in Views, NEW i,
           Synced(w, c, "plain", i), \A k \in 1..Len(w) : ~PlacesPlain(w[k], i)
    PROVE  c = "plain"
<1>0. PICK k \in 0..Len(w) : \E v \in [k..Len(w) -> Views] :
          Runs(v, k, w, i) /\ Starts(v, k, w, c, i) /\ v[Len(w)] = "plain"
  BY DEF Synced
<1>1. PICK v \in [k..Len(w) -> Views] :
          Runs(v, k, w, i) /\ Starts(v, k, w, c, i) /\ v[Len(w)] = "plain"
  BY <1>0
<1>2. Len(w) \in Nat OBVIOUS
<1>3. ASSUME NEW j \in 1..Len(w), NEW d \in Views, d # "plain"
      PROVE  Effect(w[j], d, i) # "plain"
  <2>1. w[j] \in Messages(n) /\ ~PlacesPlain(w[j], i) OBVIOUS
  <2> QED BY <1>3, <2>1 DEF Effect, PlacesPlain, Places, Messages, Changing, Views
<1>4. SUFFICES ASSUME c # "plain" PROVE FALSE OBVIOUS
<1>5. v[k] # "plain"
  <2>1. CASE k = 0 BY <1>1, <1>4, <2>1 DEF Starts
  <2>2. CASE k # 0
    <3>1. Effect(w[k], "absent", i) = v[k] BY <1>1, <2>2 DEF Starts, Forces, Views
    <3>2. k \in 1..Len(w) BY <1>2, <2>2
    <3> QED BY <1>3, <3>1, <3>2 DEF Views
  <2> QED BY <2>1, <2>2
<1> DEFINE P == {j \in Nat : k + j <= Len(w) => v[k + j] # "plain"}
<1>6. 0 \in P BY <1>5
<1>7. ASSUME NEW j \in Nat, j \in P PROVE j + 1 \in P
  <2>1. SUFFICES ASSUME k + j + 1 <= Len(w) PROVE v[k + j + 1] # "plain" OBVIOUS
  <2>2. v[k + j] # "plain" /\ k + j \in k..Len(w) BY <1>2, <1>7, <2>1
  <2>3. k + j + 1 \in (k + 1)..Len(w) BY <1>2, <2>1
  <2>4. v[k + j + 1] = Effect(w[k + j + 1], v[(k + j + 1) - 1], i) BY <1>1, <2>3 DEF Runs
  <2>5. (k + j + 1) - 1 = k + j /\ k + j + 1 \in 1..Len(w) BY <1>2, <2>3
  <2>6. v[k + j] \in Views BY <2>2
  <2> QED BY <1>3, <2>2, <2>4, <2>5, <2>6
<1>8. Len(w) - k \in P
  <2>1. Len(w) - k \in Nat BY <1>2
  <2> HIDE DEF P
  <2> QED BY <1>6, <1>7, <2>1, SetInduction
<1>9. k + (Len(w) - k) = Len(w) BY <1>2
<1> QED BY <1>1, <1>2, <1>8, <1>9

-----------------------------------------------------------------------------
(* The invariant. *)

CallShape(c) == c = [pc |-> c.pc, todo |-> c.todo, target |-> c.target, id |-> c.id]

\* Shapes and types, of what matters here.
ShapesOK ==
    /\ used \in [ids : Nat, rebuilds : Nat, changes : Nat, faults : Nat]
    /\ CallShape(call)
    /\ call.pc = "insert" => call.id \in 1..used.ids
    /\ wire \in Seq(Messages(used.ids))
    /\ DOMAIN active \subseteq 1..used.ids
    /\ active = [i \in DOMAIN active |-> active[i]]
    /\ \A i \in DOMAIN active : active[i] = [at |-> active[i].at, triggered |-> active[i].triggered]
    /\ DOMAIN server \subseteq 1..used.ids
    /\ server = [i \in DOMAIN server |-> server[i]]
    /\ \A i \in DOMAIN server : server[i] = [price |-> server[i].price,
                                           triggered |-> server[i].triggered]

\* The level that makes room, between the bridge and its DELETE.
Victimised(w, act, c, i) ==
    /\ c.pc = "remove" /\ c.id = i
    /\ View(act, i) = "absent"
    /\ \A k \in 1..Len(w) : ~Places(w[k], i)

AllSynced(w, act, srv, c, n, strays) ==
    \A i \in 1..n : i \notin strays =>
        Synced(w, View(act, i), View(srv, i), i) \/ Victimised(w, act, c, i)

\* What was removed was told, or will be.
RemovalsTold(w, srv, n, heard) ==
    \A i \in 1..n : i \notin DOMAIN srv =>
        i \in heard \/ \E k \in 1..Len(w) : Tells(w[k], i)

\* A message that all levels were removed lists those there were: another
\* came to its end before, or is placed after.
AllWiped(w, n, heard) ==
    \A k \in 1..Len(w) : w[k].kind = "removed_all" => \A i \in 1..n :
        \/ i \in w[k].ids \/ i \in heard
        \/ \E l \in 1..(k - 1) : Tells(w[l], i)
        \/ \E l \in (k + 1)..Len(w) : PlacesPlain(w[l], i)

\* The snapshot comes first: what it does not list is placed after, and what it
\* lists as triggered stays so.
SnapshotFirst(w, srv, n) ==
    \A k \in 1..Len(w) : w[k].kind = "snapshot" =>
        /\ k = 1
        /\ \A i \in 1..n : i \in w[k].ids \/ \E l \in 2..Len(w) : PlacesPlain(w[l], i)
        /\ \A i \in w[k].triggered \intersect DOMAIN srv : srv[i].triggered

\* A level about to be entered is there untriggered, or will be placed, or its
\* end was told.
Ready(w, act, c, heard, strays) ==
    c.pc = "insert" =>
        \/ c.id \in heard \union strays
        \/ \E k \in 1..Len(w) : PlacesPlain(w[k], c.id)
        \/ /\ View(act, c.id) = "plain"
           /\ \A k \in 1..Len(w) : w[k].kind = "snapshot" /\ c.id \in w[k].ids =>
                  c.id \notin w[k].triggered

LevelsInv ==
    /\ ShapesOK
    /\ linked =>
          /\ AllSynced(wire, active, server, call, used.ids, astray)
          /\ RemovalsTold(wire, server, used.ids, told)
          /\ AllWiped(wire, used.ids, told)
          /\ SnapshotFirst(wire, server, used.ids)
          /\ Ready(wire, active, call, told, astray)

-----------------------------------------------------------------------------
(* The terminal changes a level and tells so. *)

LEMMA MessagesGrow ==
    ASSUME NEW n \in Nat, NEW k \in Nat, n <= k
    PROVE  Messages(n) \subseteq Messages(k)
<1>1. 1..n \subseteq 1..k OBVIOUS
<1>2. SUBSET (1..n) \subseteq SUBSET (1..k) BY <1>1
<1> QED BY <1>2 DEF Messages

\* The parts of the invariant that are about messages alone.
LEMMA AppendKeeps ==
    ASSUME ShapesOK, NEW n \in Nat, used.ids <= n, NEW m \in Messages(n), m.kind # "snapshot",
           NEW srv,
           \A i \in 1..n : i \notin DOMAIN srv =>
               i \in 1..used.ids /\ (i \notin DOMAIN server \/ Tells(m, i)),
           m.kind = "removed_all" =>
               \A i \in 1..n : i \in m.ids \/ (i \in 1..used.ids /\ i \notin DOMAIN server),
           \A i \in 1..n : i \in 1..used.ids \/ PlacesPlain(m, i),
           \A i \in 1..used.ids : i \in DOMAIN srv =>
               i \in DOMAIN server /\ (server[i].triggered => srv[i].triggered),
           RemovalsTold(wire, server, used.ids, told), AllWiped(wire, used.ids, told),
           SnapshotFirst(wire, server, used.ids)
    PROVE  LET w == Append(wire, m)
           IN  RemovalsTold(w, srv, n, told) /\ AllWiped(w, n, told) /\ SnapshotFirst(w, srv, n)
<1> DEFINE w == Append(wire, m)
           L == Len(wire)
<1>1. used.ids \in Nat /\ wire \in Seq(Messages(used.ids)) BY DEF ShapesOK
<1>2. /\ L \in Nat /\ Len(w) = L + 1 /\ w[L + 1] = m /\ \A k \in 1..L : w[k] = wire[k]
      /\ \A k \in 1..L : wire[k] \in Messages(used.ids)
  BY <1>1
<1>3. \A k \in 1..L : k \in 1..Len(w) /\ L + 1 \in (k + 1)..Len(w)  BY <1>2
<1>4. L + 1 \in 1..Len(w) BY <1>2
<1> HIDE DEF w, L
<1>5. RemovalsTold(w, srv, n, told)
  <2>1. SUFFICES ASSUME NEW i \in 1..n, i \notin DOMAIN srv, i \notin told
                 PROVE  \E k \in 1..Len(w) : Tells(w[k], i)
    BY DEF RemovalsTold
  <2>2. CASE Tells(m, i) BY <1>2, <1>4, <2>2
  <2>3. CASE ~Tells(m, i)
    <3>1. PICK k \in 1..L : Tells(wire[k], i) BY <2>1, <2>3 DEF RemovalsTold, L
    <3> QED BY <1>2, <1>3, <3>1
  <2> QED BY <2>2, <2>3
<1>6. AllWiped(w, n, told)
  <2>1. SUFFICES ASSUME NEW k \in 1..Len(w), w[k].kind = "removed_all", NEW i \in 1..n,
                        i \notin w[k].ids, i \notin told
                 PROVE  \/ \E l \in 1..(k - 1) : Tells(w[l], i)
                        \/ \E l \in (k + 1)..Len(w) : PlacesPlain(w[l], i)
    BY DEF AllWiped
  <2>2. CASE k \in 1..L
    <3>1. CASE i \in 1..used.ids
      <4>1. \/ \E l \in 1..(k - 1) : Tells(wire[l], i)
            \/ \E l \in (k + 1)..L : PlacesPlain(wire[l], i)
        BY <1>2, <2>1, <2>2, <3>1 DEF AllWiped, L
      <4>2. ASSUME NEW l \in 1..(k - 1), Tells(wire[l], i) PROVE Tells(w[l], i)
        BY <1>2, <2>2, <4>2
      <4>3. ASSUME NEW l \in (k + 1)..L, PlacesPlain(wire[l], i)
            PROVE  PlacesPlain(w[l], i) /\ l \in (k + 1)..Len(w)
        BY <1>2, <2>2, <4>3
      <4> QED BY <4>1, <4>2, <4>3
    <3>2. CASE i \notin 1..used.ids
      BY <1>2, <1>3, <2>2, <3>2
    <3> QED BY <3>1, <3>2
  <2>3. CASE k = L + 1
    <3>1. i \in 1..used.ids /\ i \notin DOMAIN server BY <1>2, <2>1, <2>3
    <3>2. PICK l \in 1..L : Tells(wire[l], i) BY <2>1, <3>1 DEF RemovalsTold, L
    <3>3. l \in 1..(k - 1) /\ Tells(w[l], i) BY <1>2, <2>3, <3>2
    <3> QED BY <3>3
  <2> QED BY <1>2, <2>2, <2>3
<1>7. SnapshotFirst(w, srv, n)
  <2>1. SUFFICES ASSUME NEW k \in 1..Len(w), w[k].kind = "snapshot"
                 PROVE  /\ k = 1
                        /\ \A i \in 1..n : \/ i \in w[k].ids
                                          \/ \E l \in 2..Len(w) : PlacesPlain(w[l], i)
                        /\ \A i \in w[k].triggered \intersect DOMAIN srv : srv[i].triggered
    BY DEF SnapshotFirst
  <2>2. k \in 1..L /\ w[k] = wire[k] BY <1>2, <2>1
  <2>3. k = 1 /\ L >= 1 BY <1>2, <2>1, <2>2 DEF SnapshotFirst, L
  <2>4. ASSUME NEW i \in 1..n, i \notin w[k].ids
        PROVE  \E l \in 2..Len(w) : PlacesPlain(w[l], i)
    <3>1. CASE i \in 1..used.ids
      <4>1. PICK l \in 2..L : PlacesPlain(wire[l], i)
        BY <2>1, <2>2, <2>4, <3>1 DEF SnapshotFirst, L
      <4>2. l \in 2..Len(w) /\ w[l] = wire[l] BY <1>2
      <4> QED BY <4>1, <4>2
    <3>2. CASE i \notin 1..used.ids
      <4>1. L + 1 \in 2..Len(w) BY <1>2, <2>3
      <4> QED BY <1>2, <3>2, <4>1
    <3> QED BY <3>1, <3>2
  <2>5. ASSUME NEW i \in w[k].triggered \intersect DOMAIN srv PROVE srv[i].triggered
    <3>1. i \in 1..used.ids
      <4>1. wire[k] \in Messages(used.ids) /\ wire[k].kind = "snapshot" BY <1>2, <2>1, <2>2
      <4>2. wire[k].triggered \in SUBSET (1..used.ids) BY <4>1 DEF Messages, Changing
      <4> QED BY <2>2, <4>2
    <3>2. i \in DOMAIN server BY <3>1
    <3>3. server[i].triggered BY <2>1, <2>2, <3>2 DEF SnapshotFirst, L
    <3> QED BY <3>1, <3>3
  <2> QED BY <2>3, <2>4, <2>5
<1> QED BY <1>5, <1>6, <1>7 DEF w

LEMMA ReadyAppend ==
    ASSUME NEW n \in Nat, NEW w \in Seq(Messages(n)), NEW m,
           m.kind # "snapshot", NEW act, NEW c, NEW heard, NEW strays, NEW more,
           Ready(w, act, c, heard, strays), strays \subseteq more
    PROVE  Ready(Append(w, m), act, c, heard, more)
<1> DEFINE x == Append(w, m)
<1>1. /\ Len(w) \in Nat /\ Len(x) = Len(w) + 1 /\ x[Len(w) + 1] = m
      /\ \A j \in 1..Len(w) : x[j] = w[j]
  OBVIOUS
<1> HIDE DEF x
<1>2. SUFFICES ASSUME c.pc = "insert" PROVE Ready(x, act, c, heard, more)
  BY DEF Ready, x
<1>3. CASE c.id \in heard \union strays BY <1>3 DEF Ready
<1>4. CASE \E j \in 1..Len(w) : PlacesPlain(w[j], c.id)
  <2>1. PICK j \in 1..Len(w) : PlacesPlain(w[j], c.id) BY <1>4
  <2>2. j \in 1..Len(x) /\ x[j] = w[j] BY <1>1
  <2> QED BY <2>1, <2>2 DEF Ready
<1>5. CASE View(act, c.id) = "plain"
           /\ \A j \in 1..Len(w) : w[j].kind = "snapshot" /\ c.id \in w[j].ids =>
                  c.id \notin w[j].triggered
  <2>1. ASSUME NEW j \in 1..Len(x), x[j].kind = "snapshot", c.id \in x[j].ids
        PROVE  c.id \notin x[j].triggered
    <3>1. j \in 1..Len(w) /\ x[j] = w[j] BY <1>1, <2>1
    <3> QED BY <1>5, <2>1, <3>1
  <2> QED BY <1>5, <2>1 DEF Ready
<1> QED BY <1>2, <1>3, <1>4, <1>5 DEF Ready

\* A message that does not place i leaves a victim a victim.
LEMMA VictimAppend ==
    ASSUME NEW n \in Nat, NEW w \in Seq(Messages(n)), NEW m, NEW act, NEW c, NEW i,
           Victimised(w, act, c, i), ~Places(m, i)
    PROVE  Victimised(Append(w, m), act, c, i)
<1> DEFINE x == Append(w, m)
<1>1. /\ Len(w) \in Nat /\ Len(x) = Len(w) + 1 /\ x[Len(w) + 1] = m
      /\ \A j \in 1..Len(w) : x[j] = w[j]
  OBVIOUS
<1> HIDE DEF x
<1>2. ASSUME NEW k \in 1..Len(x) PROVE ~Places(x[k], i)
  <2>1. k \in 1..Len(w) \/ k = Len(w) + 1 BY <1>1
  <2> QED BY <1>1, <2>1 DEF Victimised
<1>3. Victimised(x, act, c, i) BY <1>2 DEF Victimised
<1> QED BY <1>3 DEF x

\* The parts about the wire and the terminal, when the bridge does nothing.
WireInv ==
    /\ AllSynced(wire, active, server, call, used.ids, astray)
    /\ RemovalsTold(wire, server, used.ids, told)
    /\ AllWiped(wire, used.ids, told)
    /\ SnapshotFirst(wire, server, used.ids)

\* The terminal stores a level under the next id.
LEMMA StoreKeeps ==
    ASSUME ShapesOK, NEW p, Store(p), used'.ids = used.ids + 1
    PROVE  /\ used.ids + 1 \in Nat /\ wire' \in Seq(Messages(used.ids + 1))
           /\ DOMAIN server' = DOMAIN server \union {used.ids + 1}
           /\ server' = [i \in DOMAIN server' |-> server'[i]]
           /\ \A i \in DOMAIN server' : server'[i] = [price |-> server'[i].price,
                                                   triggered |-> server'[i].triggered]
           /\ server'[used.ids + 1] = [price |-> p, triggered |-> FALSE]
           /\ linked => \E k \in 1..Len(wire') : PlacesPlain(wire'[k], used.ids + 1)
           /\ linked /\ WireInv =>
                 /\ AllSynced(wire', active, server', call, used.ids + 1, astray)
                 /\ RemovalsTold(wire', server', used.ids + 1, told)
                 /\ AllWiped(wire', used.ids + 1, told)
                 /\ SnapshotFirst(wire', server', used.ids + 1)
           /\ linked => \E m : wire' = Append(wire, m) /\ m.kind = "placed"
<1> DEFINE n == used.ids + 1
           m == Message("placed", {n})
<1>1. used.ids \in Nat /\ n \in Nat /\ wire \in Seq(Messages(used.ids)) BY DEF ShapesOK
<1>2. wire \in Seq(Messages(n)) BY <1>1, MessagesGrow
<1>3. m.kind = "placed" /\ m.ids = {n} /\ m \in Messages(n)
  BY <1>1 DEF Message, Messages, Changing
<1>4. wire' = IF linked THEN Append(wire, m) ELSE wire BY DEF Store, Tell
<1>5. server' = [j \in DOMAIN server \union {n} |->
                    IF j = n THEN [price |-> p, triggered |-> FALSE] ELSE server[j]]
  BY DEF Store, Plus
<1>6. /\ DOMAIN server \subseteq 1..used.ids
      /\ \A i \in DOMAIN server : server[i] = [price |-> server[i].price,
                                             triggered |-> server[i].triggered]
  BY DEF ShapesOK
<1>7. n \notin DOMAIN server BY <1>1, <1>6
<1> HIDE DEF m, n
<1>8. wire' \in Seq(Messages(n)) BY <1>2, <1>3, <1>4
<1>9. /\ DOMAIN server' = DOMAIN server \union {n}
      /\ server'[n] = [price |-> p, triggered |-> FALSE]
      /\ \A i \in DOMAIN server : server'[i] = server[i]
      /\ server' = [i \in DOMAIN server' |-> server'[i]]
  BY <1>5, <1>7
<1>10. \A i \in DOMAIN server' : server'[i] = [price |-> server'[i].price,
                                            triggered |-> server'[i].triggered]
  BY <1>6, <1>9
<1>11. linked => \E k \in 1..Len(wire') : PlacesPlain(wire'[k], n)
  <2>1. /\ Len(Append(wire, m)) \in 1..Len(Append(wire, m))
        /\ Append(wire, m)[Len(Append(wire, m))] = m
    BY <1>1, <1>2
  <2> QED BY <1>3, <1>4, <2>1 DEF PlacesPlain, Places
<1>12. ASSUME linked, WireInv
       PROVE  AllSynced(wire', active, server', call, n, astray)
  <2>1. SUFFICES ASSUME NEW i \in 1..n, i \notin astray
                 PROVE  \/ Synced(wire', View(active, i), View(server', i), i)
                        \/ Victimised(wire', active, call, i)
    BY DEF AllSynced
  <2>2. View(active, i) \in Views /\ View(server, i) \in Views BY ViewIs
  <2>3. CASE i = n
    <3>1. Forces(m, i, "plain") BY <1>3, <2>3 DEF Forces, Effect
    <3>2. View(server', i) = "plain" BY <1>9, <2>3 DEF View
    <3> QED BY <1>1, <1>2, <1>3, <1>4, <1>12, <2>2, <3>1, <3>2, SyncedForced DEF Views
  <2>4. CASE i # n
    <3>1. i \in 1..used.ids BY <1>1, <2>4 DEF n
    <3>2. View(server', i) = View(server, i) BY <1>9, <2>4 DEF View
    <3>3. Effect(m, View(server, i), i) = View(server, i) BY <1>3, <2>4 DEF Effect
    <3>4. ~Places(m, i) BY <1>3, <2>4 DEF Places
    <3>5. CASE Synced(wire, View(active, i), View(server, i), i)
      BY <1>1, <1>2, <1>3, <1>4, <1>12, <2>2, <3>2, <3>3, <3>5, SyncedAppend
    <3>6. CASE Victimised(wire, active, call, i)
      BY <1>1, <1>2, <1>4, <1>12, <3>4, <3>6, VictimAppend
    <3> QED BY <1>12, <2>1, <3>1, <3>5, <3>6 DEF WireInv, AllSynced
  <2> QED BY <2>3, <2>4
<1>13. ASSUME linked, WireInv
       PROVE  /\ RemovalsTold(wire', server', n, told)
              /\ AllWiped(wire', n, told)
              /\ SnapshotFirst(wire', server', n)
  <2>1. \A i \in 1..n : i \in 1..used.ids \/ i = n BY <1>1 DEF n
  <2>2. \A i \in 1..n : i \in 1..used.ids \/ PlacesPlain(m, i)
    BY <1>3, <2>1 DEF PlacesPlain, Places
  <2>3. \A i \in 1..n : i \notin DOMAIN server' => i \in 1..used.ids /\ i \notin DOMAIN server
    BY <1>9, <2>1
  <2>4. \A i \in 1..used.ids : i \in DOMAIN server' =>
            i \in DOMAIN server /\ (server[i].triggered => server'[i].triggered)
    <3>1. n \notin 1..used.ids BY <1>1 DEF n
    <3> QED BY <1>9, <3>1
  <2>5. used.ids <= n /\ m.kind # "snapshot" /\ m.kind # "removed_all" BY <1>1, <1>3 DEF n
  <2> QED BY <1>1, <1>3, <1>4, <1>13, <2>2, <2>3, <2>4, <2>5, AppendKeeps DEF WireInv
<1>14. linked => \E k : wire' = Append(wire, k) /\ k.kind = "placed" BY <1>3, <1>4
<1> QED BY <1>1, <1>8, <1>9, <1>10, <1>11, <1>12, <1>13, <1>14 DEF n

\* The terminal removes levels: one, all, or those triggered.
LEMMA RemovingKeeps ==
    ASSUME ShapesOK, NEW S, S \subseteq DOMAIN server, NEW kind \in Changing,
           \/ kind = "removed"
           \/ kind = "removed_all" /\ S = DOMAIN server
           \/ kind = "removed_triggered" /\ S = TriggeredIn(server),
           server' = Minus(server, S), Tell(Message(kind, S))
    PROVE  /\ wire' \in Seq(Messages(used.ids))
           /\ DOMAIN server' \subseteq 1..used.ids
           /\ server' = [i \in DOMAIN server' |-> server'[i]]
           /\ \A i \in DOMAIN server' : server'[i] = [price |-> server'[i].price,
                                                   triggered |-> server'[i].triggered]
           /\ linked /\ WireInv =>
                 /\ AllSynced(wire', active, server', call, used.ids, astray)
                 /\ RemovalsTold(wire', server', used.ids, told)
                 /\ AllWiped(wire', used.ids, told)
                 /\ SnapshotFirst(wire', server', used.ids)
           /\ linked /\ kind = "removed" => \A i \in S :
                 Synced(wire', View(active, i), View(server', i), i)
           /\ linked => \E m : wire' = Append(wire, m) /\ m.kind = kind
<1> DEFINE n == used.ids
           m == Message(kind, S)
<1>1. n \in Nat /\ wire \in Seq(Messages(n)) BY DEF ShapesOK
<1>2. /\ DOMAIN server \subseteq 1..n
      /\ \A i \in DOMAIN server : server[i] = [price |-> server[i].price,
                                             triggered |-> server[i].triggered]
  BY DEF ShapesOK
<1>3. m.kind = kind /\ m.ids = S /\ m \in Messages(n) /\ m.kind \notin {"snapshot", "placed"}
  BY <1>1, <1>2 DEF Message, Messages, Changing
<1>4. wire' = IF linked THEN Append(wire, m) ELSE wire BY DEF Tell
<1>5. /\ DOMAIN server' = DOMAIN server \ S
      /\ server' = [i \in DOMAIN server' |-> server'[i]]
      /\ \A i \in DOMAIN server' : server'[i] = server[i]
  BY DEF Minus
<1> HIDE DEF m, n
<1>6. m.kind = kind /\ m.ids = S /\ m \in Messages(n) /\ m.kind \notin {"snapshot", "placed"}
  BY <1>3
<1>7. wire' \in Seq(Messages(n)) BY <1>1, <1>4, <1>6
<1>8. \A i : View(server', i) = IF i \in S THEN "absent" ELSE View(server, i)
  BY <1>5 DEF View
<1>9. \A i : Effect(m, View(server, i), i) = View(server', i)
  <2>1. SUFFICES ASSUME NEW i PROVE Effect(m, View(server, i), i) = View(server', i) OBVIOUS
  <2>2. CASE kind = "removed" BY <1>6, <1>8, <2>2 DEF Effect
  <2>3. CASE kind = "removed_all" /\ S = DOMAIN server
    BY <1>6, <1>8, <2>3 DEF Effect, View
  <2>4. CASE kind = "removed_triggered" /\ S = TriggeredIn(server)
    BY <1>6, <1>8, <2>4 DEF Effect, View, TriggeredIn
  <2> QED BY <2>2, <2>3, <2>4
<1>10. ASSUME linked, WireInv PROVE AllSynced(wire', active, server', call, n, astray)
  <2>1. SUFFICES ASSUME NEW i \in 1..n, i \notin astray
                 PROVE  \/ Synced(wire', View(active, i), View(server', i), i)
                        \/ Victimised(wire', active, call, i)
    BY DEF AllSynced
  <2>2. View(active, i) \in Views /\ View(server, i) \in Views BY ViewIs
  <2>3. ~Places(m, i) BY <1>6 DEF Places
  <2>4. CASE Synced(wire, View(active, i), View(server, i), i)
    BY <1>1, <1>4, <1>6, <1>9, <1>10, <2>2, <2>4, SyncedAppend
  <2>5. CASE Victimised(wire, active, call, i)
    BY <1>1, <1>4, <1>10, <2>3, <2>5, VictimAppend
  <2> QED BY <1>10, <2>1, <2>4, <2>5 DEF WireInv, AllSynced, n
<1>11. ASSUME linked, WireInv
       PROVE  /\ RemovalsTold(wire', server', n, told)
              /\ AllWiped(wire', n, told)
              /\ SnapshotFirst(wire', server', n)
  <2>1. \A i \in 1..n : i \notin DOMAIN server' => i \notin DOMAIN server \/ Tells(m, i)
    BY <1>5, <1>6 DEF Tells
  <2>2. m.kind = "removed_all" => \A i \in 1..n : i \in m.ids \/ i \notin DOMAIN server
    BY <1>6
  <2>3. \A i \in 1..n : i \in DOMAIN server' =>
            i \in DOMAIN server /\ (server[i].triggered => server'[i].triggered)
    BY <1>5
  <2>4. n <= n /\ m.kind # "snapshot" BY <1>1, <1>6
  <2> QED BY <1>1, <1>4, <1>6, <1>11, <2>1, <2>2, <2>3, <2>4, AppendKeeps DEF WireInv, n
<1>12. ASSUME linked, kind = "removed", NEW i \in S
       PROVE  Synced(wire', View(active, i), View(server', i), i)
  <2>1. View(active, i) \in Views BY ViewIs
  <2>2. Forces(m, i, "absent") /\ View(server', i) = "absent"
    BY <1>6, <1>8, <1>12 DEF Forces, Effect
  <2> QED BY <1>1, <1>4, <1>6, <1>12, <2>1, <2>2, SyncedForced DEF Views
<1>13. linked => \E k : wire' = Append(wire, k) /\ k.kind = kind BY <1>4, <1>6
<1> QED BY <1>2, <1>5, <1>7, <1>10, <1>11, <1>12, <1>13 DEF n

-----------------------------------------------------------------------------
(* The steps. *)

LEMMA ShapesKept ==
    ASSUME ShapesOK, NEW k \in {"rebuilds", "changes", "faults"}, NEW limit, Count(k, limit)
    PROVE  /\ used' \in [ids : Nat, rebuilds : Nat, changes : Nat, faults : Nat]
           /\ used'.ids = used.ids
<1>1. used \in [ids : Nat, rebuilds : Nat, changes : Nat, faults : Nat] BY DEF ShapesOK
<1>2. CASE k = "rebuilds" BY <1>1, <1>2 DEF Count
<1>3. CASE k = "changes" BY <1>1, <1>3 DEF Count
<1>4. CASE k = "faults" BY <1>1, <1>4 DEF Count
<1> QED BY <1>2, <1>3, <1>4

LEMMA Announced ==
    ASSUME NEW t, NEW g, AnnounceNext(t, g)
    PROVE  CallShape(call') /\ call'.pc \in {"idle", "form"}
BY DEF AnnounceNext, NoCall, CallShape

\* The call moves on, and nothing else of what matters here.
LEMMA CallKeeps ==
    ASSUME LevelsInv, UNCHANGED <<server, wire, linked, told, active>>, used'.ids = used.ids,
           used' \in [ids : Nat, rebuilds : Nat, changes : Nat, faults : Nat],
           astray \subseteq astray', call.pc # "remove", CallShape(call'), call'.pc # "insert"
    PROVE  LevelsInv'
<1>1. ShapesOK' BY DEF LevelsInv, ShapesOK
<1>2. ASSUME linked
      PROVE  /\ AllSynced(wire, active, server, call', used.ids, astray')
             /\ RemovalsTold(wire, server, used.ids, told)
             /\ AllWiped(wire, used.ids, told)
             /\ SnapshotFirst(wire, server, used.ids)
             /\ Ready(wire, active, call', told, astray')
  BY <1>2 DEF LevelsInv, AllSynced, Victimised, Ready
<1> QED BY <1>1, <1>2 DEF LevelsInv

LEMMA LevelsRebuildKeeps == ASSUME LevelsInv, Rebuild PROVE LevelsInv'
<1>1. PICK found \in LevelSets : AnnounceNext(Ascending(Formed(found)), found) BY DEF Rebuild
<1>2. CallShape(call') /\ call'.pc \in {"idle", "form"} BY <1>1, Announced
<1>3. call.pc = "idle" BY DEF Rebuild, NoCall
<1>4. /\ used' \in [ids : Nat, rebuilds : Nat, changes : Nat, faults : Nat]
      /\ used'.ids = used.ids
  BY ShapesKept DEF Rebuild, LevelsInv
<1> QED BY <1>2, <1>3, <1>4, CallKeeps DEF Rebuild

LEMMA MakeRoomKeeps == ASSUME LevelsInv, MakeRoom PROVE LevelsInv'
<1>1. call.pc = "form" /\ UNCHANGED <<levels, server, wire, linked, used, told, astray>>
  BY DEF MakeRoom
<1>2. CallShape(call) /\ used \in [ids : Nat, rebuilds : Nat, changes : Nat, faults : Nat]
  BY DEF LevelsInv, ShapesOK
<1>3. CASE call' = [call EXCEPT !.pc = "create"] /\ UNCHANGED active
  <2>1. CallShape(call') /\ call'.pc = "create" BY <1>2, <1>3 DEF CallShape
  <2> QED BY <1>1, <1>2, <1>3, <2>1, CallKeeps
<1>4. CASE active' = Minus(active, {Victim}) /\ call' = [call EXCEPT !.pc = "remove", !.id = Victim]
  <2> DEFINE x == Victim
  <2>1. CallShape(call') /\ call'.pc = "remove" /\ call'.id = x BY <1>2, <1>4 DEF CallShape
  <2>2. /\ DOMAIN active' = DOMAIN active \ {x}
        /\ active' = [i \in DOMAIN active' |-> active'[i]]
        /\ \A i \in DOMAIN active' : active'[i] = active[i]
    BY <1>4 DEF Minus
  <2> HIDE DEF x
  <2>3. ShapesOK' BY <1>1, <2>1, <2>2 DEF LevelsInv, ShapesOK
  <2>4. ASSUME linked PROVE AllSynced(wire, active', server, call', used.ids, astray)
    <3>1. SUFFICES ASSUME NEW i \in 1..used.ids, i \notin astray
                   PROVE  \/ Synced(wire, View(active', i), View(server, i), i)
                          \/ Victimised(wire, active', call', i)
      BY DEF AllSynced
    <3>2. Synced(wire, View(active, i), View(server, i), i)
      BY <1>1, <2>4, <3>1 DEF LevelsInv, AllSynced, Victimised
    <3>3. View(active', i) = IF i = x THEN "absent" ELSE View(active, i) BY <2>2 DEF View
    <3>4. CASE i # x BY <3>2, <3>3, <3>4
    <3>5. CASE i = x /\ \A k \in 1..Len(wire) : ~Places(wire[k], i)
      BY <2>1, <3>3, <3>5 DEF Victimised
    <3>6. CASE i = x /\ \E k \in 1..Len(wire) : Places(wire[k], i)
      <4>1. used.ids \in Nat /\ wire \in Seq(Messages(used.ids)) BY DEF LevelsInv, ShapesOK
      <4>2. View(active, i) \in Views /\ View(server, i) \in Views BY ViewIs
      <4> QED BY <3>2, <3>6, <4>1, <4>2, SyncedPlaced
    <3> QED BY <3>4, <3>5, <3>6
  <2>5. Ready(wire, active', call', told, astray) BY <2>1 DEF Ready
  <2> QED BY <1>1, <2>3, <2>4, <2>5 DEF LevelsInv
<1> QED BY <1>3, <1>4 DEF MakeRoom

LEMMA RemoveVictimKeeps == ASSUME LevelsInv, RemoveVictim PROVE LevelsInv'
<1>1. call.pc = "remove" /\ UNCHANGED <<levels, active, linked, told>> BY DEF RemoveVictim
<1>2. /\ CallShape(call) /\ used \in [ids : Nat, rebuilds : Nat, changes : Nat, faults : Nat]
      /\ wire \in Seq(Messages(used.ids)) /\ DOMAIN server \subseteq 1..used.ids
  BY DEF LevelsInv, ShapesOK
<1>3. CallShape(call') /\ call'.pc = "create" BY <1>2 DEF RemoveVictim, CallShape
<1>4. \A w, act, heard, strays : Ready(w, act, call', heard, strays) BY <1>3 DEF Ready
<1>5. CASE /\ call.id \in DOMAIN server
           /\ server' = Minus(server, {call.id})
           /\ Tell(Message("removed", {call.id}))
           /\ UNCHANGED <<used, astray>>
  <2>1. {call.id} \subseteq DOMAIN server /\ "removed" \in Changing BY <1>5 DEF Changing
  <2>2. ShapesOK BY DEF LevelsInv
  <2>3. /\ wire' \in Seq(Messages(used.ids))
        /\ DOMAIN server' \subseteq 1..used.ids
        /\ server' = [i \in DOMAIN server' |-> server'[i]]
        /\ \A i \in DOMAIN server' : server'[i] = [price |-> server'[i].price,
                                                triggered |-> server'[i].triggered]
        /\ linked /\ WireInv =>
              /\ AllSynced(wire', active, server', call, used.ids, astray)
              /\ RemovalsTold(wire', server', used.ids, told)
              /\ AllWiped(wire', used.ids, told)
              /\ SnapshotFirst(wire', server', used.ids)
        /\ linked => Synced(wire', View(active, call.id), View(server', call.id), call.id)
    BY <1>5, <2>1, <2>2, RemovingKeeps
  <2>4. linked => WireInv BY DEF LevelsInv, WireInv
  <2>5. ShapesOK' BY <1>1, <1>3, <1>5, <2>2, <2>3 DEF ShapesOK
  <2>6. linked => AllSynced(wire', active, server', call', used.ids, astray)
    BY <2>3, <2>4 DEF AllSynced, Victimised
  <2> QED BY <1>1, <1>4, <1>5, <2>3, <2>4, <2>5, <2>6 DEF LevelsInv
<1>6. CASE call.id \notin DOMAIN server /\ UNCHANGED <<server, wire, used, astray>>
  <2>1. ShapesOK' BY <1>1, <1>3, <1>6 DEF LevelsInv, ShapesOK
  <2>2. ASSUME linked PROVE AllSynced(wire, active, server, call', used.ids, astray)
    <3>1. SUFFICES ASSUME NEW i \in 1..used.ids, Victimised(wire, active, call, i)
                   PROVE  Synced(wire, View(active, i), View(server, i), i)
      BY <2>2 DEF LevelsInv, AllSynced
    <3>2. i = call.id /\ View(active, i) = "absent" BY <3>1 DEF Victimised
    <3>3. View(server, i) = "absent" BY <1>6, <3>2 DEF View
    <3>4. \A k \in 1..Len(wire) : ~Places(wire[k], i) BY <3>1 DEF Victimised
    <3> QED BY <1>2, <3>2, <3>3, <3>4, AbsentSynced
  <2> QED BY <1>1, <1>4, <1>6, <2>1, <2>2 DEF LevelsInv
<1>7. CASE /\ Count("faults", MaxFaults)
           /\ astray' = astray \union {call.id}
           /\ UNCHANGED <<server, wire>>
  <2>1. /\ used' \in [ids : Nat, rebuilds : Nat, changes : Nat, faults : Nat]
        /\ used'.ids = used.ids
    BY <1>7, ShapesKept DEF LevelsInv
  <2>2. ShapesOK' BY <1>1, <1>3, <1>7, <2>1 DEF LevelsInv, ShapesOK
  <2>3. linked => AllSynced(wire, active, server, call', used.ids, astray')
    BY <1>7 DEF LevelsInv, AllSynced, Victimised
  <2> QED BY <1>1, <1>4, <1>7, <2>1, <2>2, <2>3 DEF LevelsInv
<1> QED BY <1>5, <1>6, <1>7 DEF RemoveVictim

\* Where the terminal stored a level for call: nobody makes room meanwhile.
LEMMA CreateKeeps == ASSUME LevelsInv, Create PROVE LevelsInv'
<1>1. call.pc = "create" /\ UNCHANGED <<active, linked, told, astray>> BY DEF Create
<1>2. /\ CallShape(call) /\ used \in [ids : Nat, rebuilds : Nat, changes : Nat, faults : Nat]
      /\ ShapesOK
  BY DEF LevelsInv, ShapesOK
<1>3. ASSUME NEW p, Store(p), CallShape(call'), call'.pc # "remove", used'.ids = used.ids + 1,
             used' \in [ids : Nat, rebuilds : Nat, changes : Nat, faults : Nat],
             call'.pc = "insert" => call'.id = used.ids + 1
      PROVE  LevelsInv'
  <2> DEFINE n == used.ids + 1
  <2>1. /\ n \in Nat /\ wire' \in Seq(Messages(n))
        /\ DOMAIN server' = DOMAIN server \union {n}
        /\ server' = [i \in DOMAIN server' |-> server'[i]]
        /\ \A i \in DOMAIN server' : server'[i] = [price |-> server'[i].price,
                                                triggered |-> server'[i].triggered]
        /\ linked => \E k \in 1..Len(wire') : PlacesPlain(wire'[k], n)
        /\ linked /\ WireInv =>
              /\ AllSynced(wire', active, server', call, n, astray)
              /\ RemovalsTold(wire', server', n, told)
              /\ AllWiped(wire', n, told)
              /\ SnapshotFirst(wire', server', n)
    BY <1>2, <1>3, StoreKeeps
  <2>2. n \in 1..n /\ 1..used.ids \subseteq 1..n BY <1>2
  <2>3. used'.ids = n BY <1>3
  <2> HIDE DEF n
  <2>4. DOMAIN server' \subseteq 1..n /\ DOMAIN active \subseteq 1..n
    BY <1>2, <2>1, <2>2 DEF ShapesOK
  <2>5. ShapesOK' BY <1>1, <1>2, <1>3, <2>1, <2>3, <2>4 DEF ShapesOK
  <2>6. linked => WireInv BY DEF LevelsInv, WireInv
  <2>7. linked => AllSynced(wire', active, server', call', n, astray)
    BY <1>1, <2>1, <2>6 DEF AllSynced, Victimised
  <2>8. linked => Ready(wire', active, call', told, astray)
    BY <1>3, <2>1, <2>2 DEF Ready, n
  <2> QED BY <1>1, <2>1, <2>3, <2>5, <2>6, <2>7, <2>8 DEF LevelsInv
<1>4. CASE /\ Store(Head(call.todo))
           /\ used' = [used EXCEPT !.ids = @ + 1]
           /\ \/ call' = [call EXCEPT !.pc = "insert", !.id = used.ids + 1]
              \/ call' = [call EXCEPT !.pc = "find"]
  <2>1. /\ used' \in [ids : Nat, rebuilds : Nat, changes : Nat, faults : Nat]
        /\ used'.ids = used.ids + 1
    BY <1>2, <1>4
  <2>2. CASE call' = [call EXCEPT !.pc = "insert", !.id = used.ids + 1]
    <3>1. CallShape(call') /\ call'.pc = "insert" /\ call'.id = used.ids + 1
      BY <1>2, <2>2 DEF CallShape
    <3> QED BY <1>3, <1>4, <2>1, <3>1
  <2>3. CASE call' = [call EXCEPT !.pc = "find"]
    <3>1. CallShape(call') /\ call'.pc = "find" BY <1>2, <2>3 DEF CallShape
    <3> QED BY <1>3, <1>4, <2>1, <3>1
  <2> QED BY <1>4, <2>2, <2>3
<1>5. CASE /\ Store(Head(call.todo))
           /\ used' = [used EXCEPT !.ids = @ + 1, !.faults = @ + 1]
           /\ AnnounceNext(Tail(call.todo), call.target)
  <2>1. /\ used' \in [ids : Nat, rebuilds : Nat, changes : Nat, faults : Nat]
        /\ used'.ids = used.ids + 1
    <3> DEFINE u == [used EXCEPT !.ids = @ + 1]
    <3>1. /\ u \in [ids : Nat, rebuilds : Nat, changes : Nat, faults : Nat]
          /\ u.ids = used.ids + 1
      BY <1>2
    <3>2. used' = [u EXCEPT !.faults = @ + 1] BY <1>5
    <3> HIDE DEF u
    <3> QED BY <3>1, <3>2
  <2>2. CallShape(call') /\ call'.pc \in {"idle", "form"} BY <1>5, Announced
  <2> QED BY <1>3, <1>5, <2>1, <2>2
<1>6. CASE AnnounceNext(Tail(call.todo), call.target) /\ UNCHANGED <<server, wire, used>>
  <2>1. CallShape(call') /\ call'.pc \in {"idle", "form"} BY <1>6, Announced
  <2> QED BY <1>1, <1>2, <1>6, <2>1, CallKeeps
<1> QED BY <1>4, <1>5, <1>6 DEF Create

\* find: what the terminal lists untriggered, the bridge knows so or will learn.
LEMMA FindKeeps == ASSUME LevelsInv, Find PROVE LevelsInv'
<1>1. call.pc = "find" /\ UNCHANGED <<active, server, wire, linked, told, astray>> BY DEF Find
<1>2. /\ CallShape(call) /\ used \in [ids : Nat, rebuilds : Nat, changes : Nat, faults : Nat]
      /\ used.ids \in Nat /\ wire \in Seq(Messages(used.ids)) /\ DOMAIN server \subseteq 1..used.ids
  BY DEF LevelsInv, ShapesOK
<1>3. ASSUME NEW i \in DOMAIN server \ TriggeredIn(server),
             call' = [call EXCEPT !.pc = "insert", !.id = i], UNCHANGED used
      PROVE  LevelsInv'
  <2>1. CallShape(call') /\ call'.pc = "insert" /\ call'.id = i BY <1>2, <1>3 DEF CallShape
  <2>2. ShapesOK' BY <1>1, <1>3, <2>1 DEF LevelsInv, ShapesOK
  <2>3. ASSUME linked PROVE Ready(wire, active, call', told, astray)
    <3>1. i \in 1..used.ids BY <1>2, <1>3
    <3>2. SUFFICES ASSUME i \notin astray, \A k \in 1..Len(wire) : ~PlacesPlain(wire[k], i)
                   PROVE  /\ View(active, i) = "plain"
                          /\ \A k \in 1..Len(wire) :
                                 wire[k].kind = "snapshot" /\ i \in wire[k].ids =>
                                     i \notin wire[k].triggered
      BY <2>1, <3>1 DEF Ready
    <3>3. View(server, i) = "plain" BY <1>3 DEF View, TriggeredIn
    <3>4. Synced(wire, View(active, i), "plain", i)
      BY <1>1, <2>3, <3>1, <3>2, <3>3 DEF LevelsInv, AllSynced, Victimised
    <3>5. View(active, i) \in Views BY ViewIs
    <3>6. View(active, i) = "plain" BY <1>2, <3>2, <3>4, <3>5, PlainComesFrom
    <3>7. \A k \in 1..Len(wire) : wire[k].kind = "snapshot" => i \notin wire[k].triggered
      BY <1>3, <2>3 DEF LevelsInv, SnapshotFirst, TriggeredIn
    <3> QED BY <3>6, <3>7
  <2>4. linked => AllSynced(wire, active, server, call', used.ids, astray)
    BY <1>1 DEF LevelsInv, AllSynced, Victimised
  <2> QED BY <1>1, <1>3, <2>2, <2>3, <2>4 DEF LevelsInv
<1>4. CASE AnnounceNext(Tail(call.todo), call.target) /\ UNCHANGED used
  <2>1. CallShape(call') /\ call'.pc \in {"idle", "form"} BY <1>4, Announced
  <2> QED BY <1>1, <1>2, <1>4, <2>1, CallKeeps
<1>5. CASE AnnounceNext(Tail(call.todo), call.target) /\ Count("faults", MaxFaults)
  <2>1. CallShape(call') /\ call'.pc \in {"idle", "form"} BY <1>5, Announced
  <2>2. /\ used' \in [ids : Nat, rebuilds : Nat, changes : Nat, faults : Nat]
        /\ used'.ids = used.ids
    BY <1>5, ShapesKept DEF LevelsInv
  <2> QED BY <1>1, <1>2, <2>1, <2>2, CallKeeps
<1> QED BY <1>3, <1>4, <1>5 DEF Find

LEMMA InsertKeeps == ASSUME LevelsInv, Insert PROVE LevelsInv'
<1> DEFINE x == call.id
<1>1. call.pc = "insert" /\ UNCHANGED <<server, wire, linked, used, told>> BY DEF Insert
<1>2. /\ used \in [ids : Nat, rebuilds : Nat, changes : Nat, faults : Nat]
      /\ used.ids \in Nat /\ wire \in Seq(Messages(used.ids))
  BY DEF LevelsInv, ShapesOK
<1>3. CallShape(call') /\ call'.pc \in {"idle", "form"} BY Announced DEF Insert
<1>4. astray' = IF x \in told THEN astray \union {x} ELSE astray BY DEF Insert
<1>5. /\ DOMAIN active' = DOMAIN active \union {x}
      /\ active' = [i \in DOMAIN active' |-> active'[i]]
      /\ active'[x].triggered = FALSE
      /\ \A i \in DOMAIN active : i # x => active'[i] = active[i]
      /\ active'[x] = [at |-> active'[x].at, triggered |-> active'[x].triggered]
  BY DEF Insert, Plus
<1>6. ShapesOK'
  <2>1. x \in 1..used.ids BY <1>1 DEF LevelsInv, ShapesOK
  <2>2. \A i \in DOMAIN active' : i = x \/ i \in DOMAIN active BY <1>5
  <2>3. \A i \in DOMAIN active' : active'[i] = [at |-> active'[i].at,
                                            triggered |-> active'[i].triggered]
    BY <1>5, <2>2 DEF LevelsInv, ShapesOK
  <2> HIDE DEF x
  <2> QED BY <1>1, <1>3, <1>5, <2>1, <2>3 DEF LevelsInv, ShapesOK
<1> HIDE DEF x
<1>7. ASSUME linked PROVE AllSynced(wire, active', server, call', used.ids, astray')
  <2>1. SUFFICES ASSUME NEW i \in 1..used.ids, i \notin astray'
                 PROVE  Synced(wire, View(active', i), View(server, i), i)
    BY DEF AllSynced
  <2>2. i \notin astray BY <1>4, <2>1
  <2>3. Synced(wire, View(active, i), View(server, i), i)
    BY <1>1, <1>7, <2>1, <2>2 DEF LevelsInv, AllSynced, Victimised
  <2>4. CASE i # x
    <3>1. View(active', i) = View(active, i) BY <1>5, <2>4 DEF View
    <3> QED BY <2>3, <3>1
  <2>5. CASE i = x
    <3>1. View(active', i) = "plain" BY <1>5, <2>5 DEF View
    <3>2. i \notin told BY <1>4, <2>1, <2>5
    <3>3. \/ \E k \in 1..Len(wire) : PlacesPlain(wire[k], i)
          \/ View(active, i) = "plain"
      BY <1>1, <1>7, <2>2, <2>5, <3>2 DEF LevelsInv, Ready, x
    <3>4. View(active, i) \in Views /\ View(server, i) \in Views BY ViewIs
    <3> QED BY <1>2, <2>3, <3>1, <3>3, <3>4, SyncedPlaced DEF PlacesPlain
  <2> QED BY <2>4, <2>5
<1>8. Ready(wire, active', call', told, astray') BY <1>3 DEF Ready
<1> QED BY <1>1, <1>6, <1>7, <1>8 DEF LevelsInv

LEMMA HandleMessageKeeps == ASSUME LevelsInv, HandleMessage PROVE LevelsInv'
<1> DEFINE m == Head(wire)
           n == used.ids
<1>1. /\ wire # <<>> /\ wire' = Tail(wire)
      /\ UNCHANGED <<levels, call, server, linked, used, astray>>
      /\ told' = IF m.kind \in {"snapshot", "placed"} THEN told ELSE told \union m.ids
  BY DEF HandleMessage
<1>2. n \in Nat /\ wire \in Seq(Messages(n)) BY DEF LevelsInv, ShapesOK
<1>3. /\ Len(wire) \in Nat /\ Len(wire) > 0 /\ m = wire[1] /\ m \in Messages(n)
      /\ wire' \in Seq(Messages(n)) /\ Len(wire') = Len(wire) - 1
      /\ \A k \in 1..Len(wire') : wire'[k] = wire[k + 1]
  BY <1>1, <1>2
<1>4. /\ m.kind \in Changing \union {"snapshot"} /\ m.ids \in SUBSET (1..n)
      /\ m.kind = "snapshot" => m.triggered \in SUBSET (1..n)
  BY <1>3 DEF Messages, Changing
<1>5. /\ m.kind = "snapshot"    => OnSnapshot(m)
      /\ m.kind = "placed"      => OnPlaced(m)
      /\ m.kind = "triggered"   => OnTriggered(m)
      /\ m.kind = "removed"     => OnRemoved(m)
      /\ m.kind = "removed_all" => OnRemovedAll
      /\ m.kind = "removed_triggered" => OnRemovedTriggered
  BY DEF HandleMessage
<1>6. /\ DOMAIN active \subseteq 1..n
      /\ active = [i \in DOMAIN active |-> active[i]]
      /\ \A i \in DOMAIN active : active[i] = [at |-> active[i].at,
                                             triggered |-> active[i].triggered]
  BY DEF LevelsInv, ShapesOK
<1> HIDE DEF m, n
<1> DEFINE Good(act) == /\ DOMAIN act \subseteq 1..n
                        /\ act = [i \in DOMAIN act |-> act[i]]
                        /\ \A i \in DOMAIN act : act[i] = [at |-> act[i].at,
                                                         triggered |-> act[i].triggered]
<1>7. Good(active') /\ \A i : View(active', i) = Effect(m, View(active, i), i)
  <2>1. CASE m.kind = "snapshot"
    <3>1. active' = [i \in m.ids |-> [at |-> 0, triggered |-> i \in m.triggered]]
      BY <1>5, <2>1 DEF OnSnapshot
    <3>2. /\ DOMAIN active' = m.ids
          /\ active' = [i \in DOMAIN active' |-> active'[i]]
          /\ \A i \in m.ids : active'[i] = [at |-> active'[i].at,
                                           triggered |-> active'[i].triggered]
      BY <3>1
    <3>3. \A i \in m.ids : active'[i].triggered <=> i \in m.triggered BY <3>1
    <3>4. \A i : Effect(m, View(active, i), i) =
             IF i \notin m.ids THEN "absent"
             ELSE IF i \in m.triggered THEN "triggered" ELSE "plain"
      BY <2>1 DEF Effect
    <3>5. \A i : View(active', i) = Effect(m, View(active, i), i)
      BY <3>2, <3>3, <3>4 DEF View
    <3> QED BY <1>4, <3>2, <3>5
  <2>2. CASE m.kind = "placed"
    BY <1>4, <1>5, <1>6, <2>2 DEF OnPlaced, Learn, View, Effect
  <2>3. CASE m.kind = "triggered"
    BY <1>4, <1>5, <1>6, <2>3 DEF OnTriggered, View, Effect
  <2>4. CASE m.kind = "removed"
    BY <1>4, <1>5, <1>6, <2>4 DEF OnRemoved, Minus, View, Effect
  <2>5. CASE m.kind = "removed_all"
    BY <1>4, <1>5, <1>6, <2>5 DEF OnRemovedAll, View, Effect
  <2>6. CASE m.kind = "removed_triggered"
    BY <1>4, <1>5, <1>6, <2>6 DEF OnRemovedTriggered, TriggeredIn, Minus, View, Effect
  <2> QED BY <1>4, <2>1, <2>2, <2>3, <2>4, <2>5, <2>6 DEF Changing
<1> HIDE DEF Good
<1>8. ShapesOK'
  BY <1>1, <1>3, <1>7 DEF LevelsInv, ShapesOK, n, Good
<1>9. ASSUME linked PROVE AllSynced(wire', active', server, call, n, astray)
  <2>1. SUFFICES ASSUME NEW i \in 1..n, i \notin astray
                 PROVE  \/ Synced(wire', View(active', i), View(server, i), i)
                        \/ Victimised(wire', active', call, i)
    BY DEF AllSynced
  <2>2. CASE Synced(wire, View(active, i), View(server, i), i)
    <3>1. View(active, i) \in Views /\ View(server, i) \in Views BY ViewIs
    <3> QED BY <1>1, <1>2, <1>7, <2>2, <3>1, SyncedTail DEF m
  <2>3. CASE Victimised(wire, active, call, i)
    <3>1. ~Places(m, i) /\ \A k \in 1..Len(wire') : ~Places(wire'[k], i)
      <4>1. \A k \in 1..Len(wire) : ~Places(wire[k], i) BY <2>3 DEF Victimised
      <4>2. ~Places(m, i) BY <1>3, <4>1
      <4>3. ASSUME NEW k \in 1..Len(wire') PROVE ~Places(wire'[k], i)
        <5>1. k + 1 \in 1..Len(wire) /\ wire'[k] = wire[k + 1] BY <1>3
        <5>2. ~Places(wire[k + 1], i) BY <4>1, <5>1
        <5> QED BY <5>1, <5>2
      <4> QED BY <4>2, <4>3
    <3>2. View(active', i) = "absent"
      BY <1>4, <1>7, <2>3, <3>1 DEF Victimised, Effect, Places, Changing
    <3> QED BY <2>3, <3>1, <3>2 DEF Victimised
  <2> QED BY <1>9, <2>1, <2>2, <2>3 DEF LevelsInv, AllSynced, n
<1>10. \A i : Tells(m, i) => i \in told' BY <1>1 DEF Tells
<1>11. told \subseteq told' BY <1>1
<1>12. \A k \in 2..Len(wire) : k - 1 \in 1..Len(wire') /\ wire'[k - 1] = wire[k]
  BY <1>3
<1>13. ASSUME linked PROVE RemovalsTold(wire', server, n, told')
  <2>1. SUFFICES ASSUME NEW i \in 1..n, i \notin DOMAIN server, i \notin told'
                 PROVE  \E k \in 1..Len(wire') : Tells(wire'[k], i)
    BY DEF RemovalsTold
  <2>2. PICK k \in 1..Len(wire) : Tells(wire[k], i)
    BY <1>11, <1>13, <2>1 DEF LevelsInv, RemovalsTold, n
  <2>3. k # 1 BY <1>3, <1>10, <2>1, <2>2
  <2>4. k \in 2..Len(wire) BY <2>3
  <2> QED BY <1>12, <2>2, <2>4
<1>14. ASSUME linked PROVE AllWiped(wire', n, told')
  <2>1. SUFFICES ASSUME NEW k \in 1..Len(wire'), wire'[k].kind = "removed_all", NEW i \in 1..n,
                        i \notin wire'[k].ids, i \notin told'
                 PROVE  \/ \E l \in 1..(k - 1) : Tells(wire'[l], i)
                        \/ \E l \in (k + 1)..Len(wire') : PlacesPlain(wire'[l], i)
    BY DEF AllWiped
  <2>2. k + 1 \in 1..Len(wire) /\ wire[k + 1] = wire'[k] /\ i \notin told BY <1>3, <1>11, <2>1
  <2>3. \/ \E l \in 1..k : Tells(wire[l], i)
        \/ \E l \in (k + 2)..Len(wire) : PlacesPlain(wire[l], i)
    <3>1. (k + 1) - 1 = k /\ (k + 1) + 1 = k + 2 BY <1>3
    <3> QED BY <1>14, <2>1, <2>2, <3>1 DEF LevelsInv, AllWiped, n
  <2>4. ASSUME NEW l \in 1..k, Tells(wire[l], i)
        PROVE  l - 1 \in 1..(k - 1) /\ Tells(wire'[l - 1], i)
    <3>1. l # 1 BY <1>3, <1>10, <2>1, <2>4
    <3>2. l \in 2..Len(wire) BY <1>3, <2>2, <3>1
    <3> QED BY <1>3, <1>12, <2>4, <3>1, <3>2
  <2>5. ASSUME NEW l \in (k + 2)..Len(wire), PlacesPlain(wire[l], i)
        PROVE  l - 1 \in (k + 1)..Len(wire') /\ PlacesPlain(wire'[l - 1], i)
    <3>1. l \in 2..Len(wire) BY <1>3
    <3> QED BY <1>3, <1>12, <2>5, <3>1
  <2> QED BY <2>3, <2>4, <2>5
<1>15. ASSUME linked PROVE SnapshotFirst(wire', server, n)
  <2>1. ASSUME NEW k \in 1..Len(wire') PROVE wire'[k].kind # "snapshot"
    <3>1. k + 1 \in 1..Len(wire) /\ k + 1 # 1 /\ wire'[k] = wire[k + 1] BY <1>3
    <3> QED BY <1>15, <3>1 DEF LevelsInv, SnapshotFirst
  <2> QED BY <2>1 DEF SnapshotFirst
<1>16. ASSUME linked PROVE Ready(wire', active', call, told', astray)
  <2> DEFINE x == call.id
  <2>1. SUFFICES ASSUME call.pc = "insert", x \notin told', x \notin astray,
                        \A k \in 1..Len(wire') : ~PlacesPlain(wire'[k], x)
                 PROVE  /\ View(active', x) = "plain"
                        /\ \A k \in 1..Len(wire') :
                              wire'[k].kind = "snapshot" /\ x \in wire'[k].ids =>
                                  x \notin wire'[k].triggered
    BY DEF Ready
  <2>2. \A k \in 1..Len(wire') : wire'[k].kind # "snapshot"
    <3>1. \A k \in 1..Len(wire') : k + 1 \in 1..Len(wire) /\ k + 1 # 1 /\ wire'[k] = wire[k + 1]
      BY <1>3
    <3> QED BY <1>16, <3>1 DEF LevelsInv, SnapshotFirst
  <2>3. x \in 1..n /\ x \notin told BY <1>11, <2>1 DEF LevelsInv, ShapesOK, n
  <2>4. \A k \in 2..Len(wire) : ~PlacesPlain(wire[k], x) BY <1>12, <2>1
  <2> HIDE DEF x
  <2>5. CASE PlacesPlain(m, x)
    <3>1. Effect(m, View(active, x), x) = "plain" BY <2>5 DEF PlacesPlain, Places, Effect
    <3> QED BY <1>7, <2>2, <3>1
  <2>6. CASE ~PlacesPlain(m, x)
    <3>1. \A k \in 1..Len(wire) : ~PlacesPlain(wire[k], x)
      <4>1. \A k \in 1..Len(wire) : k = 1 \/ k \in 2..Len(wire) BY <1>3
      <4> QED BY <1>3, <2>4, <2>6, <4>1
    <3>2. /\ View(active, x) = "plain"
          /\ \A k \in 1..Len(wire) : wire[k].kind = "snapshot" /\ x \in wire[k].ids =>
                 x \notin wire[k].triggered
      BY <1>16, <2>1, <2>3, <3>1 DEF LevelsInv, Ready, x
    <3>3. 1 \in 1..Len(wire) /\ wire[1] = m BY <1>3
    <3>4. m.kind # "snapshot"
      <4>1. SUFFICES ASSUME m.kind = "snapshot" PROVE FALSE OBVIOUS
      <4>2. x \in m.ids BY <1>16, <2>3, <2>4, <3>3, <4>1 DEF LevelsInv, SnapshotFirst, n
      <4> QED BY <2>6, <3>2, <3>3, <4>1, <4>2 DEF PlacesPlain, Places
    <3>5. ~Tells(m, x) BY <1>10, <2>1 DEF x
    <3>6. m.kind # "removed_all"
      <4>1. SUFFICES ASSUME m.kind = "removed_all" PROVE FALSE OBVIOUS
      <4>2. x \notin m.ids BY <3>5, <4>1 DEF Tells
      <4>3. \/ \E l \in 1..(1 - 1) : Tells(wire[l], x)
            \/ \E l \in (1 + 1)..Len(wire) : PlacesPlain(wire[l], x)
        BY <1>16, <2>3, <3>3, <4>1, <4>2 DEF LevelsInv, AllWiped, n
      <4> QED BY <2>4, <4>3
    <3>7. Effect(m, "plain", x) = "plain"
      BY <1>4, <3>4, <3>5, <3>6 DEF Effect, Tells, Changing
    <3> QED BY <1>7, <2>2, <3>2, <3>7
  <2> QED BY <2>5, <2>6
<1> QED BY <1>1, <1>8, <1>9, <1>13, <1>14, <1>15, <1>16 DEF LevelsInv, n

LEMMA TriggeredRecord ==
    ASSUME NEW r, NEW a, NEW b, r = [price |-> a, triggered |-> b], NEW v
    PROVE  [r EXCEPT !.triggered = v] = [price |-> a, triggered |-> v]
OBVIOUS

LEMMA TriggerKeeps == ASSUME LevelsInv, Trigger PROVE LevelsInv'
<1> DEFINE n == used.ids
<1>0. PICK x \in DOMAIN server \ TriggeredIn(server) :
          /\ server' = [server EXCEPT ![x].triggered = TRUE]
          /\ Tell(Message("triggered", {x}))
          /\ Count("changes", MaxChanges)
          /\ UNCHANGED <<levels, call, active, linked, told, astray>>
  BY DEF Trigger
<1> DEFINE m == Message("triggered", {x})
<1>1. /\ n \in Nat /\ wire \in Seq(Messages(n)) /\ DOMAIN server \subseteq 1..n
      /\ server = [i \in DOMAIN server |-> server[i]]
      /\ \A i \in DOMAIN server : server[i] = [price |-> server[i].price,
                                             triggered |-> server[i].triggered]
  BY DEF LevelsInv, ShapesOK
<1>2. m.kind = "triggered" /\ m.ids = {x} /\ m \in Messages(n)
  BY <1>0, <1>1 DEF Message, Messages, Changing
<1>3. wire' = IF linked THEN Append(wire, m) ELSE wire BY <1>0 DEF Tell
<1>4. /\ used' \in [ids : Nat, rebuilds : Nat, changes : Nat, faults : Nat]
      /\ used'.ids = n
  BY <1>0, ShapesKept DEF LevelsInv
<1>5. /\ DOMAIN server' = DOMAIN server
      /\ server' = [i \in DOMAIN server' |-> server'[i]]
      /\ server'[x] = [price |-> server[x].price, triggered |-> TRUE]
      /\ \A i \in DOMAIN server : i # x => server'[i] = server[i]
  <2>0. PICK v : v = TRUE OBVIOUS
  <2>1. server' = [i \in DOMAIN server |->
                     IF i = x THEN [server[x] EXCEPT !.triggered = v] ELSE server[i]]
    BY <1>0, <2>0
  <2>2. server[x] = [price |-> server[x].price, triggered |-> server[x].triggered] BY <1>0, <1>1
  <2>3. [server[x] EXCEPT !.triggered = v] = [price |-> server[x].price, triggered |-> v]
    BY ONLY <2>2, TriggeredRecord
  <2>4. server'[x] = [price |-> server[x].price, triggered |-> v] BY <2>1, <2>3
  <2> QED BY <2>0, <2>1, <2>4
<1>6. x \in 1..n /\ x \in DOMAIN server BY <1>0, <1>1
<1> HIDE DEF m, n
<1>7. ShapesOK'
  <2>1. \A i \in DOMAIN server' : server'[i] = [price |-> server'[i].price,
                                             triggered |-> server'[i].triggered]
    BY <1>1, <1>5
  <2>2. wire' \in Seq(Messages(n)) BY <1>1, <1>2, <1>3
  <2>3. /\ CallShape(call) /\ (call.pc = "insert" => call.id \in 1..n)
        /\ DOMAIN active \subseteq 1..n
        /\ active = [i \in DOMAIN active |-> active[i]]
        /\ \A i \in DOMAIN active : active[i] = [at |-> active[i].at,
                                               triggered |-> active[i].triggered]
    BY DEF LevelsInv, ShapesOK, n
  <2>4. DOMAIN server' \subseteq 1..n BY <1>1, <1>5 DEF n
  <2>5. UNCHANGED <<call, active>> BY <1>0
  <2> QED BY <1>4, <1>5, <2>1, <2>2, <2>3, <2>4, <2>5 DEF ShapesOK
<1>8. View(server', x) = "triggered" /\ View(server, x) = "plain"
  BY <1>0, <1>5, <1>6 DEF View, TriggeredIn
<1>9. \A i : i # x => View(server', i) = View(server, i) BY <1>5 DEF View
<1>10. \A i : Effect(m, View(server, i), i) = View(server', i)
  BY <1>2, <1>8, <1>9 DEF Effect
<1>11. ASSUME linked PROVE AllSynced(wire', active, server', call, n, astray)
  <2>1. SUFFICES ASSUME NEW i \in 1..n, i \notin astray
                 PROVE  \/ Synced(wire', View(active, i), View(server', i), i)
                        \/ Victimised(wire', active, call, i)
    BY DEF AllSynced
  <2>2. View(active, i) \in Views /\ View(server, i) \in Views BY ViewIs
  <2>3. ~Places(m, i) BY <1>2 DEF Places
  <2>4. CASE Synced(wire, View(active, i), View(server, i), i)
    BY <1>1, <1>2, <1>3, <1>10, <1>11, <2>2, <2>4, SyncedAppend
  <2>5. CASE Victimised(wire, active, call, i)
    BY <1>1, <1>3, <1>11, <2>3, <2>5, VictimAppend
  <2> QED BY <1>11, <2>1, <2>4, <2>5 DEF LevelsInv, AllSynced, n
<1>12. ASSUME linked
       PROVE  /\ RemovalsTold(wire', server', n, told)
              /\ AllWiped(wire', n, told)
              /\ SnapshotFirst(wire', server', n)
  <2>1. \A i \in 1..n : i \notin DOMAIN server' => i \notin DOMAIN server BY <1>5
  <2>2. m.kind # "removed_all" /\ m.kind # "snapshot" /\ n <= n BY <1>1, <1>2
  <2>3. \A i \in 1..n : i \in DOMAIN server' =>
            i \in DOMAIN server /\ (server[i].triggered => server'[i].triggered)
    BY <1>5
  <2> QED BY <1>1, <1>2, <1>3, <1>12, <2>1, <2>2, <2>3, AppendKeeps DEF LevelsInv, n
<1>13. ASSUME linked PROVE Ready(wire', active, call, told, astray)
  BY <1>1, <1>2, <1>3, <1>13, ReadyAppend DEF LevelsInv
<1> QED BY <1>0, <1>4, <1>7, <1>11, <1>12, <1>13 DEF LevelsInv

LEMMA UserPlacesKeeps == ASSUME LevelsInv, UserPlaces PROVE LevelsInv'
<1> DEFINE n == used.ids + 1
<1>0. PICK p \in Prices :
          /\ Store(p)
          /\ used' = [used EXCEPT !.ids = @ + 1, !.changes = @ + 1]
          /\ UNCHANGED <<levels, call, active, linked, told, astray>>
  BY DEF UserPlaces
<1>1. /\ ShapesOK /\ used \in [ids : Nat, rebuilds : Nat, changes : Nat, faults : Nat]
      /\ wire \in Seq(Messages(used.ids))
  BY DEF LevelsInv, ShapesOK
<1>2. /\ used' \in [ids : Nat, rebuilds : Nat, changes : Nat, faults : Nat]
      /\ used'.ids = used.ids + 1
  <2> DEFINE u == [used EXCEPT !.ids = @ + 1]
  <2>1. /\ u \in [ids : Nat, rebuilds : Nat, changes : Nat, faults : Nat]
        /\ u.ids = used.ids + 1
    BY <1>1
  <2>2. used' = [u EXCEPT !.changes = @ + 1] BY <1>0
  <2> HIDE DEF u
  <2> QED BY <2>1, <2>2
<1>3. /\ n \in Nat /\ wire' \in Seq(Messages(n))
      /\ DOMAIN server' = DOMAIN server \union {n}
      /\ server' = [i \in DOMAIN server' |-> server'[i]]
      /\ \A i \in DOMAIN server' : server'[i] = [price |-> server'[i].price,
                                              triggered |-> server'[i].triggered]
      /\ linked /\ WireInv =>
            /\ AllSynced(wire', active, server', call, n, astray)
            /\ RemovalsTold(wire', server', n, told)
            /\ AllWiped(wire', n, told)
            /\ SnapshotFirst(wire', server', n)
      /\ linked => \E m : wire' = Append(wire, m) /\ m.kind = "placed"
  BY <1>0, <1>1, <1>2, StoreKeeps
<1>4. n \in 1..n /\ 1..used.ids \subseteq 1..n BY <1>1
<1>5. used'.ids = n BY <1>2
<1> HIDE DEF n
<1>6. ShapesOK'
  <2>1. DOMAIN server' \subseteq 1..n /\ DOMAIN active \subseteq 1..n
    BY <1>1, <1>3, <1>4 DEF ShapesOK
  <2>2. call.pc = "insert" => call.id \in 1..n BY <1>1, <1>4 DEF ShapesOK
  <2> QED BY <1>0, <1>1, <1>2, <1>3, <1>5, <2>1, <2>2 DEF ShapesOK
<1>7. linked => WireInv BY DEF LevelsInv, WireInv
<1>8. ASSUME linked PROVE Ready(wire', active, call, told, astray)
  <2>1. PICK m : wire' = Append(wire, m) /\ m.kind = "placed" BY <1>3, <1>8
  <2> QED BY <1>1, <1>8, <2>1, ReadyAppend DEF LevelsInv, ShapesOK
<1> QED BY <1>0, <1>3, <1>5, <1>6, <1>7, <1>8 DEF LevelsInv

LEMMA RemovingStep ==
    ASSUME LevelsInv, NEW S, S \subseteq DOMAIN server, NEW kind \in Changing,
           \/ kind = "removed"
           \/ kind = "removed_all" /\ S = DOMAIN server
           \/ kind = "removed_triggered" /\ S = TriggeredIn(server),
           Removing(kind, S)
    PROVE  LevelsInv'
<1>1. /\ server' = Minus(server, S) /\ Tell(Message(kind, S)) /\ Count("changes", MaxChanges)
      /\ UNCHANGED <<levels, call, active, linked, told, astray>>
  BY DEF Removing
<1>2. /\ used' \in [ids : Nat, rebuilds : Nat, changes : Nat, faults : Nat]
      /\ used'.ids = used.ids
  BY <1>1, ShapesKept DEF LevelsInv
<1>3. ShapesOK /\ used.ids \in Nat /\ wire \in Seq(Messages(used.ids))
  BY DEF LevelsInv, ShapesOK
<1>4. /\ wire' \in Seq(Messages(used.ids))
      /\ DOMAIN server' \subseteq 1..used.ids
      /\ server' = [i \in DOMAIN server' |-> server'[i]]
      /\ \A i \in DOMAIN server' : server'[i] = [price |-> server'[i].price,
                                              triggered |-> server'[i].triggered]
      /\ linked /\ WireInv =>
            /\ AllSynced(wire', active, server', call, used.ids, astray)
            /\ RemovalsTold(wire', server', used.ids, told)
            /\ AllWiped(wire', used.ids, told)
            /\ SnapshotFirst(wire', server', used.ids)
      /\ linked => \E m : wire' = Append(wire, m) /\ m.kind = kind
  BY <1>1, <1>3, RemovingKeeps
<1>5. ShapesOK' BY <1>1, <1>2, <1>3, <1>4 DEF ShapesOK
<1>6. linked => WireInv BY DEF LevelsInv, WireInv
<1>7. ASSUME linked PROVE Ready(wire', active, call, told, astray)
  <2>1. PICK m : wire' = Append(wire, m) /\ m.kind = kind BY <1>4, <1>7
  <2>2. m.kind # "snapshot" BY <2>1 DEF Changing
  <2> QED BY <1>3, <1>7, <2>1, <2>2, ReadyAppend DEF LevelsInv
<1> QED BY <1>1, <1>2, <1>4, <1>5, <1>6, <1>7 DEF LevelsInv

LEMMA LinkLostKeeps == ASSUME LevelsInv, LinkLost PROVE LevelsInv'
<1>1. linked' = FALSE /\ wire' = <<>> /\ UNCHANGED <<levels, call, active, server, told, astray>>
  BY DEF LinkLost
<1>2. /\ used' \in [ids : Nat, rebuilds : Nat, changes : Nat, faults : Nat]
      /\ used'.ids = used.ids
  BY ShapesKept DEF LinkLost, LevelsInv
<1>3. wire' \in Seq(Messages(used.ids)) BY <1>1
<1>4. ShapesOK' BY <1>1, <1>2, <1>3 DEF LevelsInv, ShapesOK
<1> QED BY <1>1, <1>4 DEF LevelsInv

LEMMA StepKeeps == ASSUME LevelsInv, [LevelsNext]_levelVars PROVE LevelsInv'
<1>1. CASE Rebuild BY <1>1, LevelsRebuildKeeps
<1>2. CASE MakeRoom BY <1>2, MakeRoomKeeps
<1>3. CASE RemoveVictim BY <1>3, RemoveVictimKeeps
<1>4. CASE Create BY <1>4, CreateKeeps
<1>5. CASE Find BY <1>5, FindKeeps
<1>6. CASE Insert BY <1>6, InsertKeeps
<1>7. CASE HandleMessage BY <1>7, HandleMessageKeeps
<1>8. CASE Trigger BY <1>8, TriggerKeeps
<1>9. CASE UserPlaces BY <1>9, UserPlacesKeeps
<1>10. CASE UserRemoves
  <2>1. PICK i \in DOMAIN server : Removing("removed", {i}) BY <1>10 DEF UserRemoves
  <2>2. {i} \subseteq DOMAIN server /\ "removed" \in Changing BY DEF Changing
  <2> QED BY <2>1, <2>2, RemovingStep
<1>11. CASE UserRemovesAll
  BY <1>11, RemovingStep DEF UserRemovesAll, Changing
<1>12. CASE Cleanup
  <2>1. TriggeredIn(server) \subseteq DOMAIN server /\ "removed_triggered" \in Changing
    BY DEF TriggeredIn, Changing
  <2> QED BY <1>12, <2>1, RemovingStep DEF Cleanup
<1>13. CASE LinkLost BY <1>13, LinkLostKeeps
<1>14. CASE UNCHANGED levelVars
  BY <1>14 DEF LevelsInv, ShapesOK, levelVars
<1> QED BY <1>1, <1>2, <1>3, <1>4, <1>5, <1>6, <1>7, <1>8, <1>9, <1>10, <1>11, <1>12,
           <1>13, <1>14 DEF LevelsNext

LEMMA InitHolds == ASSUME LevelsInit PROVE LevelsInv
<1>1. PICK S \in {{}, {1}} : \E T \in SUBSET S :
          /\ server = [i \in S |-> [price |-> StartPrice, triggered |-> i \in T]]
          /\ wire = <<[kind |-> "snapshot", ids |-> S, triggered |-> T]>>
          /\ used = [ids |-> Cardinality(S), rebuilds |-> 0, changes |-> 0, faults |-> 0]
  BY DEF LevelsInit
<1>2. PICK T \in SUBSET S :
          /\ server = [i \in S |-> [price |-> StartPrice, triggered |-> i \in T]]
          /\ wire = <<[kind |-> "snapshot", ids |-> S, triggered |-> T]>>
          /\ used = [ids |-> Cardinality(S), rebuilds |-> 0, changes |-> 0, faults |-> 0]
  BY <1>1
<1> DEFINE n == used.ids
           m == [kind |-> "snapshot", ids |-> S, triggered |-> T]
<1>3. n \in {0, 1} /\ S = 1..n
  <2>1. CASE S = {} BY <1>2, <2>1, FS_EmptySet
  <2>2. CASE S = {1}
    <3>1. Cardinality(S) = 1 BY <2>2, FS_Singleton
    <3> QED BY <1>2, <2>2, <3>1
  <2> QED BY <2>1, <2>2
<1>4. used \in [ids : Nat, rebuilds : Nat, changes : Nat, faults : Nat]
  <2>1. Cardinality(S) \in Nat BY <1>2, <1>3
  <2> QED BY <1>2, <2>1
<1>5. m.kind = "snapshot" /\ m.ids = S /\ m.triggered = T /\ m \in Messages(n)
  BY <1>3 DEF Messages
<1>6. /\ wire = <<m>> /\ Len(wire) = 1 /\ wire[1] = m /\ wire = Append(<<>>, m)
      /\ wire \in Seq(Messages(n))
  BY <1>2, <1>5
<1>7. /\ call = NoCall /\ active = <<>> /\ told = {} /\ astray = {}
      /\ CallShape(call) /\ call.pc = "idle"
  BY DEF LevelsInit, NoCall, CallShape
<1>8. /\ DOMAIN server = S
      /\ server = [i \in DOMAIN server |-> server[i]]
      /\ \A i \in S : server[i] = [price |-> server[i].price, triggered |-> server[i].triggered]
  BY <1>2
<1>9. \A i \in S : server[i].triggered <=> i \in T BY <1>2
<1>10. DOMAIN active = {} /\ active = [i \in DOMAIN active |-> active[i]] BY <1>7
<1> HIDE DEF m, n
<1>11. ShapesOK
  BY <1>3, <1>4, <1>6, <1>7, <1>8, <1>10 DEF ShapesOK, n
<1>12. AllSynced(wire, active, server, call, n, astray)
  <2>1. SUFFICES ASSUME NEW i \in 1..n
                 PROVE  Synced(wire, View(active, i), View(server, i), i)
    BY DEF AllSynced
  <2>2. View(active, i) \in Views /\ View(server, i) \in Views BY ViewIs
  <2>3. Forces(m, i, View(server, i))
    BY <1>3, <1>5, <1>8, <1>9 DEF Forces, Effect, View
  <2>4. n \in Nat /\ <<>> \in Seq(Messages(n)) BY <1>3
  <2>5. Synced(Append(<<>>, m), View(active, i), View(server, i), i)
    BY <1>5, <2>2, <2>3, <2>4, SyncedForced
  <2> QED BY <1>6, <2>5
<1>13. RemovalsTold(wire, server, n, told) BY <1>3, <1>8 DEF RemovalsTold
<1>14. AllWiped(wire, n, told) BY <1>5, <1>6 DEF AllWiped
<1>15. SnapshotFirst(wire, server, n)
  BY <1>3, <1>5, <1>6, <1>8, <1>9 DEF SnapshotFirst
<1>16. Ready(wire, active, call, told, astray) BY <1>7 DEF Ready
<1> QED BY <1>11, <1>12, <1>13, <1>14, <1>15, <1>16 DEF LevelsInv, n

LEMMA InvImplies == ASSUME LevelsInv PROVE LevelsAgree
<1>1. SUFFICES ASSUME linked, wire = <<>>, call = NoCall, NEW i \in LevelIds, i \notin astray
               PROVE  /\ i \in DOMAIN active <=> i \in DOMAIN server
                      /\ i \in TriggeredIn(active) <=> i \in TriggeredIn(server)
  BY DEF LevelsAgree
<1>2. /\ DOMAIN active \subseteq 1..used.ids /\ DOMAIN server \subseteq 1..used.ids
  BY DEF LevelsInv, ShapesOK
<1>3. CASE i \notin 1..used.ids
  BY <1>2, <1>3 DEF TriggeredIn
<1>4. CASE i \in 1..used.ids
  <2>1. Synced(<<>>, View(active, i), View(server, i), i)
    BY <1>1, <1>4 DEF LevelsInv, AllSynced, Victimised, NoCall
  <2>2. View(active, i) = View(server, i) BY <2>1, SyncedEmpty
  <2> QED BY <2>2 DEF View, TriggeredIn
<1> QED BY <1>3, <1>4

\* For any prices and any number of rebuilds, changes by others and faults:
\* once every message of the terminal is handled and on_level_formed is through,
\* the levels in SignalLevelBridge::active_levels_ are the terminal's, triggered
\* or not as there, but for those LevelsAgree excepts.
THEOREM BridgeAgrees == LevelsSpec => []LevelsAgree
<1>1. LevelsInit => LevelsInv BY InitHolds
<1>2. LevelsInv /\ [LevelsNext]_levelVars => LevelsInv' BY StepKeeps
<1>3. LevelsInv => LevelsAgree BY InvImplies
<1> QED BY <1>1, <1>2, <1>3, PTL DEF LevelsSpec
-----------------------------------------------------------------------------
(* Icebergs. *)

Prints == [tick : IceTicks, side : Aggressors, size : Nat, at : Nat]
Evidence == [refills : Nat, misses : Nat, eaten : Nat, last : Nat, emitted : BOOLEAN]
There(t) == {i \in DOMAIN prints : prints[i].tick = t}
\* The trades at t that were joined with an update.
MatchedAt(t) == {i \in There(t) : matched[i] = 1}
\* No trade at t was joined twice.
OnceAt(t) == \A i \in There(t) : matched[i] <= 1

IceTypes ==
    /\ hour \in Nat /\ prints \in Seq(Prints) /\ matched \in Seq(Nat) /\ DOMAIN matched = DOMAIN prints
    /\ evidence \in [IceTicks -> Evidence]
    /\ shown \in [IceTicks -> Int]

\* What a level swallowed are trades that were joined already.
IceInv ==
    /\ IceTypes
    /\ \A t \in IceTicks : OnceAt(t) => evidence[t].eaten <= SumOver(Volumes, MatchedAt(t))
    /\ suspected \subseteq IceTicks /\ \A t \in suspected : evidence[t].eaten >= MinEaten

LEMMA TradedIs == ASSUME NEW is PROVE Traded(is) = SumOver(Volumes, is)
BY DEF Traded, MapThenSumSet, SumOver

LEMMA PrintsAre ==
    ASSUME IceTypes
    PROVE  /\ IsFiniteSet(DOMAIN prints) /\ \A i \in DOMAIN prints : Volumes[i] \in Nat
           /\ \A i \in DOMAIN prints : prints[i] \in Prints /\ matched[i] \in Nat
<1>1. prints \in Seq(Prints) /\ matched \in Seq(Nat) /\ DOMAIN matched = DOMAIN prints BY DEF IceTypes
<1>2. DOMAIN prints = 1..Len(prints) /\ Len(prints) \in Nat BY <1>1, LenProperties
<1>3. \A i \in DOMAIN prints : prints[i] \in Prints BY <1>1, <1>2, ElementOfSeq
<1>4. DOMAIN matched = 1..Len(matched) /\ Len(matched) \in Nat BY <1>1, LenProperties
<1>5. \A i \in DOMAIN prints : matched[i] \in Nat BY <1>1, <1>4, ElementOfSeq
<1>6. IsFiniteSet(DOMAIN prints) BY <1>2, UpToIsFinite
<1>7. \A i \in DOMAIN prints : Volumes[i] \in Nat BY <1>3 DEF Volumes, Prints
<1> QED BY <1>3, <1>5, <1>6, <1>7

LEMMA IceInitially == ASSUME IcebergsInit PROVE IceInv
<1>1. /\ shown = [t \in IceTicks |-> -1] /\ evidence = [t \in IceTicks |-> NoEvidence]
      /\ prints = <<>> /\ matched = <<>> /\ hour = 1 /\ suspected = {}
  BY DEF IcebergsInit
<1>2. NoEvidence \in Evidence /\ NoEvidence.eaten = 0 BY DEF NoEvidence, Evidence
<1> HIDE DEF NoEvidence
<1>3. evidence \in [IceTicks -> Evidence] /\ \A t \in IceTicks : evidence[t].eaten = 0 BY <1>1, <1>2
<1>4. prints \in Seq(Prints) /\ matched \in Seq(Nat) /\ DOMAIN prints = {} /\ DOMAIN matched = DOMAIN prints
  BY <1>1
<1>5. shown \in [IceTicks -> Int] BY <1>1
<1>6. \A t \in IceTicks : MatchedAt(t) = {} BY <1>4 DEF MatchedAt, There
<1>7. \A t \in IceTicks : evidence[t].eaten <= SumOver(Volumes, MatchedAt(t))
  <2> SUFFICES ASSUME NEW t \in IceTicks PROVE evidence[t].eaten <= SumOver(Volumes, MatchedAt(t))
    OBVIOUS
  <2>1. SumOver(Volumes, {}) = 0 BY SumEmpty
  <2> QED BY <1>3, <1>6, <2>1
<1> QED BY <1>1, <1>3, <1>4, <1>5, <1>7 DEF IceInv, IceTypes

LEMMA IceUpdateStep == ASSUME IceInv, IcebergUpdate PROVE IceInv'
<1>0. IceTypes BY DEF IceInv
<1>1. UNCHANGED <<prints, pruned, hour>> BY DEF IcebergUpdate
<1>2. PICK t \in IceTicks, s \in Aggressors, after \in IceSizes :
          LET before == shown[t]
              volume == Traded(Joined(t, s))
              e      == Counted(evidence[t], volume, before, after)
              joins  == before >= 0 /\ volume > 0 /\ (before > 0 \/ after > 0)
          IN  /\ shown' = [shown EXCEPT ![t] = after]
              /\ evidence' = IF joins
                             THEN [evidence EXCEPT ![t] = [e EXCEPT !.emitted = @ \/ Suspicious(e)]]
                             ELSE evidence
              /\ suspected' = IF joins /\ Suspicious(e) THEN {t} ELSE {}
              /\ matched' = [i \in DOMAIN prints |->
                    IF before >= 0 /\ i \in Joined(t, s) THEN matched[i] + 1 ELSE matched[i]]
  BY DEF IcebergUpdate
<1> DEFINE before == shown[t]
           J == Joined(t, s)
           volume == Traded(J)
           e == Counted(evidence[t], volume, before, after)
           joins == before >= 0 /\ volume > 0 /\ (before > 0 \/ after > 0)
           n == [e EXCEPT !.emitted = e.emitted \/ Suspicious(e)]
<1>3. /\ shown' = [shown EXCEPT ![t] = after]
      /\ evidence' = IF joins THEN [evidence EXCEPT ![t] = n] ELSE evidence
      /\ suspected' = IF joins /\ Suspicious(e) THEN {t} ELSE {}
      /\ matched' = [i \in DOMAIN prints |-> IF before >= 0 /\ i \in J THEN matched[i] + 1 ELSE matched[i]]
  BY <1>2
<1>4. /\ IsFiniteSet(DOMAIN prints) /\ \A i \in DOMAIN prints : Volumes[i] \in Nat
      /\ \A i \in DOMAIN prints : prints[i] \in Prints /\ matched[i] \in Nat
  BY <1>0, PrintsAre
<1>5. J \subseteq There(t) /\ J \subseteq DOMAIN prints BY DEF Joined, There
<1>6. volume = SumOver(Volumes, J) /\ volume \in Nat
  <2>1. IsFiniteSet(J) BY <1>4, <1>5, FS_Subset
  <2>2. \A i \in J : Volumes[i] \in Nat BY <1>4, <1>5
  <2> HIDE DEF J
  <2> QED BY <2>1, <2>2, SumNat, TradedIs
<1>7. evidence[t] \in Evidence /\ before \in Int /\ hour \in Nat /\ after \in Int
  BY <1>0, IcebergsAssumption DEF IceTypes
<1> HIDE DEF J, volume, before
<1>8. e \in Evidence /\ (e.eaten = evidence[t].eaten \/ e.eaten = evidence[t].eaten + volume)
  <2>1. CASE IsRefill(volume, before, after)
    <3>1. e = [evidence[t] EXCEPT !.refills = evidence[t].refills + 1,
                                  !.eaten = evidence[t].eaten + volume, !.last = hour]
      BY <2>1 DEF Counted
    <3>2. evidence[t].refills + 1 \in Nat /\ evidence[t].eaten + volume \in Nat BY <1>6, <1>7 DEF Evidence
    <3> HIDE DEF e
    <3> QED BY <1>7, <3>1, <3>2 DEF Evidence
  <2>2. CASE ~IsRefill(volume, before, after)
    <3>1. e = [evidence[t] EXCEPT !.misses = evidence[t].misses + 1] BY <2>2 DEF Counted
    <3>2. evidence[t].misses + 1 \in Nat BY <1>7 DEF Evidence
    <3> HIDE DEF e
    <3> QED BY <1>7, <3>1, <3>2 DEF Evidence
  <2> QED BY <2>1, <2>2
<1> HIDE DEF e
<1>9. n \in Evidence /\ n.eaten = e.eaten
  <2>1. (e.emitted \/ Suspicious(e)) \in BOOLEAN OBVIOUS
  <2>2. PICK v \in BOOLEAN : v = (e.emitted \/ Suspicious(e)) BY <2>1
  <2>3. n = [e EXCEPT !.emitted = v] BY <2>2
  <2> HIDE DEF n
  <2> QED BY <1>8, <2>3 DEF Evidence
<1> HIDE DEF n, joins
<1>10. evidence' \in [IceTicks -> Evidence] /\ evidence'[t] = (IF joins THEN n ELSE evidence[t])
       /\ \A u \in IceTicks : u # t => evidence'[u] = evidence[u]
  <2>1. evidence \in [IceTicks -> Evidence] BY <1>0 DEF IceTypes
  <2>2. CASE joins BY <1>3, <1>9, <2>1, <2>2
  <2>3. CASE ~joins BY <1>3, <2>1, <2>3
  <2> QED BY <2>2, <2>3
<1>11. /\ DOMAIN matched' = DOMAIN prints /\ matched' \in Seq(Nat)
       /\ \A i \in DOMAIN prints : matched'[i] = IF before >= 0 /\ i \in J THEN matched[i] + 1 ELSE matched[i]
  <2>1. \A i \in DOMAIN prints : (IF before >= 0 /\ i \in J THEN matched[i] + 1 ELSE matched[i]) \in Nat
    BY <1>4
  <2>2. prints \in Seq(Prints) BY <1>0 DEF IceTypes
  <2>3. DOMAIN prints = 1..Len(prints) /\ Len(prints) \in Nat BY <2>2, LenProperties
  <2>4. matched' \in [1..Len(prints) -> Nat] BY <1>3, <2>1, <2>3
  <2> QED BY <1>3, <2>3, <2>4, SeqDef
<1>12. shown' \in [IceTicks -> Int] BY <1>0, <1>3, <1>7 DEF IceTypes
<1>13. IceTypes' BY <1>0, <1>1, <1>10, <1>11, <1>12 DEF IceTypes
<1>14. ASSUME NEW u \in IceTicks, OnceAt(u)'
       PROVE  evidence'[u].eaten <= SumOver(Volumes', MatchedAt(u)')
  <2>0. Volumes' = Volumes /\ There(u)' = There(u) BY <1>1 DEF Volumes, There
  <2>1. There(u) \subseteq DOMAIN prints BY DEF There
  <2>2. \A i \in There(u) : matched'[i] <= 1 BY <1>14, <2>0 DEF OnceAt
  <2>3. OnceAt(u)
    <3> SUFFICES ASSUME NEW i \in There(u) PROVE matched[i] <= 1 BY DEF OnceAt
    <3>1. matched[i] \in Nat /\ matched'[i] <= 1 BY <1>4, <2>1, <2>2
    <3> QED BY <1>11, <2>1, <3>1
  <2>4. evidence[u].eaten <= SumOver(Volumes, MatchedAt(u)) BY <2>3 DEF IceInv
  <2>5. CASE u # t \/ ~(before >= 0)
    <3>1. \A i \in There(u) : matched'[i] = matched[i]
      <4> SUFFICES ASSUME NEW i \in There(u) PROVE matched'[i] = matched[i] OBVIOUS
      <4>1. u # t => i \notin J BY <1>5 DEF There
      <4> QED BY <1>11, <2>1, <2>5, <4>1
    <3>2. MatchedAt(u)' = MatchedAt(u) BY <2>0, <3>1 DEF MatchedAt
    <3>3. evidence'[u] = evidence[u] BY <1>10, <2>5 DEF joins
    <3> QED BY <2>0, <2>4, <3>2, <3>3
  <2>6. CASE u = t /\ before >= 0
    <3> DEFINE M == MatchedAt(t)
    <3>1. \A i \in J : matched[i] = 0
      <4> SUFFICES ASSUME NEW i \in J PROVE matched[i] = 0 OBVIOUS
      <4>1. i \in There(u) /\ i \in DOMAIN prints BY <1>5, <2>6
      <4>2. matched'[i] = matched[i] + 1 BY <1>11, <2>6, <4>1
      <4> QED BY <1>4, <2>2, <4>1, <4>2
    <3>2. MatchedAt(t)' = M \union J
      <4>1. MatchedAt(t)' = {i \in There(t) : matched'[i] = 1} BY <2>0, <2>6 DEF MatchedAt
      <4>2. \A i \in There(t) : matched'[i] = IF i \in J THEN 1 ELSE matched[i]
        BY <1>11, <2>1, <2>6, <3>1
      <4> QED BY <1>5, <4>1, <4>2 DEF MatchedAt
    <3>3. M \intersect J = {} /\ M \subseteq DOMAIN prints BY <3>1 DEF MatchedAt, There
    <3>4. IsFiniteSet(M) /\ IsFiniteSet(J) /\ \A i \in M \union J : Volumes[i] \in Int
      BY <1>4, <1>5, <3>3, FS_Subset
    <3> HIDE DEF M
    <3>5. SumOver(Volumes, M \union J) = SumOver(Volumes, M) + SumOver(Volumes, J)
      BY <3>3, <3>4, SumUnion
    <3>6. SumOver(Volumes, M) \in Int BY <3>4, SumInt
    <3>7. evidence[t].eaten <= SumOver(Volumes, M) BY <2>4, <2>6 DEF M
    <3>8. evidence'[t].eaten \in {evidence[t].eaten, evidence[t].eaten + volume}
      BY <1>8, <1>9, <1>10
    <3>9. evidence[t].eaten \in Nat BY <1>7 DEF Evidence
    <3>10. evidence'[t].eaten <= SumOver(Volumes, M) + volume BY <1>6, <3>6, <3>7, <3>8, <3>9
    <3> QED BY <1>6, <2>0, <2>6, <3>2, <3>5, <3>10
  <2> QED BY <2>5, <2>6
<1>15. suspected' \subseteq IceTicks /\ \A u \in suspected' : evidence'[u].eaten >= MinEaten
  <2> SUFFICES ASSUME NEW u \in suspected' PROVE u \in IceTicks /\ evidence'[u].eaten >= MinEaten
    OBVIOUS
  <2>1. u = t /\ joins /\ Suspicious(e) BY <1>3
  <2>2. e.eaten >= MinEaten BY <2>1 DEF Suspicious
  <2> QED BY <1>9, <1>10, <2>1, <2>2
<1> QED BY <1>13, <1>14, <1>15 DEF IceInv

LEMMA IceTradeStep == ASSUME IceInv, IcebergTrade PROVE IceInv'
<1>0. IceTypes BY DEF IceInv
<1>1. UNCHANGED <<shown, evidence, pruned, hour, updates>> /\ suspected' = {} /\ matched' = Append(matched, 0)
  BY DEF IcebergTrade
<1>2. PICK t \in IceTicks, s \in Aggressors :
          prints' = Append(prints, [tick |-> t, side |-> s, size |-> 1, at |-> hour])
  BY DEF IcebergTrade
<1> DEFINE new == [tick |-> t, side |-> s, size |-> 1, at |-> hour]
           n == Len(prints)
<1>3. prints' = Append(prints, new) BY <1>2
<1>4. prints \in Seq(Prints) /\ matched \in Seq(Nat) /\ DOMAIN matched = DOMAIN prints /\ hour \in Nat
  BY <1>0 DEF IceTypes
<1>5. new \in Prints BY <1>4 DEF Prints
<1> HIDE DEF new
<1>6. /\ n \in Nat /\ DOMAIN prints = 1..n /\ DOMAIN matched = 1..Len(matched) /\ Len(matched) \in Nat
  BY <1>4, LenProperties
<1> HIDE DEF n
<1>7. Len(matched) = n BY <1>4, <1>6
<1>8. /\ prints' \in Seq(Prints) /\ Len(prints') = n + 1 /\ DOMAIN prints' = 1..(n + 1)
      /\ \A i \in 1..n : prints'[i] = prints[i]
  <2>1. prints' \in Seq(Prints) /\ Len(prints') = n + 1 BY <1>3, <1>4, <1>5, AppendProperties DEF n
  <2>2. \A i \in 1..n : prints'[i] = prints[i] BY <1>3, <1>4, <1>5, AppendProperties DEF n
  <2>3. DOMAIN prints' = 1..(n + 1) BY <2>1, LenProperties
  <2> QED BY <2>1, <2>2, <2>3
<1>9. /\ matched' \in Seq(Nat) /\ DOMAIN matched' = 1..(n + 1) /\ matched'[n + 1] = 0
      /\ \A i \in 1..n : matched'[i] = matched[i]
  <2>1. matched' \in Seq(Nat) /\ Len(matched') = n + 1 /\ matched'[n + 1] = 0
    BY <1>1, <1>4, <1>7, AppendProperties
  <2>2. \A i \in 1..n : matched'[i] = matched[i] BY <1>1, <1>4, <1>7, AppendProperties
  <2>3. DOMAIN matched' = 1..(n + 1) BY <2>1, LenProperties
  <2> QED BY <2>1, <2>2, <2>3
<1>10. IceTypes' BY <1>0, <1>1, <1>8, <1>9 DEF IceTypes
<1>11. ASSUME NEW u \in IceTicks, OnceAt(u)'
       PROVE  evidence'[u].eaten <= SumOver(Volumes', MatchedAt(u)')
  <2>1. \A i \in There(u)' : matched'[i] <= 1 BY <1>11 DEF OnceAt
  <2>2. There(u) \subseteq There(u)' BY <1>6, <1>8 DEF There
  <2>3. There(u) \subseteq 1..n BY <1>6 DEF There
  <2>4. OnceAt(u) BY <1>9, <2>1, <2>2, <2>3 DEF OnceAt
  <2>5. evidence[u].eaten <= SumOver(Volumes, MatchedAt(u)) BY <2>4 DEF IceInv
  <2>6. MatchedAt(u)' = MatchedAt(u)
    <3>1. MatchedAt(u) \subseteq MatchedAt(u)' BY <1>9, <2>2, <2>3 DEF MatchedAt
    <3>2. ASSUME NEW i \in MatchedAt(u)' PROVE i \in MatchedAt(u)
      <4>1. i \in 1..(n + 1) /\ prints'[i].tick = u /\ matched'[i] = 1 BY <1>8, <3>2 DEF MatchedAt, There
      <4>2. i # n + 1 BY <1>9, <4>1
      <4>3. i \in 1..n BY <1>6, <4>1, <4>2
      <4> QED BY <1>6, <1>8, <1>9, <4>1, <4>3 DEF MatchedAt, There
    <3> QED BY <3>1, <3>2
  <2>7. MatchedAt(u) \subseteq 1..n BY <2>3 DEF MatchedAt
  <2>8. IsFiniteSet(MatchedAt(u)) BY <1>6, <2>7, UpToIsFinite, FS_Subset
  <2>9. \A i \in MatchedAt(u) : Volumes'[i] = Volumes[i]
    <3> SUFFICES ASSUME NEW i \in MatchedAt(u) PROVE Volumes'[i] = Volumes[i] OBVIOUS
    <3>1. i \in 1..n /\ i \in 1..(n + 1) BY <1>6, <2>7
    <3>2. Volumes[i] = prints[i].size BY <1>6, <3>1 DEF Volumes
    <3>3. Volumes'[i] = prints'[i].size BY <1>8, <3>1 DEF Volumes
    <3> QED BY <1>8, <3>1, <3>2, <3>3
  <2>10. SumOver(Volumes', MatchedAt(u)) = SumOver(Volumes, MatchedAt(u)) BY <2>8, <2>9, SumSame
  <2> QED BY <1>1, <2>5, <2>6, <2>10
<1> QED BY <1>1, <1>10, <1>11 DEF IceInv

LEMMA IceFrameStep == ASSUME IceInv, IcebergFrame PROVE IceInv'
<1>0. IceTypes BY DEF IceInv
<1>1. UNCHANGED <<shown, prints, hour, updates, matched>> /\ suspected' = {}
  BY DEF IcebergFrame
<1>2. evidence' = [t \in IceTicks |-> IF hour - evidence[t].last > Stale THEN NoEvidence ELSE evidence[t]]
  BY DEF IcebergFrame
<1>3. NoEvidence \in Evidence /\ NoEvidence.eaten = 0 BY DEF NoEvidence, Evidence
<1> HIDE DEF NoEvidence
<1>4. evidence \in [IceTicks -> Evidence] BY <1>0 DEF IceTypes
<1>5. evidence' \in [IceTicks -> Evidence] BY <1>2, <1>3, <1>4
<1>6. IceTypes' BY <1>0, <1>1, <1>5 DEF IceTypes
<1>7. ASSUME NEW u \in IceTicks, OnceAt(u)'
      PROVE  evidence'[u].eaten <= SumOver(Volumes', MatchedAt(u)')
  <2>1. Volumes' = Volumes /\ There(u)' = There(u) BY <1>1 DEF Volumes, There
  <2>2. MatchedAt(u)' = MatchedAt(u) /\ OnceAt(u) BY <1>1, <1>7, <2>1 DEF MatchedAt, OnceAt
  <2>3. evidence[u].eaten <= SumOver(Volumes, MatchedAt(u)) BY <2>2 DEF IceInv
  <2>4. MatchedAt(u) \subseteq DOMAIN prints BY DEF MatchedAt, There
  <2>5. IsFiniteSet(MatchedAt(u)) /\ \A i \in MatchedAt(u) : Volumes[i] \in Nat
    BY <1>0, <2>4, PrintsAre, FS_Subset
  <2>6. SumOver(Volumes, MatchedAt(u)) \in Nat BY <2>5, SumNat
  <2>7. evidence'[u] = NoEvidence \/ evidence'[u] = evidence[u] BY <1>2
  <2>8. evidence'[u].eaten <= SumOver(Volumes, MatchedAt(u)) BY <1>3, <2>3, <2>6, <2>7
  <2> QED BY <2>1, <2>2, <2>8
<1> QED BY <1>1, <1>6, <1>7 DEF IceInv

LEMMA IceQuiet ==
    ASSUME IceInv, UNCHANGED <<shown, evidence, prints, matched>>, hour' \in Nat,
           suspected' = {} \/ suspected' = suspected
    PROVE  IceInv'
<1>1. IceTypes' BY DEF IceInv, IceTypes
<1>2. ASSUME NEW u \in IceTicks, OnceAt(u)'
      PROVE  evidence'[u].eaten <= SumOver(Volumes', MatchedAt(u)')
  <2>1. Volumes' = Volumes /\ There(u)' = There(u) BY DEF Volumes, There
  <2>2. MatchedAt(u)' = MatchedAt(u) /\ OnceAt(u) BY <1>2, <2>1 DEF MatchedAt, OnceAt
  <2>3. evidence[u].eaten <= SumOver(Volumes, MatchedAt(u)) BY <2>2 DEF IceInv
  <2> QED BY <2>1, <2>2, <2>3
<1>3. suspected' \subseteq IceTicks /\ \A t \in suspected' : evidence'[t].eaten >= MinEaten BY DEF IceInv
<1> QED BY <1>1, <1>2, <1>3 DEF IceInv

LEMMA IceStep == ASSUME IceInv, [IcebergsNext]_iceVars PROVE IceInv'
<1>0. hour \in Nat BY DEF IceInv, IceTypes
<1>1. CASE IcebergUpdate BY <1>1, IceUpdateStep
<1>2. CASE IcebergTrade BY <1>2, IceTradeStep
<1>3. CASE IcebergFrame BY <1>3, IceFrameStep
<1>4. CASE IcebergClock
  <2>1. UNCHANGED <<shown, evidence, prints, matched>> /\ hour' = hour + 1 /\ suspected' = {}
    BY <1>4 DEF IcebergClock
  <2>2. hour' \in Nat BY <1>0, <2>1
  <2> QED BY <2>1, <2>2, IceQuiet
<1>5. CASE UNCHANGED iceVars
  <2>1. UNCHANGED <<shown, evidence, prints, matched>> /\ hour' = hour /\ suspected' = suspected
    BY <1>5 DEF iceVars
  <2>2. hour' \in Nat BY <1>0, <2>1
  <2> QED BY <2>1, <2>2, IceQuiet
<1> QED BY <1>1, <1>2, <1>3, <1>4, <1>5 DEF IcebergsNext

LEMMA IceSays == ASSUME IceInv PROVE EatenWasTraded
<1>1. ASSUME NEW t \in IceTicks, \A i \in There(t) : matched[i] <= 1
      PROVE  evidence[t].eaten <= Traded(There(t)) /\ (t \in suspected => Traded(There(t)) >= MinEaten)
  <2>1. evidence[t].eaten <= SumOver(Volumes, MatchedAt(t)) BY <1>1 DEF IceInv, OnceAt
  <2>2. There(t) \subseteq DOMAIN prints /\ MatchedAt(t) \subseteq There(t) BY DEF MatchedAt, There
  <2>3. IsFiniteSet(There(t)) /\ \A i \in There(t) : Volumes[i] \in Nat
    BY <2>2, PrintsAre, FS_Subset DEF IceInv
  <2>4. IsFiniteSet(MatchedAt(t)) /\ \A i \in MatchedAt(t) : Volumes[i] \in Nat
    BY <2>2, <2>3, FS_Subset
  <2>5. SumOver(Volumes, MatchedAt(t)) <= SumOver(Volumes, There(t)) BY <2>2, <2>3, SumSubset
  <2>6. SumOver(Volumes, MatchedAt(t)) \in Nat /\ SumOver(Volumes, There(t)) \in Nat
    BY <2>3, <2>4, SumNat
  <2>7. evidence[t].eaten \in Nat BY DEF IceInv, IceTypes, Evidence
  <2>8. evidence[t].eaten <= SumOver(Volumes, There(t)) BY <2>1, <2>5, <2>6, <2>7
  <2>9. MinEaten \in Nat BY IcebergsAssumption
  <2>10. t \in suspected => evidence[t].eaten >= MinEaten BY DEF IceInv
  <2> QED BY <2>6, <2>7, <2>8, <2>9, <2>10, TradedIs
<1> QED BY <1>1 DEF EatenWasTraded, There

\* What a level is said to have swallowed was really traded there, so long as
\* no trade was joined with two updates (on_book_update, IcebergDetector.cpp).
THEOREM EatenWasReallyTraded == IcebergsSpec => []EatenWasTraded
<1>1. IcebergsInit => IceInv BY IceInitially
<1>2. IceInv /\ [IcebergsNext]_iceVars => IceInv' BY IceStep
<1>3. IceInv => EatenWasTraded BY IceSays
<1> QED BY <1>1, <1>2, <1>3, PTL DEF IcebergsSpec
-----------------------------------------------------------------------------
(* Plans: prices. *)

Sides == {-1, 1}
Quotes == Nat \ {0}

\* Scales between a third and three: the clamp of the volume scale is tighter.
Rates == {s \in Quotes : 3 * s >= Fraction /\ s <= 3 * Fraction}

LEMMA PartsAre ==
    /\ Fraction \in Nat /\ Fraction >= 1 /\ Grain \in Nat /\ Grain >= 1
    /\ Whole \in Nat /\ Whole = 20000 * Fraction /\ Grain * Whole \in Nat /\ Grain * Whole >= 1
<1>1. Fraction \in Nat /\ Fraction >= 1 /\ Grain \in Nat /\ Grain >= 1 BY PlansAssumption
<1>2. Whole \in Nat /\ Whole = 20000 * Fraction /\ Whole >= 1 BY <1>1 DEF Whole, HalfBps
<1>3. 1 * Whole <= Grain * Whole BY <1>1, <1>2, TimesLeq
<1>4. Grain * Whole \in Nat BY <1>1, <1>2
<1> QED BY <1>1, <1>2, <1>3, <1>4

\* The clamped volume scale, 0.15 to 5, has its inverse square root there.
LEMMA RatesAre == Scales \subseteq Rates
<1> SUFFICES ASSUME NEW s \in Scales PROVE s \in Rates OBVIOUS
<1> DEFINE f == Fraction
           ss == s * s
           ff == f * f
           sf == s * f
<1>1. f \in Nat /\ f >= 1 BY PartsAre
<1>2. s \in Nat /\ 5 * ss >= ff /\ 3 * ss <= 20 * ff BY PlansAssumption
<1> HIDE DEF f
<1>3. ss \in Nat /\ ff \in Nat /\ sf \in Nat BY <1>1, <1>2
<1>4. ff >= 1
  <2>1. 1 * f <= f * f BY <1>1, TimesLeq
  <2> QED BY <1>1, <2>1
<1>5. s >= 1
  <2>1. CASE s = 0
    <3>1. ss = 0 BY <2>1
    <3> QED BY <1>2, <1>3, <1>4, <3>1
  <2> QED BY <1>2, <2>1
<1>6. 3 * s >= f
  <2> SUFFICES ASSUME 3 * s < f PROVE FALSE BY <1>1, <1>2
  <2>1. (3 * s) * s <= f * s /\ (3 * s) * f <= f * f BY <1>1, <1>2, TimesLeq
  <2>2. (3 * s) * s = 3 * ss /\ f * s = sf /\ (3 * s) * f = 3 * sf BY <1>1, <1>2
  <2>3. 3 * ss <= sf /\ 3 * sf <= ff BY <2>1, <2>2
  <2> HIDE DEF ss, ff, sf
  <2> QED BY <1>2, <1>3, <1>4, <2>3
<1>7. s <= 3 * f
  <2> SUFFICES ASSUME s > 3 * f PROVE FALSE BY <1>1, <1>2
  <2>1. (3 * f) * s <= s * s /\ (3 * f) * f <= s * f BY <1>1, <1>2, TimesLeq
  <2>2. (3 * f) * s = 3 * sf /\ (3 * f) * f = 3 * ff BY <1>1, <1>2
  <2>3. 3 * sf <= ss /\ 3 * ff <= sf BY <2>1, <2>2
  <2> HIDE DEF ss, ff, sf
  <2> QED BY <1>2, <1>3, <1>4, <2>3
<1> QED BY <1>2, <1>5, <1>6, <1>7 DEF Rates, Quotes, f

LEMMA ScaleIs ==
    ASSUME NEW s \in Rates
    PROVE  /\ s \in Nat /\ s >= 1 /\ Whole \in Nat
           /\ 60000 * s >= Whole /\ 20000 * s <= 3 * Whole
BY PartsAre DEF Rates, Quotes

LEMMA QuotientIs ==
    ASSUME NEW x \in Int, NEW n \in Nat \ {0}
    PROVE  x \div n \in Int /\ n * (x \div n) <= x /\ x < n * (x \div n) + n
OBVIOUS

LEMMA DivisionIs ==
    ASSUME NEW x \in Int, NEW n \in Nat \ {0}
    PROVE  x = n * (x \div n) + (x % n) /\ x \div n \in Int
<1> DEFINE q == x \div n
           r == x % n
<1>1. q \in Int /\ r \in 0..(n - 1) /\ x = n * q + r OBVIOUS
<1> QED BY <1>1

\* A smaller factor of a positive number.
LEMMA Cancel ==
    ASSUME NEW n \in Nat \ {0}, NEW q \in Int, NEW c \in Int, n * q < n * c
    PROVE  q < c
<1> SUFFICES ASSUME q >= c PROVE FALSE OBVIOUS
<1>1. c * n <= q * n BY TimesLeq
<1>2. c * n = n * c /\ q * n = n * q /\ n * c \in Int /\ n * q \in Int OBVIOUS
<1> QED BY <1>1, <1>2

LEMMA AtIs ==
    ASSUME NEW p \in Int, NEW b \in Int
    PROVE  /\ At(p, b) \in Int /\ p * (Whole + b) \in Int
           /\ 2 * ((Grain * Whole) * At(p, b)) <= 2 * (p * (Whole + b)) + Grain * Whole
           /\ 2 * (p * (Whole + b)) + Grain * Whole < 2 * ((Grain * Whole) * At(p, b)) + 2 * (Grain * Whole)
<1> DEFINE x == p * (Whole + b)
           k == Grain * Whole
           A == At(p, b)
           y == 2 * x + k
           n == 2 * k
<1>1. Whole \in Nat /\ k \in Nat /\ k >= 1 BY PartsAre
<1>2. Whole + b \in Int BY <1>1
<1>3. x \in Int BY <1>2
<1>4. A = y \div n BY DEF At
<1> HIDE DEF x, k, A
<1>5. y \in Int /\ n \in Nat \ {0} BY <1>1, <1>3
<1> HIDE DEF y
<1>6. A \in Int /\ n * A <= y /\ y < n * A + n
  <2> HIDE DEF n
  <2> QED BY <1>4, <1>5, QuotientIs
<1>7. n * A = 2 * (k * A) BY <1>1, <1>6
<1> QED BY <1>3, <1>6, <1>7 DEF y, x, k, A

\* Rounding keeps an order.
LEMMA AtOrder ==
    ASSUME NEW p \in Int, NEW b \in Int, NEW q \in Int, NEW c \in Int,
           q * (Whole + c) <= p * (Whole + b)
    PROVE  At(q, c) <= At(p, b)
<1> DEFINE x == p * (Whole + b)
           y == q * (Whole + c)
           k == Grain * Whole
           P == At(p, b)
           Q == At(q, c)
<1>1. /\ P \in Int /\ x \in Int /\ 2 * (k * P) <= 2 * x + k /\ 2 * x + k < 2 * (k * P) + 2 * k
  BY AtIs
<1>2. /\ Q \in Int /\ y \in Int /\ 2 * (k * Q) <= 2 * y + k /\ 2 * y + k < 2 * (k * Q) + 2 * k
  BY AtIs
<1>3. y <= x /\ k \in Nat /\ k >= 1 BY PartsAre
<1> HIDE DEF x, y, k, P, Q
<1>4. k * Q < k * (P + 1)
  <2>1. k * (P + 1) = k * P + k /\ k * P \in Int /\ k * Q \in Int BY <1>1, <1>2, <1>3
  <2> QED BY <1>1, <1>2, <1>3, <2>1
<1>5. k \in Nat \ {0} /\ P + 1 \in Int BY <1>1, <1>3
<1>6. Q < P + 1 BY <1>2, <1>4, <1>5, Cancel
<1>7. Q <= P BY <1>1, <1>2, <1>6
<1> QED BY <1>7 DEF P, Q

\* A price on a tick is rounded to it.
LEMMA AtTick ==
    ASSUME NEW q \in Quotes, OnTick(q)
    PROVE  At(q, 0) \in Int /\ q = Grain * At(q, 0)
<1> DEFINE j == q \div Grain
           k == Grain * Whole
           A == At(q, 0)
<1>1. Grain \in Nat /\ Grain >= 1 /\ Whole \in Nat /\ k \in Nat /\ k >= 1 /\ q \in Int BY PartsAre DEF Quotes
<1>0. Grain \in Nat \ {0} BY <1>1
<1>2. j \in Int /\ q = Grain * j
  <2>1. q = Grain * (q \div Grain) + (q % Grain) /\ q \div Grain \in Int 
    BY <1>1, <1>0, DivisionIs
  <2> QED BY <1>1, <2>1 DEF OnTick
<1> HIDE DEF j, A
<1>3. q * (Whole + 0) = k * j
  <2>1. (Grain * j) * Whole = (Grain * Whole) * j BY <1>1, <1>2
  <2>2. Whole + 0 = Whole BY <1>1
  <2> QED BY <1>2, <2>1, <2>2
<1>4. A \in Int /\ 2 * (k * A) <= 2 * (k * j) + k /\ 2 * (k * j) + k < 2 * (k * A) + 2 * k
  <2>0. 0 \in Int OBVIOUS
  <2>1. /\ At(q, 0) \in Int
        /\ 2 * ((Grain * Whole) * At(q, 0)) <= 2 * (q * (Whole + 0)) + Grain * Whole
        /\ 2 * (q * (Whole + 0)) + Grain * Whole < 2 * ((Grain * Whole) * At(q, 0)) + 2 * (Grain * Whole)
    BY <1>1, <2>0, AtIs
  <2>2. /\ A \in Int /\ 2 * (k * A) <= 2 * (q * (Whole + 0)) + k
        /\ 2 * (q * (Whole + 0)) + k < 2 * (k * A) + 2 * k
    BY <2>1 DEF A
  <2> HIDE DEF k
  <2> QED BY <1>3, <2>2
<1> HIDE DEF k
<1>5. k * A \in Int /\ k * j \in Int /\ k * (A + 1) = k * A + k /\ k * (j + 1) = k * j + k
  BY <1>1, <1>2, <1>4
<1>6. k * A < k * (j + 1) /\ k * j < k * (A + 1) BY <1>1, <1>4, <1>5
<1>7. k \in Nat \ {0} /\ A + 1 \in Int /\ j + 1 \in Int BY <1>1, <1>2, <1>4
<1>8. A < j + 1 BY <1>2, <1>4, <1>6, <1>7, Cancel
<1>9. j < A + 1 BY <1>2, <1>4, <1>6, <1>7, Cancel
<1>10. A = j BY <1>2, <1>4, <1>8, <1>9
<1> QED BY <1>2, <1>10 DEF A

\* A product stays below another when its factors do, up to n and m.
LEMMA Stretch ==
    ASSUME NEW n \in Nat, NEW m \in Nat, NEW a \in Nat, NEW p \in Nat, NEW l \in Nat,
           NEW v \in Nat, NEW u \in Nat, a <= p, n * p <= m * l, m * v <= n * u
    PROVE  n * (a * v) <= n * (l * u) /\ a * v \in Nat /\ l * u \in Nat
<1>1. a * n <= p * n /\ a * n \in Nat /\ p * n \in Nat BY TimesLeq
<1>2. n * a <= n * p /\ n * a \in Nat /\ n * p \in Nat /\ m * l \in Nat /\ m * v \in Nat /\ n * u \in Nat
  BY <1>1
<1>3. n * a <= m * l BY <1>2
<1>4. (n * a) * v <= (m * l) * v BY <1>2, <1>3, TimesLeq
<1>5. (m * v) * l <= (n * u) * l BY <1>2, TimesLeq
<1>6. (n * a) * v = n * (a * v) OBVIOUS
<1>7. (m * l) * v = (m * v) * l OBVIOUS
<1>8. (n * u) * l = n * (l * u) OBVIOUS
<1>9. a * v \in Nat /\ l * u \in Nat OBVIOUS
<1>10. n * (a * v) \in Nat /\ (m * v) * l \in Nat /\ n * (l * u) \in Nat BY <1>2, <1>9
<1>11. n * (a * v) <= (m * v) * l BY <1>4, <1>6, <1>7
<1>12. (m * v) * l <= n * (l * u) BY <1>5, <1>8
<1>13. n * (a * v) <= n * (l * u) BY <1>10, <1>11, <1>12
<1> QED BY <1>9, <1>13

LEMMA OffIs ==
    ASSUME NEW p \in Int, NEW q \in Int
    PROVE  Off(p, q) = IF p >= q THEN p - q ELSE q - p
<1> DEFINE s == {p - q, q - p}
           m == IF p >= q THEN p - q ELSE q - p
<1>1. m \in s /\ \A x \in s : m >= x OBVIOUS
<1>2. \A x \in s : (\A y \in s : x >= y) => x = m OBVIOUS
<1>3. Max(s) = m BY <1>1, <1>2 DEF Max
<1> QED BY <1>3 DEF Off

LEMMA BeyondIs ==
    ASSUME NEW p \in Int, NEW q \in Int
    PROVE  /\ Beyond(1, p, q) <=> p > q
           /\ Beyond(-1, p, q) <=> p < q
           /\ \A d \in Sides : Beyond(-d, p, q) <=> Beyond(d, q, p)
           /\ Beyond(-(-1), p, q) <=> p > q
BY DEF Beyond, Sides

LEMMA OffTimes ==
    ASSUME NEW p \in Int, NEW q \in Int, NEW w \in Int, Within(p, q, w)
    PROVE  /\ 20000 * p <= 20000 * q + w * q /\ 20000 * q <= 20000 * p + w * q /\ w * q \in Int
<1> DEFINE x == w * q
<1>1. x \in Int /\ Off(p, q) * 20000 <= x BY DEF Within, HalfBps
<1>2. Off(p, q) \in {p - q, q - p} /\ Off(p, q) >= p - q /\ Off(p, q) >= q - p BY OffIs
<1> HIDE DEF x
<1>3. 20000 * p <= 20000 * q + x /\ 20000 * q <= 20000 * p + x BY <1>1, <1>2
<1> QED BY <1>1, <1>3 DEF x

\* A target at one and a half risks is at least the risk away.
LEMMA TargetAhead ==
    ASSUME NEW d \in Sides, NEW e \in Int, NEW s \in Int, Beyond(d, e, s)
    PROVE  /\ TargetAt(d, e, s, 3) \in Int
           /\ d * (TargetAt(d, e, s, 3) - e) >= d * (e - s)
<1> DEFINE T == TargetAt(d, e, s, 3)
<1>1. CASE d = 1
  <2>1. e > s BY <1>1, BeyondIs
  <2>2. Off(e, s) = e - s BY <2>1, OffIs
  <2>3. T = (2 * e + 3 * (e - s) + 1) \div 2 BY <1>1, <2>2 DEF TargetAt
  <2> HIDE DEF T
  <2>4. T \in Int /\ T - e >= e - s BY <2>1, <2>3
  <2> QED BY <1>1, <2>4 DEF T
<1>2. CASE d = -1
  <2>1. e < s BY <1>2, BeyondIs
  <2>2. Off(e, s) = s - e BY <2>1, OffIs
  <2>3. T = (2 * e + (-1) * 3 * (s - e) + 1) \div 2 BY <1>2, <2>2 DEF TargetAt
  <2> HIDE DEF T
  <2>4. T \in Int /\ T - e <= e - s BY <2>1, <2>3
  <2> QED BY <1>2, <2>4 DEF T
<1> QED BY <1>1, <1>2 DEF Sides

\* A product with a positive number.
LEMMA TimesPos ==
    ASSUME NEW p \in Quotes, NEW s \in Quotes
    PROVE  p * s \in Nat /\ p * s >= p
<1>1. 1 * p <= s * p BY TimesLeq DEF Quotes
<1>2. s * p = p * s /\ 1 * p = p /\ p * s \in Int BY DEF Quotes
<1> QED BY <1>1, <1>2 DEF Quotes

-----------------------------------------------------------------------------
(* Plans: what is remembered. *)

Memories ==
    {x \in [kind : {"DensityDetected", "DensityRemoved", "IcebergSuspected", "LevelFormed"},
            dir : Sides, price : Quotes] : x.kind = "LevelFormed" \/ OnTick(x.price)}

PlansTypes ==
    /\ ground \in Quotes /\ scale \in Rates
    /\ memory \in Seq(Memories) /\ pastMids \in Seq(Quotes)

PlansInv == PlansTypes /\ PlansTradable

LEMMA AroundIs ==
    ASSUME ground \in Quotes
    PROVE  Around_ \subseteq Quotes /\ OnTicks \subseteq {p \in Quotes : OnTick(p)}
<1>1. Around_ \subseteq Quotes BY PlansAssumption DEF Around_, Quotes
<1> QED BY <1>1 DEF OnTicks

LEMMA MemoryIs ==
    ASSUME PlansTypes
    PROVE  /\ IsFiniteSet(DOMAIN memory) /\ DOMAIN memory \subseteq Int
           /\ \A i \in DOMAIN memory : memory[i] \in Memories
<1>1. memory \in Seq(Memories) BY DEF PlansTypes
<1>2. DOMAIN memory = 1..Len(memory) /\ Len(memory) \in Nat BY <1>1, LenProperties
<1>3. \A i \in DOMAIN memory : memory[i] \in Memories BY <1>1, <1>2, ElementOfSeq
<1>4. IsFiniteSet(DOMAIN memory) BY <1>2, UpToIsFinite
<1> QED BY <1>2, <1>3, <1>4

\* The newest of some signals is one of them.
LEMMA NewestIs ==
    ASSUME PlansTypes, NEW is, is \subseteq DOMAIN memory, is # {}
    PROVE  \E i \in is : Newest(is) = memory[i] /\ memory[i] \in Memories
<1>1. IsFiniteSet(is) /\ is \subseteq Int BY MemoryIs, FS_Subset
<1>2. Max(is) \in is BY <1>1, MaxIn
<1> QED BY <1>2, MemoryIs DEF Newest

\* What a function takes a finite set to is finite.
LEMMA ImageFinite ==
    ASSUME NEW S, IsFiniteSet(S), NEW T, NEW f \in [S -> T], \A t \in T : \E s \in S : f[s] = t
    PROVE  IsFiniteSet(T)
<1>1. f \in Surjection(S, T) BY DEF Surjection
<1> QED BY <1>1, FS_Surjection

\* A finite set of prices has an outermost one in either direction.
LEMMA Outermost ==
    ASSUME NEW s, IsFiniteSet(s), s \subseteq Nat, s # {}, NEW d \in Sides
    PROVE  \E p \in s : \A q \in s : ~Beyond(d, q, p)
<1>1. CASE d = 1
  <2>0. s \subseteq Int OBVIOUS
  <2>1. Max(s) \in s /\ \A q \in s : Max(s) >= q BY <2>0, MaxIn
  <2>2. \A q \in s : ~Beyond(1, q, Max(s))
    <3> SUFFICES ASSUME NEW q \in s PROVE ~Beyond(1, q, Max(s)) OBVIOUS
    <3>1. Max(s) \in Int /\ q \in Int /\ Max(s) >= q BY <2>0, <2>1
    <3> QED BY <3>1, BeyondIs
  <2> QED BY <1>1, <2>1, <2>2
<1>2. CASE d = -1
  <2>1. PICK p \in s : \A q \in s : p <= q BY NatMin
  <2>2. \A q \in s : ~Beyond(-1, q, p)
    <3> SUFFICES ASSUME NEW q \in s PROVE ~Beyond(-1, q, p) OBVIOUS
    <3>1. p \in Int /\ q \in Int /\ p <= q BY <2>1
    <3> QED BY <3>1, BeyondIs
  <2> QED BY <1>2, <2>1, <2>2
<1> QED BY <1>1, <1>2 DEF Sides

-----------------------------------------------------------------------------
(* Plans: BounceFromDensity. *)

\* How far entry and stop lie apart before rounding: the level is within three
\* half bps of the density, the anchor at it or behind.
LEMMA BounceSides ==
    ASSUME NEW d \in Sides, NEW level \in Quotes, NEW p \in Quotes, NEW a \in Quotes, NEW s \in Rates,
           Within(p, level, 3), ~Beyond(-d, p, a),
           At(level, d * 6 * s) # At(a, -d * 10 * s)
    PROVE  /\ At(level, d * 6 * s) \in Int /\ At(a, -d * 10 * s) \in Int
           /\ Beyond(d, At(level, d * 6 * s), At(a, -d * 10 * s))
<1> DEFINE E == At(level, d * 6 * s)
           S == At(a, -d * 10 * s)
           W == Whole
<1>1. level \in Nat /\ p \in Nat /\ a \in Nat /\ d \in Int BY DEF Quotes, Sides
<1>2. s \in Nat /\ s >= 1 /\ W \in Nat /\ 60000 * s >= W /\ 20000 * s <= 3 * W BY ScaleIs
<1>3. d * 6 * s \in Int /\ -d * 10 * s \in Int BY <1>1, <1>2
<1>4. E \in Int /\ S \in Int BY <1>1, <1>3, AtIs
<1>5. 20000 * p <= 20003 * level /\ 19997 * level <= 20000 * p
  <2>1. 20000 * p <= 20000 * level + 3 * level /\ 20000 * level <= 20000 * p + 3 * level
    BY <1>1, OffTimes
  <2> QED BY <1>1, <2>1
<1>6. CASE d = 1
  <2> DEFINE v == W - 10 * s
             u == W + 6 * s
  <2>1. p >= a BY <1>1, <1>6, BeyondIs
  <2>2. v \in Nat /\ u \in Nat /\ 20003 * v <= 20000 * u BY <1>2
  <2>3. v = Whole + (-d * 10 * s) /\ u = Whole + d * 6 * s BY <1>2, <1>6
  <2> HIDE DEF v, u
  <2>4. 20000 * (a * v) <= 20000 * (level * u) /\ a * v \in Nat /\ level * u \in Nat
    BY <1>1, <1>5, <2>1, <2>2, Stretch
  <2>5. a * v <= level * u BY <2>4
  <2>6. a * (Whole + (-d * 10 * s)) <= level * (Whole + d * 6 * s) BY <2>3, <2>5
  <2>7. S <= E BY <1>1, <1>3, <2>6, AtOrder
  <2>8. E # S OBVIOUS
  <2> HIDE DEF E, S
  <2>9. Beyond(d, E, S) BY <1>4, <1>6, <2>7, <2>8, BeyondIs
  <2> QED BY <1>4, <2>9 DEF E, S
<1>7. CASE d = -1
  <2> DEFINE v == W - 6 * s
             u == W + 10 * s
  <2>1. p <= a BY <1>1, <1>7, BeyondIs
  <2>2. v \in Nat /\ u \in Nat /\ 20000 * v <= 19997 * u BY <1>2
  <2>3. v = Whole + d * 6 * s /\ u = Whole + (-d * 10 * s) BY <1>2, <1>7
  <2> HIDE DEF v, u
  <2>4. 19997 * level <= 20000 * a /\ level <= level BY <1>1, <1>5, <2>1
  <2>5. 19997 * (level * v) <= 19997 * (a * u) /\ level * v \in Nat /\ a * u \in Nat
    BY <1>1, <2>2, <2>4, Stretch
  <2>6. level * v <= a * u BY <2>5
  <2>7. level * (Whole + d * 6 * s) <= a * (Whole + (-d * 10 * s)) BY <2>3, <2>6
  <2>8. E <= S BY <1>1, <1>3, <2>7, AtOrder
  <2>9. E # S OBVIOUS
  <2> HIDE DEF E, S
  <2>10. Beyond(d, E, S) BY <1>4, <1>7, <2>8, <2>9, BeyondIs
  <2> QED BY <1>4, <2>10 DEF E, S
<1> QED BY <1>6, <1>7 DEF Sides

\* The stop behind an anchor lies behind the price q of a tick: the anchor does,
\* or q is within a half bp of the density p, and the anchor is at p or behind it.
LEMMA StopBehind ==
    ASSUME NEW d \in Sides, NEW a \in Quotes, NEW p \in Quotes, NEW q \in Quotes, NEW s \in Rates,
           OnTick(q), ~Beyond(-d, p, a),
           ~Beyond(-d, q, a) \/ ~(Off(q, p) * HalfBps >= p)
    PROVE  ~Beyond(-d, q, Grain * At(a, -d * 10 * s))
<1> DEFINE S == At(a, -d * 10 * s)
           J == At(q, 0)
           W == Whole
<1>1. q \in Nat /\ p \in Nat /\ a \in Nat /\ d \in Int /\ Grain \in Nat BY PartsAre DEF Quotes, Sides
<1>2. s \in Nat /\ s >= 1 /\ W \in Nat /\ 60000 * s >= W /\ 20000 * s <= 3 * W BY ScaleIs
<1>3. -d * 10 * s \in Int /\ 0 \in Int BY <1>1, <1>2
<1>4. S \in Int BY <1>1, <1>3, AtIs
<1>5. J \in Int /\ q = Grain * J BY AtTick
<1>6. ~(Off(q, p) * HalfBps >= p) => 19999 * p <= 20000 * q /\ 20000 * q <= 20001 * p
  <2>1. Off(q, p) = IF q >= p THEN q - p ELSE p - q BY <1>1, OffIs
  <2>2. Off(q, p) \in Int /\ Off(q, p) >= p - q /\ Off(q, p) >= q - p BY <1>1, <2>1
  <2> QED BY <1>1, <2>2 DEF HalfBps
<1>7. CASE d = 1
  <2> DEFINE v == W - 10 * s
  <2>1. p >= a BY <1>1, <1>7, BeyondIs
  <2>2. q >= a \/ 19999 * p <= 20000 * q BY <1>1, <1>6, <1>7, BeyondIs
  <2>3. v \in Nat /\ v <= W /\ 20000 * v <= 19999 * W BY <1>2
  <2>4. v = Whole + (-d * 10 * s) BY <1>2, <1>7
  <2> HIDE DEF v
  <2>5. a * v <= q * W
    <3>1. CASE q >= a
      <4>1. a <= a /\ 1 * a <= 1 * q /\ 1 * v <= 1 * W BY <1>1, <1>2, <2>3, <3>1
      <4>2. 1 * (a * v) <= 1 * (q * W) /\ a * v \in Nat /\ q * W \in Nat
        BY <1>1, <1>2, <2>3, <4>1, Stretch
      <4> QED BY <4>2
    <3>2. CASE 19999 * p <= 20000 * q
      <4>1. 19999 * (a * v) <= 19999 * (q * W) /\ a * v \in Nat /\ q * W \in Nat
        BY <1>1, <1>2, <2>1, <2>3, <3>2, Stretch
      <4> QED BY <4>1
    <3> QED BY <2>2, <3>1, <3>2
  <2>6. a * (Whole + (-d * 10 * s)) <= q * (Whole + 0)
    <3>1. Whole + 0 = W BY <1>2
    <3> QED BY <2>4, <2>5, <3>1
  <2>7. S <= J BY <1>1, <1>3, <2>6, AtOrder
  <2> HIDE DEF S, J
  <2>8. S * Grain <= J * Grain BY <1>1, <1>4, <1>5, <2>7, TimesLeq
  <2>9. Grain * S <= q /\ Grain * S \in Int BY <1>1, <1>4, <1>5, <2>8
  <2>10. ~Beyond(-1, q, Grain * S) BY <1>1, <2>9, BeyondIs
  <2> QED BY <1>7, <2>10 DEF S
<1>8. CASE d = -1
  <2> DEFINE u == W + 10 * s
  <2>1. p <= a BY <1>1, <1>8, BeyondIs
  <2>2. q <= a \/ 20000 * q <= 20001 * a
    <3>1. q <= a \/ 20000 * q <= 20001 * p BY <1>1, <1>6, <1>8, BeyondIs
    <3> QED BY <1>1, <2>1, <3>1
  <2>3. u \in Nat /\ W <= u /\ 20001 * W <= 20000 * u BY <1>2
  <2>4. u = Whole + (-d * 10 * s) BY <1>2, <1>8
  <2> HIDE DEF u
  <2>5. q * W <= a * u
    <3>1. 20000 * q <= 20001 * a /\ q <= q BY <1>1, <2>2
    <3>2. 20000 * (q * W) <= 20000 * (a * u) /\ q * W \in Nat /\ a * u \in Nat
      BY <1>1, <1>2, <2>3, <3>1, Stretch
    <3> QED BY <3>2
  <2>6. q * (Whole + 0) <= a * (Whole + (-d * 10 * s))
    <3>1. Whole + 0 = W BY <1>2
    <3> QED BY <2>4, <2>5, <3>1
  <2>7. J <= S BY <1>1, <1>3, <2>6, AtOrder
  <2> HIDE DEF S, J
  <2>8. J * Grain <= S * Grain BY <1>1, <1>4, <1>5, <2>7, TimesLeq
  <2>9. q <= Grain * S /\ Grain * S \in Int BY <1>1, <1>4, <1>5, <2>8
  <2>10. ~Beyond(-(-1), q, Grain * S) BY <1>1, <2>9, BeyondIs
  <2> QED BY <1>8, <2>10 DEF S
<1> QED BY <1>7, <1>8 DEF Sides

\* The stop of a bounce goes behind the outermost density of the pile.
LEMMA AnchorIs ==
    ASSUME PlansTypes, NEW density \in Memories
    PROVE  /\ StopAnchor(density) \in Quotes
           /\ \A q \in Piled(density) \union {density.price} :
                 ~Beyond(-density.dir, q, StopAnchor(density))
<1> DEFINE J == {j \in Heard({"DensityDetected"}) :
                    /\ memory[j].dir = density.dir
                    /\ Within(memory[j].price, density.price, 30)
                    /\ Off(memory[j].price, density.price) * HalfBps >= density.price}
           T == Piled(density)
           f == [j \in J |-> memory[j].price]
<1>1. J \subseteq DOMAIN memory BY DEF Heard
<1>2. T = {memory[j].price : j \in J} BY DEF Piled
<1>3. IsFiniteSet(J) /\ \A j \in J : memory[j] \in Memories BY <1>1, MemoryIs, FS_Subset
<1> HIDE DEF J, T
<1>4. T \subseteq Quotes BY <1>2, <1>3 DEF Memories
<1>5. f \in [J -> T] /\ \A t \in T : \E j \in J : f[j] = t BY <1>2
<1>6. IsFiniteSet(T)
  <2> HIDE DEF f
  <2> QED BY <1>3, <1>5, ImageFinite
<1> DEFINE U == T \union {density.price}
<1>7. density.price \in Quotes /\ density.dir \in Sides /\ -density.dir \in Sides
  BY DEF Memories, Sides
<1>8. U \subseteq Quotes /\ U # {} /\ IsFiniteSet(U) BY <1>4, <1>6, <1>7, FS_AddElement
<1>9. U \subseteq Nat BY <1>8 DEF Quotes
<1>10. StopAnchor(density) = CHOOSE p \in U : \A q \in U : ~Beyond(-density.dir, q, p)
  BY DEF StopAnchor, T
<1> HIDE DEF U
<1>11. \E p \in U : \A q \in U : ~Beyond(-density.dir, q, p) BY <1>7, <1>8, <1>9, Outermost
<1>12. StopAnchor(density) \in U /\ \A q \in U : ~Beyond(-density.dir, q, StopAnchor(density))
  BY <1>10, <1>11
<1> QED BY <1>8, <1>12 DEF U, T

LEMMA InOrder ==
    ASSUME NEW d \in Sides, NEW e \in Int, NEW s \in Int, NEW g \in Int,
           plan'.dir = d, plan'.entry = e, plan'.stop = s, plan'.target = g,
           plan'.by # "LeaderLag", plan'.by # "Flush",
           Beyond(d, e, s), d * (g - e) >= d * (e - s)
    PROVE  Ordered'
<1>1. d * (e - s) > 0
  <2>1. CASE d = 1 BY <2>1, BeyondIs
  <2>2. CASE d = -1 BY <2>2, BeyondIs
  <2> QED BY <2>1, <2>2 DEF Sides
<1> QED BY <1>1 DEF Ordered

LEMMA BounceStep ==
    ASSUME PlansTypes, NEW level \in Quotes, Bounce(level),
           UNCHANGED <<ground, scale, memory, pastMids>>
    PROVE  PlansTradable'
<1> DEFINE at == {i \in Heard({"DensityDetected"}) : Within(memory[i].price, level, 3)}
           density == Newest(at)
           d == density.dir
           A == StopAnchor(density)
           E == At(level, d * 6 * scale)
           S == At(A, -d * 10 * scale)
           G == TargetAt(d, E, S, 3)
<1>1. at # {} /\ at \subseteq DOMAIN memory BY DEF Bounce, Heard
<1>2. E # S /\ plan' = [by |-> "Bounce", dir |-> d, held |-> density.price,
                        entry |-> E, stop |-> S, target |-> G]
  BY DEF Bounce, Propose
<1>3. density \in Memories /\ Within(density.price, level, 3)
  <2>1. \A i \in at : Within(memory[i].price, level, 3) OBVIOUS
  <2> HIDE DEF at
  <2> QED BY <1>1, <2>1, NewestIs
<1> HIDE DEF at, density
<1>4. d \in Sides /\ density.price \in Quotes BY <1>3 DEF Memories
<1>5. A \in Quotes /\ \A q \in Piled(density) \union {density.price} : ~Beyond(-d, q, A)
  BY <1>3, AnchorIs
<1> HIDE DEF A
<1>6. scale \in Rates BY DEF PlansTypes
<1>7. ~Beyond(-d, density.price, A) BY <1>5
<1> HIDE DEF d
<1>8. E \in Int /\ S \in Int /\ Beyond(d, E, S) BY <1>2, <1>3, <1>4, <1>5, <1>6, <1>7, BounceSides
<1>9. G \in Int /\ d * (G - E) >= d * (E - S)
  <2> HIDE DEF E, S
  <2> QED BY <1>4, <1>8, TargetAhead
<1>10. Ordered'
  <2> HIDE DEF E, S, G
  <2>1. plan'.by = "Bounce" /\ plan'.dir = d /\ plan'.entry = E /\ plan'.stop = S /\ plan'.target = G
    BY <1>2
  <2>2. plan'.by # "LeaderLag" /\ plan'.by # "Flush" BY <2>1
  <2> QED BY <1>4, <1>8, <1>9, <2>1, <2>2, InOrder
<1>11. PileCovered'
  <2> SUFFICES ASSUME NEW i \in Heard({"DensityDetected"}), memory[i].dir = d,
                      Within(memory[i].price, density.price, 30)
               PROVE  ~Beyond(-d, memory[i].price, Grain * S)
    <3>1. memory' = memory /\ Heard({"DensityDetected"})' = Heard({"DensityDetected"}) BY DEF Heard
    <3>2. plan'.dir = d /\ plan'.held = density.price /\ plan'.stop = S BY <1>2
    <3> HIDE DEF S
    <3> QED BY <3>1, <3>2 DEF PileCovered
  <2> DEFINE q == memory[i].price
  <2>1. memory[i] \in Memories /\ memory[i].kind = "DensityDetected" BY MemoryIs DEF Heard
  <2>2. q \in Quotes /\ OnTick(q) BY <2>1 DEF Memories
  <2>3. ~(Off(q, density.price) * HalfBps >= density.price) \/ q \in Piled(density) BY DEF Piled, d
  <2>4. ~Beyond(-d, q, A) \/ ~(Off(q, density.price) * HalfBps >= density.price) BY <1>5, <2>3
  <2> HIDE DEF q
  <2>5. ~Beyond(-d, q, Grain * At(A, -d * 10 * scale))
    BY <1>4, <1>5, <1>6, <1>7, <2>2, <2>4, StopBehind
  <2> QED BY <2>5 DEF q
<1> QED BY <1>10, <1>11 DEF PlansTradable

-----------------------------------------------------------------------------
(* Plans: the other strategies, and every step. *)

\* A stop behind its support and an entry beyond the density eaten.
LEMMA BreakoutSides ==
    ASSUME NEW d \in Sides, NEW p \in Quotes, NEW b \in Quotes, NEW s \in Rates,
           Beyond(-d, b, p), At(p, d * 4 * s) # At(b, -d * 10 * s)
    PROVE  /\ At(p, d * 4 * s) \in Int /\ At(b, -d * 10 * s) \in Int
           /\ Beyond(d, At(p, d * 4 * s), At(b, -d * 10 * s))
<1> DEFINE E == At(p, d * 4 * s)
           S == At(b, -d * 10 * s)
           W == Whole
<1>1. p \in Nat /\ b \in Nat /\ d \in Int BY DEF Quotes, Sides
<1>2. s \in Nat /\ s >= 1 /\ W \in Nat /\ 20000 * s <= 3 * W BY ScaleIs
<1>3. d * 4 * s \in Int /\ -d * 10 * s \in Int BY <1>1, <1>2
<1>4. E \in Int /\ S \in Int BY <1>1, <1>3, AtIs
<1>5. CASE d = 1
  <2> DEFINE v == W - 10 * s
             u == W + 4 * s
  <2>1. b <= b /\ 1 * b <= 1 * p BY <1>1, <1>5, BeyondIs
  <2>2. v \in Nat /\ u \in Nat /\ 1 * v <= 1 * u BY <1>2
  <2>3. v = Whole + (-d * 10 * s) /\ u = Whole + d * 4 * s BY <1>2, <1>5
  <2> HIDE DEF v, u
  <2>4. 1 * (b * v) <= 1 * (p * u) /\ b * v \in Nat /\ p * u \in Nat BY <1>1, <2>1, <2>2, Stretch
  <2>5. b * v <= p * u BY <2>4
  <2>6. b * (Whole + (-d * 10 * s)) <= p * (Whole + d * 4 * s) BY <2>3, <2>5
  <2>7. S <= E BY <1>1, <1>3, <2>6, AtOrder
  <2>8. E # S OBVIOUS
  <2> HIDE DEF E, S
  <2>9. Beyond(d, E, S) BY <1>4, <1>5, <2>7, <2>8, BeyondIs
  <2> QED BY <1>4, <2>9 DEF E, S
<1>6. CASE d = -1
  <2> DEFINE v == W - 4 * s
             u == W + 10 * s
  <2>1. p <= p /\ 1 * p <= 1 * b BY <1>1, <1>6, BeyondIs
  <2>2. v \in Nat /\ u \in Nat /\ 1 * v <= 1 * u BY <1>2
  <2>3. v = Whole + d * 4 * s /\ u = Whole + (-d * 10 * s) BY <1>2, <1>6
  <2> HIDE DEF v, u
  <2>4. 1 * (p * v) <= 1 * (b * u) /\ p * v \in Nat /\ b * u \in Nat BY <1>1, <2>1, <2>2, Stretch
  <2>5. p * v <= b * u BY <2>4
  <2>6. p * (Whole + d * 4 * s) <= b * (Whole + (-d * 10 * s)) BY <2>3, <2>5
  <2>7. E <= S BY <1>1, <1>3, <2>6, AtOrder
  <2>8. E # S OBVIOUS
  <2> HIDE DEF E, S
  <2>9. Beyond(d, E, S) BY <1>4, <1>6, <2>7, <2>8, BeyondIs
  <2> QED BY <1>4, <2>9 DEF E, S
<1> QED BY <1>5, <1>6 DEF Sides

LEMMA BreakoutStep ==
    ASSUME PlansTypes, NEW d \in Sides, NEW p \in Quotes, NEW best, Breakout(d, p, best)
    PROVE  PlansTradable'
<1> DEFINE support == Newest(Supports(d, p)).price
           E == At(p, d * 4 * scale)
           S == At(support, -d * 10 * scale)
           G == TargetAt(d, E, S, 3)
<1>1. Supports(d, p) # {} /\ Supports(d, p) \subseteq DOMAIN memory BY DEF Breakout, Supports, Heard
<1>2. E # S /\ plan' = [by |-> "Breakout", dir |-> d, held |-> 0, entry |-> E, stop |-> S, target |-> G]
  BY DEF Breakout, Propose
<1>3. support \in Quotes /\ Beyond(-d, support, p)
  <2>1. PICK i \in Supports(d, p) : Newest(Supports(d, p)) = memory[i] /\ memory[i] \in Memories
    BY <1>1, NewestIs
  <2>2. Beyond(-d, memory[i].price, p) BY <2>1 DEF Supports
  <2> QED BY <2>1, <2>2 DEF Memories
<1> HIDE DEF support
<1>4. scale \in Rates BY DEF PlansTypes
<1>5. E \in Int /\ S \in Int /\ Beyond(d, E, S) BY <1>2, <1>3, <1>4, BreakoutSides
<1>6. G \in Int /\ d * (G - E) >= d * (E - S)
  <2> HIDE DEF E, S
  <2> QED BY <1>5, TargetAhead
<1> HIDE DEF E, S, G
<1>7. Ordered'
  <2>1. plan'.by = "Breakout" /\ plan'.dir = d /\ plan'.entry = E /\ plan'.stop = S /\ plan'.target = G
    BY <1>2
  <2>2. plan'.by # "LeaderLag" /\ plan'.by # "Flush" BY <2>1
  <2> QED BY <1>5, <1>6, <2>1, <2>2, InOrder
<1>8. plan'.by # "Bounce" BY <1>2
<1> QED BY <1>7, <1>8 DEF PlansTradable

LEMMA LagStep ==
    ASSUME PlansTypes, NEW d \in Sides, NEW c \in Nat, Lag(d, c)
    PROVE  PlansTradable'
<1> DEFINE mid == pastMids[Len(pastMids)]
           E == At(mid, 0)
           S == LagStop(d, mid)
           G == At(mid, d * c)
<1>1. pastMids # <<>> /\ plan' = [by |-> "LeaderLag", dir |-> d, held |-> 0,
                                  entry |-> E, stop |-> S, target |-> G]
  BY DEF Lag, Propose
<1>2. pastMids \in Seq(Quotes) /\ scale \in Rates BY DEF PlansTypes
<1>3. Len(pastMids) \in Nat /\ DOMAIN pastMids = 1..Len(pastMids) BY <1>2, LenProperties
<1>4. \A i \in DOMAIN pastMids : pastMids[i] \in Quotes BY <1>2, <1>3, ElementOfSeq
<1>5. Len(pastMids) # 0 BY <1>1, <1>2, EmptySeq
<1>6. Len(pastMids) \in DOMAIN pastMids BY <1>3, <1>5
<1>7. mid \in Quotes BY <1>4, <1>6
<1> HIDE DEF mid
<1>8. mid \in Int /\ d \in Int /\ scale \in Nat /\ c \in Int BY <1>2, <1>7 DEF Quotes, Sides, Rates
<1>9. E \in Int /\ G \in Int /\ ~Beyond(d, E, G)
  <2>1. d * c \in Int /\ 0 \in Int BY <1>8
  <2>2. E \in Int BY <1>8, <2>1, AtIs
  <2>3. G \in Int BY <1>8, <2>1, AtIs
  <2>4. mid \in Nat /\ Whole \in Nat BY <1>7, PartsAre DEF Quotes
  <2>5. CASE d = 1
    <3>1. Whole + 0 <= Whole + d * c BY <2>4, <2>5
    <3>2. (Whole + 0) * mid <= (Whole + d * c) * mid BY <2>1, <2>4, <3>1, TimesLeq
    <3>3. mid * (Whole + 0) <= mid * (Whole + d * c) BY <2>1, <2>4, <3>2
    <3>4. E <= G BY <1>8, <2>1, <3>3, AtOrder
    <3> HIDE DEF E, G
    <3> QED BY <2>2, <2>3, <2>5, <3>4, BeyondIs
  <2>6. CASE d = -1
    <3>1. Whole + d * c <= Whole + 0 BY <2>4, <2>6
    <3>2. (Whole + d * c) * mid <= (Whole + 0) * mid BY <2>1, <2>4, <3>1, TimesLeq
    <3>3. mid * (Whole + d * c) <= mid * (Whole + 0) BY <2>1, <2>4, <3>2
    <3>4. G <= E BY <1>8, <2>1, <3>3, AtOrder
    <3> HIDE DEF E, G
    <3> QED BY <2>2, <2>3, <2>6, <3>4, BeyondIs
  <2> QED BY <2>2, <2>3, <2>5, <2>6 DEF Sides
<1>10. \A m \in Swing(d) : m \in Quotes
  <2> DEFINE R == Range(pastMids)
  <2>1. R = {pastMids[i] : i \in DOMAIN pastMids} BY DEF Range
  <2>2. R \subseteq Quotes /\ R # {} BY <1>4, <1>6, <2>1
  <2>3. IsFiniteSet(R)
    <3> DEFINE f == [i \in DOMAIN pastMids |-> pastMids[i]]
    <3>1. f \in [DOMAIN pastMids -> R] /\ \A t \in R : \E i \in DOMAIN pastMids : f[i] = t BY <2>1
    <3>2. IsFiniteSet(DOMAIN pastMids) BY <1>3, UpToIsFinite
    <3> HIDE DEF f, R
    <3> QED BY <3>1, <3>2, ImageFinite
  <2>4. Swing(d) \subseteq {CHOOSE m \in R : \A n \in R : ~Beyond(-d, n, m)} BY DEF Swing
  <2> HIDE DEF R
  <2>5. -d \in Sides /\ R \subseteq Nat BY <2>2 DEF Sides, Quotes
  <2>6. \E m \in R : \A n \in R : ~Beyond(-d, n, m) BY <2>2, <2>3, <2>5, Outermost
  <2>7. (CHOOSE m \in R : \A n \in R : ~Beyond(-d, n, m)) \in R BY <2>6
  <2> QED BY <2>2, <2>4, <2>7
<1>11. S \in Int /\ ~Beyond(d, S, E)
  <2> DEFINE inside == \E m \in Swing(d) : /\ Beyond(-d, m, mid)
                                           /\ Beyond(d, m * Whole, mid * (Whole - d * 24 * scale))
             w == CHOOSE m \in Swing(d) : TRUE
  <2>1. S = IF inside THEN At(w, 0) ELSE At(mid, -d * 16 * scale) BY DEF LagStop
  <2>2. CASE inside
    <3>1. PICK m \in Swing(d) : Beyond(-d, m, mid) BY <2>2
    <3>2. w = m BY <3>1 DEF Swing
    <3>4. S = At(w, 0) BY <2>1, <2>2
    <3> HIDE DEF w, S, inside
    <3>9. m \in Quotes BY <1>10, <3>1
    <3>3. w \in Int /\ Beyond(-d, w, mid) BY <3>1, <3>2, <3>9 DEF Quotes
    <3>5. Whole \in Nat /\ 0 \in Int /\ Whole + 0 \in Nat BY PartsAre
    <3>6. S \in Int BY <3>3, <3>4, <3>5, AtIs
    <3>7. CASE d = 1
      <4>1. w <= mid BY <1>8, <3>3, <3>7, BeyondIs
      <4>2. w * (Whole + 0) <= mid * (Whole + 0) BY <1>8, <3>3, <3>5, <4>1, TimesLeq
      <4>3. At(w, 0) <= At(mid, 0) BY <1>8, <3>3, <3>5, <4>2, AtOrder
      <4>4. S <= E BY <3>4, <4>3
      <4> HIDE DEF E
      <4> QED BY <1>9, <3>6, <3>7, <4>4, BeyondIs
    <3>8. CASE d = -1
      <4>1. mid <= w BY <1>8, <3>3, <3>8, BeyondIs
      <4>2. mid * (Whole + 0) <= w * (Whole + 0) BY <1>8, <3>3, <3>5, <4>1, TimesLeq
      <4>3. At(mid, 0) <= At(w, 0) BY <1>8, <3>3, <3>5, <4>2, AtOrder
      <4>4. E <= S BY <3>4, <4>3
      <4> HIDE DEF E
      <4> QED BY <1>9, <3>6, <3>8, <4>4, BeyondIs
    <3> QED BY <3>6, <3>7, <3>8 DEF Sides
  <2>3. CASE ~inside
    <3>1. S = At(mid, -d * 16 * scale) BY <2>1, <2>3
    <3> HIDE DEF S
    <3>2. -d * 16 * scale \in Int /\ 0 \in Int BY <1>8
    <3>3. S \in Int BY <1>8, <3>1, <3>2, AtIs
    <3>4. mid \in Nat /\ Whole \in Nat BY <1>7, PartsAre DEF Quotes
    <3>5. CASE d = 1
      <4>1. Whole + (-d * 16 * scale) <= Whole + 0 BY <1>8, <3>4, <3>5
      <4>2. (Whole + (-d * 16 * scale)) * mid <= (Whole + 0) * mid BY <3>2, <3>4, <4>1, TimesLeq
      <4>3. mid * (Whole + (-d * 16 * scale)) <= mid * (Whole + 0) BY <3>2, <3>4, <4>2
      <4>4. At(mid, -d * 16 * scale) <= At(mid, 0) BY <1>8, <3>2, <4>3, AtOrder
      <4>5. S <= E BY <3>1, <4>4
      <4> HIDE DEF E
      <4> QED BY <1>9, <3>3, <3>5, <4>5, BeyondIs
    <3>6. CASE d = -1
      <4>1. Whole + 0 <= Whole + (-d * 16 * scale) BY <1>8, <3>4, <3>6
      <4>2. (Whole + 0) * mid <= (Whole + (-d * 16 * scale)) * mid BY <3>2, <3>4, <4>1, TimesLeq
      <4>3. mid * (Whole + 0) <= mid * (Whole + (-d * 16 * scale)) BY <3>2, <3>4, <4>2
      <4>4. At(mid, 0) <= At(mid, -d * 16 * scale) BY <1>8, <3>2, <4>3, AtOrder
      <4>5. E <= S BY <3>1, <4>4
      <4> HIDE DEF E
      <4> QED BY <1>9, <3>3, <3>6, <4>5, BeyondIs
    <3> QED BY <3>3, <3>5, <3>6 DEF Sides
  <2> QED BY <2>2, <2>3
<1> HIDE DEF E, S, G
<1>12. Ordered'
  <2>1. plan'.by = "LeaderLag" /\ plan'.dir = d /\ plan'.entry = E /\ plan'.stop = S /\ plan'.target = G
    BY <1>1
  <2>2. d * (E - S) >= 0 /\ d * (G - E) >= 0
    <3>1. CASE d = 1 BY <1>9, <1>11, <3>1, BeyondIs
    <3>2. CASE d = -1 BY <1>9, <1>11, <3>2, BeyondIs
    <3> QED BY <3>1, <3>2 DEF Sides
  <2> QED BY <2>1, <2>2 DEF Ordered
<1>13. plan'.by # "Bounce" BY <1>1
<1> QED BY <1>12, <1>13 DEF PlansTradable

LEMMA FlushStep ==
    ASSUME PlansTypes, NEW d \in Sides, NEW p \in Quotes, Flush(d, p)
    PROVE  PlansTradable'
<1> DEFINE b == -d * 4 * scale
           c == -d * 16 * scale
           g == d * 20 * scale
           E == At(p, b)
           S == At(p, c)
           G == At(p, g)
           k == Grain * Whole
           pw == p * Whole
           ps == p * scale
<1>1. E # S /\ plan' = [by |-> "Flush", dir |-> d, held |-> 0, entry |-> E, stop |-> S, target |-> G]
  BY DEF Flush, Propose
<1>2. p \in Nat /\ p >= 1 /\ d \in Int /\ scale \in Rates BY DEF PlansTypes, Sides, Quotes
<1>3. scale \in Nat /\ scale >= 1 /\ Whole \in Nat BY <1>2, ScaleIs
<1>4. b \in Int /\ c \in Int /\ g \in Int BY <1>2, <1>3
<1>5. k \in Nat /\ k >= 1 BY PartsAre
<1>6. pw \in Nat /\ ps \in Nat /\ ps >= 1
  <2>1. p \in Quotes /\ scale \in Quotes BY <1>2 DEF Rates
  <2> QED BY <1>2, <1>3, <2>1, TimesPos
<1>7. /\ d = 1 => /\ p * (Whole + b) = pw - 4 * ps /\ p * (Whole + c) = pw - 16 * ps
                 /\ p * (Whole + g) = pw + 20 * ps
      /\ d = -1 => /\ p * (Whole + b) = pw + 4 * ps /\ p * (Whole + c) = pw + 16 * ps
                  /\ p * (Whole + g) = pw - 20 * ps
  <2>1. CASE d = 1
    <3>1. b = -(4 * scale) /\ c = -(16 * scale) /\ g = 20 * scale BY <1>3, <2>1
    <3> HIDE DEF b, c, g
    <3>2. p * (Whole + b) = pw - 4 * ps BY <1>2, <1>3, <3>1
    <3>3. p * (Whole + c) = pw - 16 * ps BY <1>2, <1>3, <3>1
    <3>4. p * (Whole + g) = pw + 20 * ps BY <1>2, <1>3, <3>1
    <3> QED BY <2>1, <3>2, <3>3, <3>4
  <2>2. CASE d = -1
    <3>1. b = 4 * scale /\ c = 16 * scale /\ g = -(20 * scale) BY <1>3, <2>2
    <3> HIDE DEF b, c, g
    <3>2. p * (Whole + b) = pw + 4 * ps BY <1>2, <1>3, <3>1
    <3>3. p * (Whole + c) = pw + 16 * ps BY <1>2, <1>3, <3>1
    <3>4. p * (Whole + g) = pw - 20 * ps BY <1>2, <1>3, <3>1
    <3> QED BY <2>2, <3>2, <3>3, <3>4
  <2> QED BY <2>1, <2>2 DEF Sides
<1> HIDE DEF b, c, g, pw, ps
<1>8. /\ E \in Int /\ 2 * (k * E) <= 2 * (p * (Whole + b)) + k
      /\ 2 * (p * (Whole + b)) + k < 2 * (k * E) + 2 * k
  <2>1. /\ At(p, b) \in Int
        /\ 2 * ((Grain * Whole) * At(p, b)) <= 2 * (p * (Whole + b)) + Grain * Whole
        /\ 2 * (p * (Whole + b)) + Grain * Whole
              < 2 * ((Grain * Whole) * At(p, b)) + 2 * (Grain * Whole)
    <3>1. p \in Int BY <1>2
    <3> QED BY <1>4, <3>1, AtIs
  <2> QED BY <2>1, Zenon DEF E, k
<1>9. /\ S \in Int /\ 2 * (k * S) <= 2 * (p * (Whole + c)) + k
      /\ 2 * (p * (Whole + c)) + k < 2 * (k * S) + 2 * k
  <2>1. /\ At(p, c) \in Int
        /\ 2 * ((Grain * Whole) * At(p, c)) <= 2 * (p * (Whole + c)) + Grain * Whole
        /\ 2 * (p * (Whole + c)) + Grain * Whole
              < 2 * ((Grain * Whole) * At(p, c)) + 2 * (Grain * Whole)
    <3>1. p \in Int BY <1>2
    <3> QED BY <1>4, <3>1, AtIs
  <2> QED BY <2>1, Zenon DEF S, k
<1>10. /\ G \in Int /\ 2 * (k * G) <= 2 * (p * (Whole + g)) + k
       /\ 2 * (p * (Whole + g)) + k < 2 * (k * G) + 2 * k
  <2>1. /\ At(p, g) \in Int
        /\ 2 * ((Grain * Whole) * At(p, g)) <= 2 * (p * (Whole + g)) + Grain * Whole
        /\ 2 * (p * (Whole + g)) + Grain * Whole
              < 2 * ((Grain * Whole) * At(p, g)) + 2 * (Grain * Whole)
    <3>1. p \in Int BY <1>2
    <3> QED BY <1>4, <3>1, AtIs
  <2> QED BY <2>1, Zenon DEF G, k
<1>11. plan'.by = "Flush" /\ plan'.dir = d /\ plan'.entry = E /\ plan'.stop = S /\ plan'.target = G
  BY <1>1
<1>12. CASE d = 1
  <2>1. p * (Whole + c) <= p * (Whole + b) BY <1>6, <1>7, <1>12
  <2>2. S <= E BY <1>2, <1>4, <2>1, AtOrder
  <2> HIDE DEF E, S, G, k
  <2>3. E > S BY <1>1, <1>8, <1>9, <2>2
  <2>4. k * E \in Int /\ k * S \in Int /\ k * G \in Int BY <1>5, <1>8, <1>9, <1>10
  <2>5. /\ 2 * (k * E) <= 2 * (pw - 4 * ps) + k
        /\ 2 * (pw - 16 * ps) + k < 2 * (k * S) + 2 * k
        /\ 2 * (pw + 20 * ps) + k < 2 * (k * G) + 2 * k
    BY <1>7, <1>8, <1>9, <1>10, <1>12
  <2>6. k * G + k * S - 2 * (k * E) > -(2 * k) BY <1>5, <1>6, <2>4, <2>5
  <2>7. k * (G + S - 2 * E) = k * G + k * S - 2 * (k * E) BY <1>5, <1>8, <1>9, <1>10
  <2>8. k * (-2) = -(2 * k) BY <1>5
  <2>9. G + S - 2 * E \in Int /\ k \in Nat \ {0} BY <1>5, <1>8, <1>9, <1>10
  <2>10. k * (-2) < k * (G + S - 2 * E) BY <2>6, <2>7, <2>8
  <2>11. -2 < G + S - 2 * E BY <2>9, <2>10, Cancel
  <2>12. d * (E - S) > 0 /\ d * (G - E) >= d * (E - S) - 1
    BY <1>8, <1>9, <1>10, <1>12, <2>3, <2>11
  <2> QED BY <1>11, <2>12 DEF PlansTradable, Ordered
<1>13. CASE d = -1
  <2>1. p * (Whole + b) <= p * (Whole + c) BY <1>6, <1>7, <1>13
  <2>2. E <= S BY <1>2, <1>4, <2>1, AtOrder
  <2> HIDE DEF E, S, G, k
  <2>3. E < S BY <1>1, <1>8, <1>9, <2>2
  <2>4. k * E \in Int /\ k * S \in Int /\ k * G \in Int BY <1>5, <1>8, <1>9, <1>10
  <2>5. /\ 2 * (pw + 4 * ps) + k < 2 * (k * E) + 2 * k
        /\ 2 * (k * S) <= 2 * (pw + 16 * ps) + k
        /\ 2 * (k * G) <= 2 * (pw - 20 * ps) + k
    BY <1>7, <1>8, <1>9, <1>10, <1>13
  <2>6. 2 * (k * E) - k * G - k * S > -(2 * k) BY <1>5, <1>6, <2>4, <2>5
  <2>7. k * (2 * E - G - S) = 2 * (k * E) - k * G - k * S BY <1>5, <1>8, <1>9, <1>10
  <2>8. k * (-2) = -(2 * k) BY <1>5
  <2>9. 2 * E - G - S \in Int /\ k \in Nat \ {0} BY <1>5, <1>8, <1>9, <1>10
  <2>10. k * (-2) < k * (2 * E - G - S) BY <2>6, <2>7, <2>8
  <2>11. -2 < 2 * E - G - S BY <2>9, <2>10, Cancel
  <2>12. d * (E - S) > 0 /\ d * (G - E) >= d * (E - S) - 1
    BY <1>8, <1>9, <1>10, <1>13, <2>3, <2>11
  <2> QED BY <1>11, <2>12 DEF PlansTradable, Ordered
<1> QED BY <1>12, <1>13 DEF Sides

LEMMA DecideStep == ASSUME PlansInv, Decide PROVE PlansInv'
<1>1. PlansTypes /\ UNCHANGED <<ground, scale, memory, pastMids>> BY DEF PlansInv, Decide
<1>2. PlansTypes' BY <1>1 DEF PlansTypes
<1>3. Around_ \subseteq Quotes /\ OnTicks \subseteq Quotes /\ Catchups \subseteq Nat
  BY <1>1, AroundIs, PlansAssumption DEF PlansTypes
<1>4. ASSUME NEW p \in Around_, Bounce(p) PROVE PlansTradable'
  <2>1. p \in Quotes BY <1>3
  <2> QED BY <1>1, <1>4, <2>1, BounceStep, Zenon
<1>5. ASSUME NEW d \in Sides, NEW p \in OnTicks, NEW best \in OnTicks, Breakout(d, p, best)
      PROVE  PlansTradable'
  <2>1. p \in Quotes BY <1>3
  <2> QED BY <1>1, <1>5, <2>1, BreakoutStep, Zenon
<1>6. ASSUME NEW d \in Sides, NEW c \in Catchups, Lag(d, c) PROVE PlansTradable'
  <2>1. c \in Nat BY <1>3
  <2> QED BY <1>1, <1>6, <2>1, LagStep, Zenon
<1>7. ASSUME NEW d \in Sides, NEW p \in Around_, Flush(d, p) PROVE PlansTradable'
  <2>1. p \in Quotes BY <1>3
  <2> QED BY <1>1, <1>7, <2>1, FlushStep, Zenon
<1>9. \/ \E p \in Around_ : Bounce(p)
      \/ \E d \in Sides, p \in OnTicks, best \in OnTicks : Breakout(d, p, best)
      \/ \E d \in Sides, c \in Catchups : Lag(d, c)
      \/ \E d \in Sides, p \in Around_ : Flush(d, p)
  BY Zenon DEF Decide, Sides
<1>8. PlansTradable' BY <1>4, <1>5, <1>6, <1>7, <1>9, Zenon
<1> QED BY <1>2, <1>8 DEF PlansInv

LEMMA PlansStep == ASSUME PlansInv, [PlansNext]_planVars PROVE PlansInv'
<1>0. PlansTypes /\ ground \in Quotes BY DEF PlansInv, PlansTypes
<1>1. ASSUME NEW k \in Remembered, NEW d \in {-1, 1}, NEW p \in Around_,
             k = "LevelFormed" \/ OnTick(p), Hear([kind |-> k, dir |-> d, price |-> p])
      PROVE  PlansInv'
  <2> DEFINE x == [kind |-> k, dir |-> d, price |-> p]
  <2>1. memory' = Append(memory, x) /\ plan' = NoPlan /\ UNCHANGED <<ground, scale, pastMids>>
    BY <1>1 DEF Hear
  <2>2. x \in Memories BY <1>0, <1>1, AroundIs, PlansAssumption DEF Memories, Sides
  <2> HIDE DEF x
  <2>3. memory' \in Seq(Memories) BY <1>0, <2>1, <2>2, AppendProperties DEF PlansTypes
  <2> QED BY <1>0, <2>1, <2>3 DEF PlansInv, PlansTypes, PlansTradable, NoPlan
<1>2. ASSUME NEW p \in Around_, SeeMid(p) PROVE PlansInv'
  <2>1. pastMids' = Append(pastMids, p) /\ plan' = NoPlan /\ UNCHANGED <<ground, scale, memory>>
    BY <1>2 DEF SeeMid
  <2>2. p \in Quotes BY <1>0, AroundIs
  <2>3. pastMids' \in Seq(Quotes) BY <1>0, <2>1, <2>2, AppendProperties DEF PlansTypes
  <2> QED BY <1>0, <2>1, <2>3 DEF PlansInv, PlansTypes, PlansTradable, NoPlan
<1>3. CASE UNCHANGED planVars
  BY <1>3 DEF planVars, PlansInv, PlansTypes, PlansTradable, Ordered, PileCovered, Heard, NoPlan
<1> QED BY <1>1, <1>2, <1>3, DecideStep DEF PlansNext

LEMMA PlansInitially == ASSUME PlansInit PROVE PlansInv
<1>1. ground \in Quotes /\ scale \in Rates BY PlansAssumption, RatesAre DEF PlansInit, Quotes
<1>2. memory = <<>> /\ pastMids = <<>> /\ plan = NoPlan BY DEF PlansInit
<1> QED BY <1>1, <1>2 DEF PlansInv, PlansTypes, PlansTradable

\* At any fraction of a tick and any scale the volume clamp allows, after any
\* signals: the prices of a plan are in order after rounding to ticks, and a
\* bounce's stop has the whole pile before it (the four strategies' prices of
\* entry, stop and target).
THEOREM PlansAreTradable == PlansSpec => []PlansTradable
<1>1. PlansInit => PlansInv BY PlansInitially
<1>2. PlansInv /\ [PlansNext]_planVars => PlansInv' BY PlansStep
<1>3. PlansInv => PlansTradable BY DEF PlansInv
<1> QED BY <1>1, <1>2, <1>3, PTL DEF PlansSpec
=============================================================================
