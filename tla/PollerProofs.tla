---------------------------- MODULE PollerProofs ----------------------------
(* Proofs about the two parts that look at the world by a timer of their own: *)
(* OrderReconciliator, which polls the exchange for the orders it cannot      *)
(* know the end of, and Dashboard, which conflates for its browsers.          *)
EXTENDS OrderReconciliator, Dashboard, SequenceTheorems, TLAPS

-----------------------------------------------------------------------------
(* OrderReconciliator, for every set of ids, tickers and orders and every     *)
(* configuration.  The inductive invariant is                                 *)
(* TypeOK /\ IndexConsistent /\ PollInPast /\ BackoffBounded.                 *)

\* The time a running poll works with was read before: what it calls the
\* elapsed time is never more than the intent has really waited.
PollInPast == poll.at \in {"fetch", "apply"} => poll.now <= now

\* Erasing a set of tracked ids from the index leaves an index of the rest.
LEMMA UnindexShape ==
    ASSUME TypeOK, NEW gone \in SUBSET DOMAIN pending
    PROVE  /\ DOMAIN Unindex(gone) \subseteq DOMAIN by_ticker
           /\ Unindex(gone) \in [DOMAIN Unindex(gone) -> SUBSET LocalIds]
           /\ \A t \in DOMAIN Unindex(gone) :
                 /\ Unindex(gone)[t] # {}
                 /\ Unindex(gone)[t] =
                      by_ticker[t] \ {i \in gone : pending[i].intent.ticker = t}
           /\ \A t \in DOMAIN by_ticker :
                 by_ticker[t] \ {i \in gone : pending[i].intent.ticker = t} # {}
                    => t \in DOMAIN Unindex(gone)
  BY DEF Unindex, TypeOK

\* The phase of a poll determines which record describes it.
LEMMA PollShape ==
    ASSUME TypeOK
    PROVE  /\ poll.at = "fetch" => poll \in Fetching
           /\ poll.at = "apply" => poll \in Applying
<1>1. CASE poll = Idle BY <1>1 DEF Idle
<1>2. CASE poll \in Fetching BY <1>2 DEF Fetching
<1>3. CASE poll \in Applying BY <1>3 DEF Applying
<1> QED BY <1>1, <1>2, <1>3 DEF TypeOK

\* A fruitless poll keeps the intent and its start, and its new backoff is
\* at most max_backoff.
LEMMA PostponedShape ==
    ASSUME NEW p \in PendingIntent, NEW t \in Nat
    PROVE  /\ Postponed(p, t) \in PendingIntent
           /\ Postponed(p, t).intent = p.intent
           /\ Postponed(p, t).started_at = p.started_at
           /\ Postponed(p, t).current_backoff = NextBackoff(p.current_backoff)
           /\ Postponed(p, t).next_poll_at = t + NextBackoff(p.current_backoff)
<1>1. NextBackoff(p.current_backoff) \in Nat
  BY ConfigAssumption DEF NextBackoff, PendingIntent
<1>2. t + NextBackoff(p.current_backoff) \in Nat
  BY <1>1
<1> QED BY <1>1, <1>2 DEF Postponed, PendingIntent

\* Init establishes, and every step preserves, the type invariant
\* (all methods of OrderReconciliator).
LEMMA TypeStep == TypeOK /\ [Next]_vars => TypeOK'
<1> SUFFICES ASSUME TypeOK, [Next]_vars PROVE TypeOK'
  OBVIOUS
<1> USE ConfigAssumption
<1>1. ASSUME NEW id \in LocalIds, NEW intent \in Intents, EnterSubmitUnknown(id, intent)
      PROVE  TypeOK'
  <2>1. now' \in Nat /\ server' \subseteq ServerOrder /\ poll' \in {Idle} \cup Fetching \cup Applying
        /\ results' \subseteq Results
    BY <1>1 DEF EnterSubmitUnknown, TypeOK
  <2>2. DOMAIN pending' \subseteq LocalIds /\ pending' \in [DOMAIN pending' -> PendingIntent]
    BY <1>1 DEF EnterSubmitUnknown, TypeOK, PendingIntent
  <2>3. DOMAIN by_ticker' \subseteq Tickers
        /\ by_ticker' \in [DOMAIN by_ticker' -> SUBSET LocalIds]
    BY <1>1 DEF EnterSubmitUnknown, TypeOK, Intents
  <2> QED BY <2>1, <2>2, <2>3 DEF TypeOK
<1>2. ASSUME NEW id \in LocalIds, ResolveOrder(id) PROVE TypeOK'
  <2>1. pending' = Without(pending, {id}) /\ by_ticker' = Unindex({id})
    BY <1>2 DEF ResolveOrder
  <2>2. {id} \in SUBSET DOMAIN pending
    BY <1>2 DEF ResolveOrder
  <2>3. DOMAIN pending' \subseteq LocalIds /\ pending' \in [DOMAIN pending' -> PendingIntent]
    BY <2>1 DEF Without, TypeOK
  <2>4. DOMAIN by_ticker' \subseteq Tickers
        /\ by_ticker' \in [DOMAIN by_ticker' -> SUBSET LocalIds]
    BY <2>1, <2>2, UnindexShape DEF TypeOK
  <2> QED BY <1>2, <2>3, <2>4 DEF ResolveOrder, TypeOK
<1>3. ASSUME NEW t \in Tickers, PollBegin(t) PROVE TypeOK'
  <2>1. Due(t) \in SUBSET LocalIds
    BY <1>3 DEF Due, PollBegin, HasPending, TypeOK
  <2>2. poll' \in {Idle} \cup Fetching \cup Applying
    BY <1>3, <2>1 DEF PollBegin, Fetching, TypeOK
  <2> QED BY <1>3, <2>2 DEF PollBegin, TypeOK
<1>4. ASSUME NEW failed \in BOOLEAN, PollFetch(failed) PROVE TypeOK'
  <2>1. poll \in Fetching
    BY <1>4, PollShape DEF PollFetch
  <2>2. (IF failed THEN {} ELSE {o \in server : o.ticker = poll.ticker}) \in SUBSET ServerOrder
    BY DEF TypeOK
  <2>3. poll' \in {Idle} \cup Fetching \cup Applying
    BY <1>4, <2>1, <2>2 DEF PollFetch, Fetching, Applying
  <2> QED BY <1>4, <2>3 DEF PollFetch, TypeOK
<1>5. ASSUME PollApply PROVE TypeOK'
  <2> DEFINE matched == {i \in Polled : \E o \in poll.orders : Matches(pending[i].intent, o)}
             late    == {i \in Polled \ matched : TimedOut(pending[i], poll.now)}
             gone    == matched \cup late
  <2>1. poll \in Applying
    BY <1>5, PollShape DEF PollApply
  <2>2. gone \in SUBSET DOMAIN pending
    BY DEF Polled
  <2>3. by_ticker' = Unindex(gone)
    BY <1>5 DEF PollApply
  <2>4. DOMAIN by_ticker' \subseteq Tickers
        /\ by_ticker' \in [DOMAIN by_ticker' -> SUBSET LocalIds]
    BY <2>2, <2>3, UnindexShape DEF TypeOK
  <2>5. DOMAIN pending' \subseteq LocalIds /\ pending' \in [DOMAIN pending' -> PendingIntent]
    <3>1. \A i \in DOMAIN pending : Postponed(pending[i], poll.now) \in PendingIntent
      BY <2>1, PostponedShape DEF TypeOK, Applying
    <3>2. pending' =
            [i \in DOMAIN pending \ gone |->
               IF i \in Polled THEN Postponed(pending[i], poll.now) ELSE pending[i]]
      BY <1>5 DEF PollApply
    <3> HIDE DEF gone
    <3> QED BY <3>1, <3>2 DEF TypeOK
  <2>6. results' \subseteq Results
    <3>1. results' =
            {[local |-> i, intent |-> pending[i].intent,
              outcome |-> IF i \in matched THEN "Resolved" ELSE "NotFoundTimeout",
              age |-> now - pending[i].started_at,
              seen |-> poll.orders] : i \in gone}
      BY <1>5 DEF PollApply
    <3>2. \A i \in DOMAIN pending : /\ pending[i].intent \in Intents
                                    /\ now - pending[i].started_at \in Int
                                    /\ i \in LocalIds
      BY DEF TypeOK, PendingIntent
    <3> HIDE DEF gone, matched
    <3> QED BY <2>1, <2>2, <3>1, <3>2 DEF Results, Applying
  <2>7. poll' \in {Idle} \cup Fetching \cup Applying /\ now' \in Nat /\ server' \subseteq ServerOrder
    BY <1>5 DEF PollApply, TypeOK
  <2> QED BY <2>4, <2>5, <2>6, <2>7 DEF TypeOK
<1>6. ASSUME Tick PROVE TypeOK'
  BY <1>6 DEF Tick, TypeOK
<1>7. ASSUME NEW o \in ServerOrder, ServerAccepts(o) \/ ServerDrops(o) PROVE TypeOK'
  BY <1>7 DEF ServerAccepts, ServerDrops, TypeOK
<1>8. ASSUME UNCHANGED vars PROVE TypeOK'
  BY <1>8 DEF vars, TypeOK
<1> QED BY <1>1, <1>2, <1>3, <1>4, <1>5, <1>6, <1>7, <1>8 DEF Next

\* The maps, the running poll and the results always have their types
\* (every method of OrderReconciliator).
THEOREM TypeCorrect == Spec => []TypeOK
<1>1. Init => TypeOK
  BY ConfigAssumption DEF Init, TypeOK
<1>2. QED BY <1>1, TypeStep, PTL DEF Spec

-----------------------------------------------------------------------------

\* What the last critical section of poll_open_orders does, intent by intent
\* (cpp 95-136 and 138-204).
LEMMA ApplyEffect ==
    ASSUME TypeOK, PollApply
    PROVE  \E gone \in SUBSET DOMAIN pending :
             /\ by_ticker' = Unindex(gone)
             /\ DOMAIN pending' = DOMAIN pending \ gone
             /\ \A i \in DOMAIN pending' :
                   pending'[i] = pending[i] \/ pending'[i] = Postponed(pending[i], poll.now)
             /\ \A i \in DOMAIN pending : i \notin poll.due =>
                   i \notin gone /\ pending'[i] = pending[i]
             /\ \A r \in results' :
                   /\ \E i \in gone : /\ r.intent = pending[i].intent
                                      /\ r.age = now - pending[i].started_at
                                      /\ r.outcome = "NotFoundTimeout"
                                           => poll.now - pending[i].started_at >= TotalTimeout
                   /\ r.outcome = "Resolved" => \E o \in r.seen : Matches(r.intent, o)
<1> DEFINE matched == {i \in Polled : \E o \in poll.orders : Matches(pending[i].intent, o)}
           late    == {i \in Polled \ matched : TimedOut(pending[i], poll.now)}
           gone    == matched \cup late
           result(i) ==
             [local |-> i, intent |-> pending[i].intent,
              outcome |-> IF i \in matched THEN "Resolved" ELSE "NotFoundTimeout",
              age |-> now - pending[i].started_at,
              seen |-> poll.orders]
<1>1. /\ by_ticker' = Unindex(gone)
      /\ pending' = [i \in DOMAIN pending \ gone |->
                       IF i \in Polled THEN Postponed(pending[i], poll.now) ELSE pending[i]]
      /\ results' = {result(i) : i \in gone}
  BY DEF PollApply
<1>2. gone \in SUBSET DOMAIN pending
  BY DEF Polled
<1>3. \A i \in gone :
        /\ i \in matched => \E o \in poll.orders : Matches(pending[i].intent, o)
        /\ i \notin matched => poll.now - pending[i].started_at >= TotalTimeout
  BY DEF TimedOut
<1>4. \A r \in results' :
        /\ \E i \in gone : /\ r.intent = pending[i].intent
                           /\ r.age = now - pending[i].started_at
                           /\ r.outcome = "NotFoundTimeout"
                                => poll.now - pending[i].started_at >= TotalTimeout
        /\ r.outcome = "Resolved" => \E o \in r.seen : Matches(r.intent, o)
  <2> SUFFICES ASSUME NEW i \in gone
               PROVE  /\ result(i).outcome = "NotFoundTimeout"
                           => poll.now - pending[i].started_at >= TotalTimeout
                      /\ result(i).outcome = "Resolved"
                           => \E o \in result(i).seen : Matches(result(i).intent, o)
    BY <1>1
  <2> HIDE DEF gone, matched
  <2> QED BY <1>3
<1> HIDE DEF gone, matched
<1>5. DOMAIN pending' = DOMAIN pending \ gone
  BY <1>1
<1>6. \A i \in DOMAIN pending' :
        pending'[i] = pending[i] \/ pending'[i] = Postponed(pending[i], poll.now)
  BY <1>1
<1>7. \A i \in DOMAIN pending : i \notin poll.due =>
        i \notin gone /\ pending'[i] = pending[i]
  BY <1>1 DEF Polled, gone, matched
<1> QED BY <1>1, <1>2, <1>4, <1>5, <1>6, <1>7

\* Erasing the same ids from both maps keeps them consistent.
LEMMA EraseConsistent ==
    ASSUME TypeOK, IndexConsistent, NEW gone \in SUBSET DOMAIN pending,
           by_ticker' = Unindex(gone), DOMAIN pending' = DOMAIN pending \ gone,
           \A i \in DOMAIN pending' : pending'[i].intent = pending[i].intent
    PROVE  IndexConsistent'
<1>1. ASSUME NEW i \in DOMAIN pending'
      PROVE  /\ pending'[i].intent.ticker \in DOMAIN by_ticker'
             /\ i \in by_ticker'[pending'[i].intent.ticker]
  <2> DEFINE t == pending[i].intent.ticker
  <2>1. t \in DOMAIN by_ticker /\ i \in by_ticker[t] /\ i \notin gone
    BY DEF IndexConsistent
  <2>2. i \in by_ticker[t] \ {j \in gone : pending[j].intent.ticker = t}
    BY <2>1
  <2>3. t \in DOMAIN Unindex(gone) /\ i \in Unindex(gone)[t]
    BY <2>1, <2>2, UnindexShape
  <2> QED BY <2>3
<1>2. ASSUME NEW t \in DOMAIN by_ticker'
      PROVE  /\ by_ticker'[t] # {}
             /\ \A i \in by_ticker'[t] : i \in DOMAIN pending' /\ pending'[i].intent.ticker = t
  <2>1. t \in DOMAIN by_ticker /\ by_ticker'[t] # {}
        /\ by_ticker'[t] = by_ticker[t] \ {j \in gone : pending[j].intent.ticker = t}
    BY <1>2, UnindexShape
  <2>2. \A i \in by_ticker[t] : i \in DOMAIN pending /\ pending[i].intent.ticker = t
    BY <2>1 DEF IndexConsistent
  <2> QED BY <2>1, <2>2
<1> QED BY <1>1, <1>2 DEF IndexConsistent

\* pending_ and by_ticker_ agree in every reachable state, whatever the
\* interleaving of enter_submit_unknown, resolve_order and a poll in flight.
THEOREM IndexAlwaysConsistent == Spec => []IndexConsistent
<1>1. Init => IndexConsistent
  BY DEF Init, IndexConsistent
<1>2. ASSUME TypeOK, IndexConsistent, [Next]_vars PROVE IndexConsistent'
  <2>1. ASSUME NEW id \in LocalIds, NEW intent \in Intents, EnterSubmitUnknown(id, intent)
        PROVE  IndexConsistent'
    <3>1. /\ id \notin DOMAIN pending
          /\ DOMAIN pending' = DOMAIN pending \cup {id}
          /\ pending'[id].intent = intent
          /\ \A i \in DOMAIN pending : pending'[i] = pending[i]
      BY <2>1 DEF EnterSubmitUnknown
    <3>2. /\ DOMAIN by_ticker' = DOMAIN by_ticker \cup {intent.ticker}
          /\ \A t \in DOMAIN by_ticker' :
                by_ticker'[t] = (IF t \in DOMAIN by_ticker THEN by_ticker[t] ELSE {})
                                \cup (IF t = intent.ticker THEN {id} ELSE {})
      BY <2>1 DEF EnterSubmitUnknown
    <3>3. ASSUME NEW i \in DOMAIN pending'
          PROVE  /\ pending'[i].intent.ticker \in DOMAIN by_ticker'
                 /\ i \in by_ticker'[pending'[i].intent.ticker]
      <4>1. CASE i = id BY <4>1, <3>1, <3>2
      <4>2. CASE i # id BY <1>2, <4>2, <3>1, <3>2 DEF IndexConsistent
      <4> QED BY <4>1, <4>2
    <3>4. ASSUME NEW t \in DOMAIN by_ticker'
          PROVE  /\ by_ticker'[t] # {}
                 /\ \A i \in by_ticker'[t] :
                       i \in DOMAIN pending' /\ pending'[i].intent.ticker = t
      <4>1. \A i \in by_ticker'[t] :
               \/ t \in DOMAIN by_ticker /\ i \in by_ticker[t]
               \/ t = intent.ticker /\ i = id
        BY <3>2
      <4>2. by_ticker'[t] # {}
        BY <1>2, <3>2 DEF IndexConsistent
      <4> QED BY <1>2, <4>1, <4>2, <3>1 DEF IndexConsistent
    <3> QED BY <3>3, <3>4 DEF IndexConsistent
  <2>2. ASSUME NEW id \in LocalIds, ResolveOrder(id) PROVE IndexConsistent'
    <3>1. /\ {id} \in SUBSET DOMAIN pending
          /\ by_ticker' = Unindex({id})
          /\ DOMAIN pending' = DOMAIN pending \ {id}
          /\ \A i \in DOMAIN pending' : pending'[i].intent = pending[i].intent
      BY <2>2 DEF ResolveOrder, Without
    <3> QED BY <1>2, <3>1, EraseConsistent
  <2>3. ASSUME PollApply PROVE IndexConsistent'
    <3>1. PICK gone \in SUBSET DOMAIN pending :
            /\ by_ticker' = Unindex(gone)
            /\ DOMAIN pending' = DOMAIN pending \ gone
            /\ \A i \in DOMAIN pending' :
                  pending'[i] = pending[i] \/ pending'[i] = Postponed(pending[i], poll.now)
      BY <1>2, <2>3, ApplyEffect
    <3>2. poll.now \in Nat
      BY <1>2, <2>3, PollShape DEF PollApply, Applying
    <3>3. \A i \in DOMAIN pending' : pending'[i].intent = pending[i].intent
      BY <1>2, <3>1, <3>2, PostponedShape DEF TypeOK
    <3> QED BY <1>2, <3>1, <3>3, EraseConsistent
  <2>4. ASSUME UNCHANGED <<pending, by_ticker>> PROVE IndexConsistent'
    BY <1>2, <2>4 DEF IndexConsistent
  <2> QED BY <1>2, <2>1, <2>2, <2>3, <2>4
          DEF Next, PollBegin, PollFetch, Tick, ServerAccepts, ServerDrops, vars
<1>3. QED BY <1>1, <1>2, TypeCorrect, PTL DEF Spec

-----------------------------------------------------------------------------

\* The time of a running poll is never ahead of the clock.
LEMMA PollInPastStep == TypeOK /\ PollInPast /\ [Next]_vars => PollInPast'
<1> SUFFICES ASSUME TypeOK, PollInPast, [Next]_vars PROVE PollInPast'
  OBVIOUS
<1>1. ASSUME NEW t \in Tickers, PollBegin(t) PROVE PollInPast'
  BY <1>1 DEF PollBegin, PollInPast, TypeOK
<1>2. ASSUME NEW failed \in BOOLEAN, PollFetch(failed) PROVE PollInPast'
  BY <1>2 DEF PollFetch, PollInPast
<1>3. ASSUME PollApply PROVE PollInPast'
  BY <1>3 DEF PollApply, PollInPast, Idle
<1>4. ASSUME Tick PROVE PollInPast'
  <2>1. CASE poll.at \in {"fetch", "apply"}
    <3>1. poll.now \in Nat
      BY <2>1, PollShape DEF Fetching, Applying
    <3> QED BY <1>4, <2>1, <3>1 DEF Tick, PollInPast, TypeOK
  <2>2. CASE poll.at \notin {"fetch", "apply"}
    BY <1>4, <2>2 DEF Tick, PollInPast
  <2> QED BY <2>1, <2>2
<1>5. ASSUME UNCHANGED <<now, poll>> PROVE PollInPast'
  BY <1>5 DEF PollInPast
<1> QED BY <1>1, <1>2, <1>3, <1>4, <1>5
        DEF Next, EnterSubmitUnknown, ResolveOrder, ServerAccepts, ServerDrops, vars

\* In every reachable state the poll works with a time that has passed.
LEMMA PollAlwaysInPast == Spec => []PollInPast
<1>1. Init => PollInPast
  BY DEF Init, PollInPast, Idle
<1>2. QED BY <1>1, PollInPastStep, TypeCorrect, PTL DEF Spec

\* A NotFoundTimeout is never reported before total_timeout has passed since
\* the registration it answers, for every clock, backoff and interleaving.
THEOREM TimeoutNeverEarly == Spec => []NoEarlyTimeout
<1>1. Init => NoEarlyTimeout
  BY DEF Init, NoEarlyTimeout
<1>2. ASSUME TypeOK, PollInPast, NoEarlyTimeout, [Next]_vars PROVE NoEarlyTimeout'
  <2>1. ASSUME PollApply PROVE NoEarlyTimeout'
    <3>1. poll.now \in Nat /\ poll.now <= now
      BY <1>2, <2>1, PollShape DEF PollApply, Applying, PollInPast
    <3>2. \A r \in results' : \E i \in DOMAIN pending :
             /\ r.age = now - pending[i].started_at
             /\ r.outcome = "NotFoundTimeout" => poll.now - pending[i].started_at >= TotalTimeout
      BY <1>2, <2>1, ApplyEffect
    <3>3. \A i \in DOMAIN pending : pending[i].started_at \in Nat
      BY <1>2 DEF TypeOK, PendingIntent
    <3>4. \A s \in Nat : poll.now - s >= TotalTimeout => now - s >= TotalTimeout
      BY <1>2, <3>1, ConfigAssumption DEF TypeOK
    <3> QED BY <3>2, <3>3, <3>4 DEF NoEarlyTimeout
  <2>2. ASSUME results' = {} \/ results' = results PROVE NoEarlyTimeout'
    BY <1>2, <2>2 DEF NoEarlyTimeout
  <2> QED BY <1>2, <2>1, <2>2
          DEF Next, EnterSubmitUnknown, ResolveOrder, PollBegin, PollFetch, Tick,
              ServerAccepts, ServerDrops, vars
<1>3. QED BY <1>1, <1>2, TypeCorrect, PollAlwaysInPast, PTL DEF Spec

\* A Resolved result always answers an order of the intent's own ticker and
\* shape among those the exchange returned to that poll (matches_intent_).
THEOREM ResolvedAlwaysFromServer == Spec => []ResolvedFromServer
<1>1. Init => ResolvedFromServer
  BY DEF Init, ResolvedFromServer
<1>2. ASSUME TypeOK, ResolvedFromServer, [Next]_vars PROVE ResolvedFromServer'
  <2>1. ASSUME PollApply PROVE ResolvedFromServer'
    <3>1. \A r \in results' : r.outcome = "Resolved" => \E o \in r.seen : Matches(r.intent, o)
      BY <1>2, <2>1, ApplyEffect
    <3> QED BY <3>1 DEF ResolvedFromServer, Matches
  <2>2. ASSUME results' = {} \/ results' = results PROVE ResolvedFromServer'
    BY <1>2, <2>2 DEF ResolvedFromServer, Matches
  <2> QED BY <1>2, <2>1, <2>2
          DEF Next, EnterSubmitUnknown, ResolveOrder, PollBegin, PollFetch, Tick,
              ServerAccepts, ServerDrops, vars
<1>3. QED BY <1>1, <1>2, TypeCorrect, PTL DEF Spec

\* The backoff stays between its initial value and max_backoff and no intent
\* waits longer than max_backoff for its next poll.
THEOREM BackoffAlwaysBounded == Spec => []BackoffBounded
<1> USE ConfigAssumption
<1>1. Init => BackoffBounded
  BY DEF Init, BackoffBounded
<1>2. ASSUME TypeOK, PollInPast, BackoffBounded, [Next]_vars PROVE BackoffBounded'
  <2>1. ASSUME NEW id \in LocalIds, NEW intent \in Intents, EnterSubmitUnknown(id, intent)
        PROVE  BackoffBounded'
    BY <1>2, <2>1 DEF EnterSubmitUnknown, BackoffBounded, TypeOK
  <2>2. ASSUME NEW id \in LocalIds, ResolveOrder(id) PROVE BackoffBounded'
    BY <1>2, <2>2 DEF ResolveOrder, Without, BackoffBounded
  <2>3. ASSUME PollApply PROVE BackoffBounded'
    <3>1. poll.now \in Nat /\ poll.now <= now /\ now' = now /\ now \in Nat
      BY <1>2, <2>3, PollShape DEF PollApply, Applying, PollInPast, TypeOK
    <3>2. DOMAIN pending' \subseteq DOMAIN pending
          /\ \A i \in DOMAIN pending' :
                pending'[i] = pending[i] \/ pending'[i] = Postponed(pending[i], poll.now)
      BY <1>2, <2>3, ApplyEffect
    <3>3. \A b \in InitialBackoff..MaxBackoff : NextBackoff(b) \in InitialBackoff..MaxBackoff
      BY DEF NextBackoff
    <3>4. ASSUME NEW i \in DOMAIN pending', pending'[i] = Postponed(pending[i], poll.now)
          PROVE  /\ pending'[i].current_backoff \in InitialBackoff..MaxBackoff
                 /\ pending'[i].next_poll_at <= now + MaxBackoff
      <4>1. pending[i] \in PendingIntent
            /\ pending[i].current_backoff \in InitialBackoff..MaxBackoff
        BY <1>2, <3>2 DEF TypeOK, BackoffBounded
      <4>2. /\ pending'[i].current_backoff = NextBackoff(pending[i].current_backoff)
            /\ pending'[i].next_poll_at = poll.now + NextBackoff(pending[i].current_backoff)
        BY <3>1, <3>4, <4>1, PostponedShape
      <4>3. NextBackoff(pending[i].current_backoff) \in InitialBackoff..MaxBackoff
        BY <4>1, <3>3
      <4> QED BY <3>1, <4>2, <4>3
    <3> QED BY <1>2, <3>1, <3>2, <3>4 DEF BackoffBounded
  <2>4. ASSUME Tick PROVE BackoffBounded'
    BY <1>2, <2>4 DEF Tick, BackoffBounded, TypeOK, PendingIntent
  <2>5. ASSUME UNCHANGED <<pending, now>> PROVE BackoffBounded'
    BY <1>2, <2>5 DEF BackoffBounded
  <2> QED BY <1>2, <2>1, <2>2, <2>3, <2>4, <2>5
          DEF Next, PollBegin, PollFetch, ServerAccepts, ServerDrops, vars
<1>3. QED BY <1>1, <1>2, TypeCorrect, PollAlwaysInPast, PTL DEF Spec

-----------------------------------------------------------------------------

\* No poll reports or postpones an intent that was not due when it began:
\* what enter_submit_unknown adds during the HTTP call is left alone.
THEOREM LateEntriesStayUntouched == Spec => LateEntryUntouched
<1> DEFINE Untouched ==
      \A i \in DOMAIN pending :
         (poll.at = "apply" /\ poll' = Idle /\ i \notin poll.due)
            => (i \in DOMAIN pending' /\ pending'[i] = pending[i])
<1>1. ASSUME TypeOK, [Next]_vars PROVE Untouched \/ UNCHANGED vars
  <2>1. ASSUME PollApply PROVE Untouched
    <3>1. PICK gone \in SUBSET DOMAIN pending :
            /\ DOMAIN pending' = DOMAIN pending \ gone
            /\ \A i \in DOMAIN pending : i \notin poll.due =>
                  i \notin gone /\ pending'[i] = pending[i]
      BY <1>1, <2>1, ApplyEffect
    <3> QED BY <3>1
  <2>2. ASSUME UNCHANGED poll PROVE Untouched
    BY <2>2 DEF Idle
  <2>3. ASSUME NEW t \in Tickers, PollBegin(t) PROVE Untouched
    BY <2>3 DEF PollBegin, Idle
  <2>4. ASSUME NEW failed \in BOOLEAN, PollFetch(failed) PROVE Untouched
    BY <2>4 DEF PollFetch, Idle
  <2> QED BY <1>1, <2>1, <2>2, <2>3, <2>4
          DEF Next, EnterSubmitUnknown, ResolveOrder, Tick, ServerAccepts, ServerDrops, vars
<1>2. TypeOK /\ [Next]_vars => [Untouched]_vars
  BY <1>1
<1>3. QED BY <1>2, TypeCorrect, PTL DEF Spec, LateEntryUntouched

-----------------------------------------------------------------------------
(* Dashboard: the conflation timer runs while there are sessions, a browser   *)
(* that has been sent everything shows what the server has, and what it shows *)
(* never goes back.                                                           *)
(*                                                                            *)
(* The inductive invariant follows an update from the tick that made it to    *)
(* the browser: along the strand, pendingState, casting, current, the queue   *)
(* of a session and the store, no account and no journal is older than the    *)
(* next one's, and the last frame queued, or the store, is what the server    *)
(* has.                                                                       *)

AnyCoin == Coins \union {NoCoin}
StateType == [full : BOOLEAN, acct : Nat, lists : Nat, sel : AnyCoin, heavy : Nat,
              chart : AnyCoin, book : AnyCoin, ice : Nat, gen : Nat]
FrameType == [full : BOOLEAN, acct : Nat, lists : Nat, sel : AnyCoin, book : AnyCoin,
              ice : Nat, gen : Nat, heavy : Nat \union {Absent}, chart : AnyCoin,
              density : Nat \union {Absent}]

\* A chart comes with the journal of its rebuild.
States == {s \in StateType : s.chart # NoCoin => s.heavy > 0}
Frames == {f \in FrameType : /\ f.full => f.heavy \in Nat
                             /\ f.chart # NoCoin => f.full /\ f.heavy > 0}

Jobs == [do : {"keep"}, state : States] \union [do : {"schedule", "conflate"}, state : {Nothing}]
Boxes == [queue : Seq(Frames), busy : BOOLEAN, now : Frames \union {Nothing}, freed : BOOLEAN]
Points == [of : SUBSET Coins, ts : Nat]
Views == [format : {"binary", "json"}, gen : Int, acct : Nat, lists : Nat, heavy : Nat,
          book : AnyCoin, chart : SUBSET Coins, density : Nat \union {Absent}, ice : Nat,
          active : Coins, buffers : [Coins -> Points]]

\* The journal b may follow a: newer, or emptied after an iceberg.
Follows(a, b) == b >= a \/ (b = 0 /\ tally.icebergs > 0)

-----------------------------------------------------------------------------
\* The main thread.
BotOK ==
    /\ tick \in [pc : {"rest", "rebuild", "send"}, full : BOOLEAN, n : Nat]
    /\ cache \in [heavy : Nat, chart : AnyCoin, book : AnyCoin]
    /\ cache.chart # NoCoin => cache.heavy > 0
    /\ cache.heavy <= tick.n
    /\ tick.pc # "rest" => tick.n > 0
    /\ selected \in AnyCoin /\ requests \in Seq(Coins)
    /\ tally \in [{"picks", "icebergs", "drops"} -> Nat]

\* The states posted, oldest first: none older than pendingState, none newer than the cache.
Kept(i) == i \in 1..Len(strand) /\ strand[i].do = "keep"

StrandOK ==
    /\ strand \in Seq(Jobs)
    /\ \A i \in 1..Len(strand) : Kept(i) =>
           /\ pendingState.acct <= strand[i].state.acct
           /\ pendingState.heavy <= strand[i].state.heavy
           /\ strand[i].state.acct <= tick.n /\ strand[i].state.heavy <= cache.heavy
    /\ \A i, j \in 1..Len(strand) : Kept(i) /\ Kept(j) /\ i < j =>
           /\ strand[i].state.acct <= strand[j].state.acct
           /\ strand[i].state.heavy <= strand[j].state.heavy

\* The journals still to be merged may follow h.
HeavyLeft(h) ==
    /\ dirty => Follows(h, pendingState.heavy)
    /\ \A i \in 1..Len(strand) : Kept(i) => h <= strand[i].state.heavy
    /\ h <= cache.heavy
HeavyUp(h) == HeavyLeft(h) /\ (~DashFree => Follows(h, casting.heavy))

\* From pendingState by way of casting to current, oldest last.
ServerOK ==
    /\ current \in States /\ pendingState \in States
    /\ dirty \in BOOLEAN /\ waiting \in BOOLEAN
    /\ ~dirty => pendingState.heavy = 0
    /\ pendingState.acct <= tick.n /\ pendingState.heavy <= cache.heavy
    /\ current.acct <= pendingState.acct
    /\ ~DashFree => /\ casting \in States /\ casting.gen = current.gen + 1
                    /\ current.acct <= casting.acct /\ casting.acct <= pendingState.acct
                    /\ HeavyLeft(casting.heavy)
    /\ HeavyUp(current.heavy)

\* Who is up to date, or has the last full update, has an open session.
NetOK ==
    /\ sessions \subseteq Clients /\ ghosts \in Nat
    /\ link \in [Clients -> {"down", "accepting", "open"}]
    /\ outbox \in [Clients -> Boxes] /\ view \in [Clients -> Views]
    /\ updated \subseteq Clients /\ missed \subseteq Clients /\ torn \subseteq Clients
    /\ \A c \in sessions : c \in updated \/ c \notin missed => link[c] = "open"

\* The timer of the sessions, those included that are gone unnoticed.
TimerRuns ==
    sessions # {} \/ ghosts > 0 =>
        \/ waiting \/ ~DashFree
        \/ \E i \in 1..Len(strand) : strand[i].do \in {"schedule", "conflate"}

-----------------------------------------------------------------------------
InFlight(o) == {o.queue[i] : i \in 1..Len(o.queue)} \union (IF o.busy THEN {o.now} ELSE {})

\* g was made after f.
After(f, g) == f.acct <= g.acct /\ f.gen < g.gen /\ (f.full /\ g.full => Follows(f.heavy, g.heavy))

\* A queue is in the order the frames were made; the first of it is being written, unless
\* it was pushed out under the writer.
BoxOK(o) ==
    /\ o.busy <=> o.queue # <<>>
    /\ o.busy => o.now \in Frames
    /\ o.busy /\ ~o.freed => o.now = o.queue[1]
    /\ o.freed => o.busy /\ Len(o.queue) >= 2
    /\ \A i, j \in 1..Len(o.queue) : i < j => After(o.queue[i], o.queue[j])
    /\ o.freed => \A i \in 1..Len(o.queue) : After(o.now, o.queue[i])

\* A frame on its way to a browser that shows v.
FrameOK(v, f) ==
    /\ f.acct <= current.acct /\ f.gen <= current.gen
    /\ v.acct <= f.acct /\ v.gen <= f.gen
    /\ f.full => /\ Follows(f.heavy, current.heavy) /\ HeavyUp(f.heavy)
                 /\ Follows(v.heavy, f.heavy)
    /\ ~f.full /\ v.format = "json" => f.heavy = Absent

\* A store is no newer than the server.
ViewOK(v) ==
    /\ v.acct <= current.acct /\ v.gen <= current.gen
    /\ Follows(v.heavy, current.heavy) /\ HeavyUp(v.heavy)
    /\ \A x \in Coins : v.buffers[x].ts > 0 => v.buffers[x].of # {}

ClientOK(c) ==
    /\ link[c] # "open" => outbox[c].queue = <<>>
    /\ BoxOK(outbox[c]) /\ ViewOK(view[c])
    /\ \A f \in InFlight(outbox[c]) : FrameOK(view[c], f)
    /\ c \notin torn => \A x \in Coins : view[c].buffers[x].of \subseteq {x}

-----------------------------------------------------------------------------
\* f, or the store v, has what the server has.
FrameAgrees(f) ==
    /\ f.acct = current.acct /\ f.lists = current.lists /\ f.book = current.book
    /\ f.gen = current.gen /\ f.sel = current.sel
ViewAgrees(v) ==
    /\ v.acct = current.acct /\ v.lists = current.lists /\ v.book = current.book
    /\ v.gen = current.gen
    /\ current.sel # NoCoin => v.active = current.sel

\* The last frame queued, or else the store, is what the server has.
Latest(c) ==
    IF outbox[c].busy
    THEN /\ FrameAgrees(outbox[c].queue[Len(outbox[c].queue)]) /\ view[c].gen < current.gen
    ELSE ViewAgrees(view[c])

\* The last full frame queued, if there is one, is the server's last.
FullAt(q, i) == i \in 1..Len(q) /\ q[i].full /\ \A j \in 1..Len(q) : j > i => ~q[j].full
LatestFull(c) ==
    LET q == outbox[c].queue
    IN  /\ \A i \in 1..Len(q) : FullAt(q, i) =>
              /\ q[i].heavy = current.heavy /\ q[i].chart = current.chart
              /\ view[c].gen < q[i].gen
        /\ (\A i \in 1..Len(q) : ~q[i].full) =>
              /\ outbox[c].busy => ~outbox[c].now.full
              /\ view[c].heavy = current.heavy
              /\ c \notin torn /\ current.chart # NoCoin => view[c].chart = {current.chart}

ClientKnows(c) ==
    c \in sessions => /\ c \in updated => Latest(c)
                      /\ c \notin missed => LatestFull(c)

DashInv ==
    /\ BotOK /\ StrandOK /\ ServerOK /\ NetOK /\ TimerRuns
    /\ \A c \in Clients : ClientOK(c) /\ ClientKnows(c)

-----------------------------------------------------------------------------
LEMMA StateIs ==
    ASSUME NEW s \in States
    PROVE  /\ s # NotCasting
           /\ s.full \in BOOLEAN /\ s.acct \in Nat /\ s.lists \in Nat /\ s.sel \in AnyCoin
           /\ s.heavy \in Nat /\ s.chart \in AnyCoin /\ s.book \in AnyCoin
           /\ s.ice \in Nat /\ s.gen \in Nat /\ (s.chart # NoCoin => s.heavy > 0)
<1>1. s \in StateType /\ (s.chart # NoCoin => s.heavy > 0) BY DEF States
<1>2. "acct" \in DOMAIN s BY <1>1 DEF StateType
<1>3. "acct" \notin DOMAIN NotCasting BY DEF NotCasting
<1> QED BY <1>1, <1>2, <1>3 DEF StateType

LEMMA MovedIs ==
    ASSUME NEW s \in States
    PROVE  Moved(s) \in States /\ Moved(s).acct = s.acct /\ Moved(s).heavy = 0
BY DEF Moved, States, StateType, AnyCoin

LEMMA StampedIs ==
    ASSUME NEW s \in States, NEW g \in Nat
    PROVE  LET t == [s EXCEPT !.gen = g]
           IN  t \in States /\ t.gen = g /\ t.acct = s.acct /\ t.heavy = s.heavy
BY DEF States, StateType

LEMMA MergeIs ==
    ASSUME NEW old \in States, NEW s \in States
    PROVE  LET m == Merge(old, s)
           IN  /\ m \in States /\ m.acct = s.acct /\ m.gen = s.gen /\ m.full = s.full
               /\ m.heavy = (IF s.full THEN s.heavy ELSE old.heavy)
               /\ m.chart = (IF s.full THEN s.chart ELSE old.chart)
<1>1. CASE s.full BY <1>1 DEF Merge
<1>2. CASE ~s.full
  <2>1. Merge(old, s) = [old EXCEPT !.full = FALSE, !.gen = s.gen, !.acct = s.acct,
                            !.lists = s.lists, !.sel = s.sel, !.book = s.book]
    BY <1>2 DEF Merge
  <2>2. s.full = FALSE BY <1>2 DEF States, StateType
  <2> QED BY <1>2, <2>1, <2>2 DEF States, StateType
<1> QED BY <1>1, <1>2

LEMMA FrameIs ==
    ASSUME NEW s \in States, NEW c \in Clients, view[c].format \in {"binary", "json"}
    PROVE  LET f == Frame(c, s)
           IN  /\ f \in Frames /\ f.full = s.full /\ f.acct = s.acct /\ f.lists = s.lists
               /\ f.sel = s.sel /\ f.book = s.book /\ f.gen = s.gen
               /\ f.full => f.heavy = s.heavy /\ f.chart = s.chart
               /\ ~f.full /\ view[c].format = "json" => f.heavy = Absent
BY DEF Frame, SerializeBinary, SerializeJson, Carried, States, StateType, Frames, FrameType,
       AnyCoin, Absent

-----------------------------------------------------------------------------
(* Queues. *)

LEMMA QueuedIs ==
    ASSUME NEW q \in Seq(Frames), NEW f \in Frames
    PROVE  LET r == Queued(q, f)
           IN  /\ r \in Seq(Frames) /\ r # <<>>
               /\ Len(r) = (IF Len(q) >= QueueCap THEN Len(q) ELSE Len(q) + 1)
               /\ r[Len(r)] = f
               /\ \A i \in 1..(Len(r) - 1) :
                     r[i] = q[IF Len(q) >= QueueCap THEN i + 1 ELSE i]
<1> USE DashAssumption
<1>1. CASE Len(q) >= QueueCap
  <2>1. q # <<>> BY <1>1, EmptySeq
  <2>2. /\ Tail(q) \in Seq(Frames) /\ Len(Tail(q)) = Len(q) - 1
        /\ \A i \in 1..Len(Tail(q)) : Tail(q)[i] = q[i + 1]
    BY <2>1, HeadTailProperties
  <2>3. Queued(q, f) = Append(Tail(q), f) BY <1>1 DEF Queued
  <2> QED BY <1>1, <2>2, <2>3, AppendProperties
<1>2. CASE ~(Len(q) >= QueueCap)
  <2>1. Queued(q, f) = Append(q, f) BY <1>2 DEF Queued
  <2> QED BY <1>2, <2>1, AppendProperties
<1> QED BY <1>1, <1>2

LEMMA PutIs ==
    ASSUME NEW o \in Boxes, BoxOK(o), NEW f \in Frames, \A g \in InFlight(o) : After(g, f)
    PROVE  LET p == Put(o, f)
           IN  /\ p \in Boxes /\ BoxOK(p) /\ p.busy
               /\ InFlight(p) \subseteq InFlight(o) \union {f}
               /\ Len(p.queue) >= 1 /\ p.queue[Len(p.queue)] = f
               /\ \A i \in 1..(Len(p.queue) - 1) : \E k \in 1..Len(o.queue) :
                     p.queue[i] = o.queue[k]
               /\ Len(p.queue) = (IF Len(o.queue) >= QueueCap THEN Len(o.queue)
                                  ELSE Len(o.queue) + 1)
               /\ \A i \in 1..(Len(p.queue) - 1) :
                     p.queue[i] = o.queue[IF Len(o.queue) >= QueueCap THEN i + 1 ELSE i]
               /\ p.now = (IF o.busy THEN o.now ELSE f)
<1> DEFINE q == o.queue
<1> DEFINE r == Queued(q, f)
<1> DEFINE p == Put(o, f)
<1>0. /\ q \in Seq(Frames) /\ Len(q) \in Nat /\ o.busy \in BOOLEAN /\ o.freed \in BOOLEAN
      /\ o.now \in Frames \union {Nothing}
  BY DEF Boxes
<1>1. /\ r \in Seq(Frames) /\ r # <<>> /\ Len(r) \in Nat
      /\ Len(r) = (IF Len(q) >= QueueCap THEN Len(q) ELSE Len(q) + 1)
      /\ r[Len(r)] = f
      /\ \A i \in 1..(Len(r) - 1) : r[i] = q[IF Len(q) >= QueueCap THEN i + 1 ELSE i]
  <2> HIDE DEF q
  <2>1. /\ r \in Seq(Frames) /\ r # <<>>
        /\ Len(r) = (IF Len(q) >= QueueCap THEN Len(q) ELSE Len(q) + 1)
        /\ r[Len(r)] = f
        /\ \A i \in 1..(Len(r) - 1) : r[i] = q[IF Len(q) >= QueueCap THEN i + 1 ELSE i]
    BY <1>0, QueuedIs
  <2> HIDE DEF r
  <2>2. Len(r) \in Nat BY <2>1
  <2> QED BY <2>1, <2>2
<1>2. /\ p.queue = r /\ p.busy = TRUE /\ p.now = (IF o.busy THEN o.now ELSE Head(r))
      /\ p.freed = (o.freed \/ (o.busy /\ Len(q) >= QueueCap))
  BY DEF Put
<1>3. o.busy <=> Len(q) > 0 BY <1>0, EmptySeq DEF BoxOK
<1>4. QueueCap \in Nat /\ QueueCap >= 2 BY DashAssumption
<1>5. ~o.busy => Len(r) = 1 /\ Head(r) = f
  <2>1. ASSUME ~o.busy PROVE Len(r) = 1 BY <1>0, <1>1, <1>3, <1>4, <2>1
  <2>2. r # <<>> => Head(r) = r[1] OBVIOUS
  <2> HIDE DEF r
  <2> QED BY <1>1, <2>1, <2>2
<1>6. p \in Boxes
  <2>1. (IF o.busy THEN o.now ELSE Head(r)) \in Frames \union {Nothing} BY <1>0, <1>5
  <2>2. (o.freed \/ (o.busy /\ Len(q) >= QueueCap)) \in BOOLEAN OBVIOUS
  <2>3. PICK v \in BOOLEAN : v = (o.freed \/ (o.busy /\ Len(q) >= QueueCap)) BY <2>2
  <2>4. p = [queue |-> r, busy |-> TRUE, now |-> IF o.busy THEN o.now ELSE Head(r), freed |-> v]
    BY <2>3 DEF Put
  <2> HIDE DEF p, r, q
  <2> QED BY <1>1, <2>1, <2>3, <2>4 DEF Boxes
<1> HIDE DEF p, r
<1>7. \A i \in 1..(Len(r) - 1) : \E k \in 1..Len(q) : r[i] = q[k]
  <2> SUFFICES ASSUME NEW i \in 1..(Len(r) - 1) PROVE \E k \in 1..Len(q) : r[i] = q[k]
    OBVIOUS
  <2> DEFINE k == IF Len(q) >= QueueCap THEN i + 1 ELSE i
  <2>1. k \in 1..Len(q) /\ r[i] = q[k] BY <1>0, <1>1
  <2> QED BY <2>1
<1>8. \A k \in 1..Len(q) : q[k] \in InFlight(o) BY DEF InFlight
<1>9. o.busy => o.now \in InFlight(o) BY DEF InFlight
<1>10. InFlight(p) \subseteq InFlight(o) \union {f}
  <2>1. ASSUME NEW i \in 1..Len(r) PROVE r[i] \in InFlight(o) \union {f}
    <3>1. CASE i = Len(r) BY <1>1, <3>1
    <3>2. CASE i # Len(r)
      <4>1. i \in 1..(Len(r) - 1) BY <1>1, <3>2
      <4> QED BY <1>7, <1>8, <4>1
    <3> QED BY <3>1, <3>2
  <2>2. p.now \in InFlight(o) \union {f} BY <1>2, <1>5, <1>9
  <2> QED BY <1>2, <2>1, <2>2 DEF InFlight
<1>11. BoxOK(p)
  <2>1. p.busy <=> p.queue # <<>> BY <1>1, <1>2
  <2>2. p.now \in Frames BY <1>2, <1>5 DEF BoxOK
  <2>3. ASSUME ~p.freed PROVE p.now = p.queue[1]
    <3>1. CASE o.busy
      <4>1. ~(Len(q) >= QueueCap) /\ ~o.freed BY <1>2, <2>3, <3>1
      <4>2. 1 \in 1..(Len(r) - 1) BY <1>0, <1>1, <1>3, <3>1, <4>1
      <4>3. r[1] = q[1] BY <1>1, <4>1, <4>2
      <4>4. o.now = q[1] BY <3>1, <4>1 DEF BoxOK
      <4> QED BY <1>2, <3>1, <4>3, <4>4
    <3>2. CASE ~o.busy BY <1>1, <1>2, <1>5, <3>2
    <3> QED BY <3>1, <3>2
  <2>4. ASSUME p.freed PROVE Len(p.queue) >= 2
    <3>1. CASE o.freed
      <4>1. Len(q) >= 2 BY <3>1 DEF BoxOK
      <4> QED BY <1>0, <1>1, <1>2, <4>1
    <3>2. CASE o.busy /\ Len(q) >= QueueCap BY <1>0, <1>1, <1>2, <1>4, <3>2
    <3> QED BY <1>2, <2>4, <3>1, <3>2
  <2>5. ASSUME NEW i \in 1..Len(r), NEW j \in 1..Len(r), i < j PROVE After(r[i], r[j])
    <3>1. i \in 1..(Len(r) - 1) BY <1>1, <2>5
    <3>2. CASE j = Len(r) BY <1>1, <1>7, <1>8, <3>1, <3>2
    <3>3. CASE j # Len(r)
      <4> DEFINE k(n) == IF Len(q) >= QueueCap THEN n + 1 ELSE n
      <4>1. j \in 1..(Len(r) - 1) BY <1>1, <3>3
      <4>2. r[i] = q[k(i)] /\ r[j] = q[k(j)] BY <1>1, <3>1, <4>1
      <4>3. k(i) \in 1..Len(q) /\ k(j) \in 1..Len(q) /\ k(i) < k(j)
        BY <1>0, <1>1, <2>5, <3>1, <4>1
      <4> HIDE DEF k
      <4>4. After(q[k(i)], q[k(j)]) BY <4>3 DEF BoxOK
      <4> QED BY <4>2, <4>4
    <3> QED BY <3>2, <3>3
  <2>6. ASSUME p.freed, NEW i \in 1..Len(r) PROVE After(p.now, r[i])
    <3>1. o.busy /\ p.now = o.now BY <1>2, <2>6 DEF BoxOK
    <3>2. CASE i = Len(r) BY <1>1, <1>9, <3>1, <3>2
    <3>3. CASE i # Len(r)
      <4>1. i \in 1..(Len(r) - 1) BY <1>1, <3>3
      <4>2. CASE o.freed BY <1>7, <3>1, <4>1, <4>2 DEF BoxOK
      <4>3. CASE ~o.freed
        <5>1. Len(q) >= QueueCap BY <1>2, <2>6, <4>3
        <5>4. r[i] = q[i + 1] BY <1>1, <4>1, <5>1
        <5>5. i + 1 \in 1..Len(q) BY <1>0, <1>1, <4>1, <5>1
        <5>2. r[i] = q[i + 1] /\ i + 1 \in 1..Len(q) BY <5>4, <5>5
        <5>3. o.now = q[1] /\ 1 \in 1..Len(q) /\ 1 < i + 1
          BY <1>0, <1>3, <3>1, <4>1, <4>3 DEF BoxOK
        <5> QED BY <3>1, <5>2, <5>3 DEF BoxOK
      <4> QED BY <4>2, <4>3
    <3> QED BY <3>2, <3>3
  <2> QED BY <1>2, <2>1, <2>2, <2>3, <2>4, <2>5, <2>6 DEF BoxOK
<1>12. p.busy /\ p.now = (IF o.busy THEN o.now ELSE f) BY <1>2, <1>5
<1>13. /\ Len(p.queue) >= 1 /\ p.queue[Len(p.queue)] = f
       /\ Len(p.queue) = (IF Len(q) >= QueueCap THEN Len(q) ELSE Len(q) + 1)
       /\ \A i \in 1..(Len(p.queue) - 1) :
             p.queue[i] = q[IF Len(q) >= QueueCap THEN i + 1 ELSE i]
  <2>1. Len(r) >= 1 BY <1>0, <1>1, <1>4
  <2> QED BY <1>1, <1>2, <2>1
<1>14. \A i \in 1..(Len(p.queue) - 1) : \E k \in 1..Len(q) : p.queue[i] = q[k]
  BY <1>2, <1>7
<1> QED BY <1>6, <1>10, <1>11, <1>12, <1>13, <1>14 DEF p

LEMMA WroteIs ==
    ASSUME NEW o \in Boxes, BoxOK(o), o.busy
    PROVE  LET w == Wrote(o)
           IN  /\ w \in Boxes /\ BoxOK(w) /\ ~w.freed
               /\ Len(o.queue) >= 1 /\ Len(w.queue) = Len(o.queue) - 1
               /\ \A i \in 1..Len(w.queue) : w.queue[i] = o.queue[i + 1]
               /\ w.busy => Len(o.queue) > 1
               /\ ~w.busy => Len(o.queue) = 1
               /\ InFlight(w) \subseteq InFlight(o)
               /\ \A g \in InFlight(w) : After(o.now, g)
<1> DEFINE q == o.queue
<1> DEFINE rest == Tail(q)
<1> DEFINE w == Wrote(o)
<1>1. q \in Seq(Frames) /\ Len(q) \in Nat /\ q # <<>> BY DEF Boxes, BoxOK
<1>2. /\ rest \in Seq(Frames) /\ Len(rest) = Len(q) - 1 /\ Len(rest) \in Nat
      /\ \A i \in 1..Len(rest) : rest[i] = q[i + 1]
  BY <1>1, HeadTailProperties
<1>3. rest = <<>> <=> Len(rest) = 0 BY <1>2, EmptySeq
<1>4. rest # <<>> => Head(rest) = rest[1] OBVIOUS
<1>5. /\ w.queue = rest /\ (w.busy <=> rest # <<>>) /\ w.freed = FALSE
      /\ w.now = IF rest = <<>> THEN Nothing ELSE Head(rest)
  BY DEF Wrote
<1>6. w \in Boxes
  <2>1. PICK v \in BOOLEAN : v = (rest # <<>>) OBVIOUS
  <2>4. (IF rest = <<>> THEN Nothing ELSE Head(rest)) \in Frames \union {Nothing}
    <3>1. CASE rest = <<>> BY <3>1
    <3>2. CASE rest # <<>>
      <4>1. rest \in Seq(Frames) BY <1>2
      <4> HIDE DEF rest
      <4>2. Head(rest) \in Frames BY <3>2, <4>1
      <4> QED BY <3>2, <4>2
    <3> QED BY <3>1, <3>2
  <2>2. PICK n \in Frames \union {Nothing} : n = IF rest = <<>> THEN Nothing ELSE Head(rest)
    BY <2>4
  <2>3. w = [queue |-> rest, busy |-> v, freed |-> FALSE, now |-> n] BY <2>1, <2>2 DEF Wrote
  <2> HIDE DEF w, rest
  <2> QED BY <1>2, <2>3 DEF Boxes
<1> HIDE DEF w, rest
<1>7. ASSUME NEW i \in 1..Len(rest) PROVE rest[i] \in InFlight(o) /\ After(o.now, rest[i])
  <2>1. i + 1 \in 1..Len(q) /\ 1 \in 1..Len(q) /\ 1 < i + 1 BY <1>1, <1>2
  <2>2. q[i + 1] \in InFlight(o) BY <2>1 DEF InFlight
  <2>3. After(o.now, q[i + 1])
    <3>1. CASE o.freed BY <2>1, <3>1 DEF BoxOK
    <3>2. CASE ~o.freed
      <4>1. o.now = q[1] BY <3>2 DEF BoxOK
      <4> QED BY <2>1, <4>1 DEF BoxOK
    <3> QED BY <3>1, <3>2
  <2> QED BY <1>2, <2>2, <2>3
<1>8. ASSUME w.busy PROVE w.now = rest[1] /\ 1 \in 1..Len(rest)
  BY <1>2, <1>3, <1>4, <1>5, <1>8
<1>9. \A g \in InFlight(w) : g \in InFlight(o) /\ After(o.now, g)
  BY <1>5, <1>7, <1>8 DEF InFlight
<1>10. BoxOK(w)
  <2>1. \A i \in 1..Len(rest) : rest[i] \in Frames BY <1>2
  <2>2. ASSUME NEW i \in 1..Len(rest), NEW j \in 1..Len(rest), i < j
        PROVE  After(rest[i], rest[j])
    <3>1. i + 1 \in 1..Len(q) /\ j + 1 \in 1..Len(q) /\ i + 1 < j + 1 BY <1>1, <1>2, <2>2
    <3>2. After(q[i + 1], q[j + 1]) BY <3>1 DEF BoxOK
    <3> QED BY <1>2, <3>2
  <2> QED BY <1>5, <1>8, <2>1, <2>2 DEF BoxOK
<1>11. Len(q) >= 1 /\ (w.busy => Len(q) > 1) /\ (~w.busy => Len(q) = 1)
  BY <1>1, <1>2, <1>3, <1>5, EmptySeq
<1> QED BY <1>2, <1>5, <1>6, <1>9, <1>10, <1>11 DEF w

-----------------------------------------------------------------------------
(* Steps that neither queue nor deliver a frame. *)

Grown == tally' \in [{"picks", "icebergs", "drops"} -> Nat] /\ tally'.icebergs >= tally.icebergs

UpStays == \A h \in Nat : HeavyUp(h) => HeavyUp(h)'

\* What the frames on their way are compared with is the same.
ServerStays ==
    /\ current'.acct = current.acct /\ current'.gen = current.gen
    /\ current'.heavy = current.heavy /\ current'.chart = current.chart
    /\ \/ updated' = {}
       \/ /\ current'.lists = current.lists /\ current'.book = current.book
          /\ current'.sel = current.sel

\* What of a store is compared with the server, but for what a pick changes.
ViewSame(w, v) ==
    /\ w.format = v.format /\ w.acct = v.acct /\ w.gen = v.gen /\ w.heavy = v.heavy
    /\ w.chart = v.chart /\ w.buffers = v.buffers
    /\ w = v \/ updated' = {}

\* Nobody is told to be up to date who was not.
ClientSame(c) ==
    /\ outbox'[c] = outbox[c] /\ ViewSame(view'[c], view[c]) /\ (c \in torn' <=> c \in torn)
    /\ link'[c] # "open" => link[c] # "open"
    /\ c \in sessions' => /\ c \in updated' => c \in updated /\ c \in sessions
                          /\ c \notin missed' => c \notin missed /\ c \in sessions
ClientsSame == \A c \in Clients : ClientSame(c)

LEMMA ClientTypes ==
    ASSUME NetOK, NEW c \in Clients
    PROVE  /\ view[c] \in Views /\ view[c].heavy \in Nat /\ view[c].acct \in Nat
           /\ view[c].gen \in Int /\ outbox[c] \in Boxes
           /\ outbox[c].queue \in Seq(Frames) /\ Len(outbox[c].queue) \in Nat
           /\ BoxOK(outbox[c]) => InFlight(outbox[c]) \subseteq Frames
           /\ view[c].format \in {"binary", "json"}
BY DEF NetOK, Views, Boxes, BoxOK, InFlight

LEMMA FollowsStays ==
    ASSUME Grown, tally.icebergs \in Nat, NEW a, NEW b, Follows(a, b) PROVE Follows(a, b)'
BY DEF Grown, Follows

LEMMA ViewStays ==
    ASSUME DashInv, Grown, UpStays, ServerStays, NEW c \in Clients,
           ViewSame(view'[c], view[c])
    PROVE  ViewOK(view[c])'
<1> DEFINE v == view[c]
<1>1. ViewOK(v) /\ v.heavy \in Nat /\ tally.icebergs \in Nat
  BY ClientTypes DEF DashInv, BotOK, ClientOK
<1>2. HeavyUp(v.heavy)'
  <2>1. PICK h \in Nat : h = v.heavy BY <1>1
  <2>2. HeavyUp(h) BY <1>1, <2>1 DEF ViewOK
  <2>3. HeavyUp(h)' BY <2>2 DEF UpStays
  <2>4. view'[c].heavy = h BY <2>1 DEF ViewSame
  <2> QED BY <2>3, <2>4 DEF HeavyUp, HeavyLeft, Follows, Kept, DashFree, NotCasting
<1>3. Follows(v.heavy, current.heavy)'
  BY <1>1, FollowsStays DEF ViewOK, ViewSame, ServerStays, Follows, Grown
<1> QED BY <1>1, <1>2, <1>3 DEF ViewOK, ViewSame, ServerStays

LEMMA ClientStays ==
    ASSUME DashInv, Grown, UpStays, ServerStays, NEW c \in Clients, ClientSame(c)
    PROVE  ClientOK(c)' /\ ClientKnows(c)'
<1> DEFINE o == outbox[c]
<1> DEFINE v == view[c]
<1>1. ClientOK(c) /\ ClientKnows(c) /\ NetOK /\ tally.icebergs \in Nat
  BY DEF DashInv, BotOK
<1>2. outbox'[c] = o /\ ViewSame(view'[c], v) BY DEF ClientSame
<1>3. v \in Views /\ v.heavy \in Nat /\ o \in Boxes /\ InFlight(o) \subseteq Frames
  BY <1>1, ClientTypes DEF ClientOK
<1>4. \A a, b : Follows(a, b) => Follows(a, b)' BY <1>1, FollowsStays
<1>5. BoxOK(o)'
  <2>1. \A f, g : After(f, g) => After(f, g)' BY <1>4 DEF After, Follows
  <2> QED BY <1>1, <1>2, <2>1 DEF ClientOK, BoxOK, After, Follows
<1>6. ViewOK(v)' BY <1>2, ViewStays
<1>7. ASSUME NEW f \in InFlight(o) PROVE FrameOK(v, f)'
  <2>1. FrameOK(v, f) /\ f \in Frames BY <1>1, <1>3 DEF ClientOK
  <2>2. f.full => HeavyUp(f.heavy)'
    <3> SUFFICES ASSUME f.full PROVE HeavyUp(f.heavy)' OBVIOUS
    <3>1. f.heavy \in Nat BY <2>1 DEF Frames
    <3>2. HeavyUp(f.heavy) BY <2>1 DEF FrameOK
    <3> QED BY <3>1, <3>2 DEF UpStays
  <2> QED BY <1>2, <1>4, <2>1, <2>2 DEF FrameOK, ViewSame, ServerStays, Follows
<1>8. ClientOK(c)'
  <2>1. InFlight(o)' = InFlight(o) BY <1>2 DEF InFlight
  <2>2. link'[c] # "open" => o.queue = <<>> BY <1>1 DEF ClientOK, ClientSame
  <2>3. c \notin torn' => \A x \in Coins : v.buffers[x].of \subseteq {x}
    BY <1>1 DEF ClientOK, ClientSame
  <2> QED BY <1>2, <1>5, <1>6, <1>7, <2>1, <2>2, <2>3 DEF ClientOK, ViewSame
<1>9. ASSUME c \in sessions', c \in updated' PROVE Latest(c)'
  <2>1. Latest(c) BY <1>1, <1>9 DEF ClientSame, ClientKnows
  <2>2. updated' # {} BY <1>9
  <2>3. view'[c] = v BY <1>2, <2>2 DEF ViewSame
  <2> QED BY <1>2, <2>1, <2>2, <2>3 DEF Latest, FrameAgrees, ViewAgrees, ServerStays
<1>10. ASSUME c \in sessions', c \notin missed' PROVE LatestFull(c)'
  <2>1. LatestFull(c) BY <1>1, <1>10 DEF ClientSame, ClientKnows
  <2>2. c \in torn' <=> c \in torn BY DEF ClientSame
  <2> QED BY <1>2, <2>1, <2>2 DEF LatestFull, FullAt, ServerStays, ViewSame
<1> QED BY <1>8, <1>9, <1>10 DEF ClientKnows

Back == BotOK /\ StrandOK /\ ServerOK /\ NetOK /\ TimerRuns

LEMMA BackKeeps ==
    ASSUME DashInv, Back', Grown, UpStays, ServerStays, ClientsSame PROVE DashInv'
BY ClientStays DEF DashInv, Back, ClientsSame

LEMMA TallySame == ASSUME BotOK, UNCHANGED tally PROVE Grown
BY DEF BotOK, Grown

LEMMA OnceGrows ==
    ASSUME BotOK, NEW k \in {"picks", "icebergs", "drops"}, NEW limit, Once(k, limit)
    PROVE  Grown /\ (k = "icebergs" => tally'.icebergs > 0)
<1>1. tally \in [{"picks", "icebergs", "drops"} -> Nat] /\ tally' = [tally EXCEPT ![k] = @ + 1]
  BY DEF BotOK, Once
<1> QED BY <1>1 DEF Grown

LEMMA NetSame ==
    ASSUME NetOK, UNCHANGED <<sessions, ghosts, link, outbox, view, updated, missed, torn>>
    PROVE  NetOK' /\ ClientsSame
BY DEF NetOK, ClientsSame, ClientSame, ViewSame

LEMMA TickStartsKeeps == ASSUME DashInv, TickStarts PROVE DashInv'
<1> USE DEF DashInv
<1>1. /\ tick.n \in Nat /\ tick'.n = tick.n + 1 /\ cache' = cache
      /\ tick' \in [pc : {"rest", "rebuild", "send"}, full : BOOLEAN, n : Nat]
      /\ UNCHANGED <<selected, requests, tally, serverVars, netVars, histVars>>
  BY DEF BotOK, TickStarts
<1>2. /\ UNCHANGED <<current, pendingState, dirty, waiting, strand, casting>>
      /\ UNCHANGED <<sessions, ghosts, link, outbox, view, updated, missed, torn>>
  BY <1>1 DEF serverVars, netVars, histVars
<1>3. BotOK' BY <1>1 DEF BotOK
<1>4. StrandOK'
  <2>1. \A i \in 1..Len(strand) : Kept(i) =>
            strand[i].state.acct \in Nat /\ strand[i].state.acct <= tick.n
    <3> SUFFICES ASSUME NEW i \in 1..Len(strand), Kept(i)
                 PROVE  strand[i].state.acct \in Nat /\ strand[i].state.acct <= tick.n
      OBVIOUS
    <3>1. strand[i] \in Jobs BY DEF StrandOK
    <3>2. strand[i].state \in States BY <3>1 DEF Kept, Jobs
    <3> QED BY <3>2, StateIs DEF StrandOK
  <2> QED BY <1>1, <1>2, <2>1 DEF StrandOK, Kept
<1>5. ServerOK'
  <2>1. pendingState.acct \in Nat BY StateIs DEF ServerOK
  <2> QED BY <1>1, <1>2, <2>1 DEF ServerOK, HeavyUp, HeavyLeft, Follows, Kept, DashFree
<1>6. NetOK' /\ ClientsSame BY <1>2, NetSame
<1>7. TimerRuns' BY <1>2 DEF TimerRuns, DashFree
<1>8. UpStays BY <1>1, <1>2 DEF UpStays, HeavyUp, HeavyLeft, Follows, Kept, DashFree
<1>9. ServerStays /\ Grown BY <1>1, <1>2, TallySame DEF ServerStays
<1> QED BY <1>3, <1>4, <1>5, <1>6, <1>7, <1>8, <1>9, BackKeeps DEF Back

LEMMA KeptIs ==
    ASSUME StrandOK, NEW i \in 1..Len(strand), Kept(i)
    PROVE  strand[i].state \in States /\ strand[i].state.acct \in Nat
           /\ strand[i].state.heavy \in Nat
<1>1. strand[i] \in Jobs BY DEF StrandOK
<1>2. strand[i].state \in States BY <1>1 DEF Kept, Jobs
<1> QED BY <1>2, StateIs

LEMMA BuildHeavyKeeps == ASSUME DashInv, BuildHeavy PROVE DashInv'
<1> USE DEF DashInv
<1>1. /\ tick \in [pc : {"rest", "rebuild", "send"}, full : BOOLEAN, n : Nat]
      /\ cache \in [heavy : Nat, chart : AnyCoin, book : AnyCoin] /\ cache.heavy <= tick.n
      /\ selected \in AnyCoin
  BY DEF BotOK
<1>2. /\ tick' = [tick EXCEPT !.pc = "send"]
      /\ cache' = [heavy |-> tick.n,
                   chart |-> IF Shown \in Controlled THEN Shown ELSE cache.chart,
                   book  |-> IF Shown \in Controlled THEN Shown ELSE cache.book]
      /\ UNCHANGED <<selected, requests, tally, serverVars, netVars, histVars>>
  BY DEF BuildHeavy
<1>3. /\ UNCHANGED <<current, pendingState, dirty, waiting, strand, casting>>
      /\ UNCHANGED <<sessions, ghosts, link, outbox, view, updated, missed, torn>>
  BY <1>2 DEF serverVars, netVars, histVars
<1>4. Shown \in AnyCoin /\ Controlled \subseteq AnyCoin
  BY <1>1, DashAssumption DEF Shown, AnyCoin
<1>5. /\ tick' \in [pc : {"rest", "rebuild", "send"}, full : BOOLEAN, n : Nat]
      /\ tick'.n = tick.n
  BY <1>1, <1>2
<1>6. /\ cache' \in [heavy : Nat, chart : AnyCoin, book : AnyCoin]
      /\ cache'.heavy = tick.n /\ cache.heavy <= cache'.heavy
  BY <1>1, <1>2, <1>4
<1>7. BotOK'
  <2>1. cache'.heavy > 0 BY <1>6 DEF BuildHeavy, BotOK
  <2> QED BY <1>1, <1>2, <1>5, <1>6, <2>1 DEF BotOK
<1>8. StrandOK'
  <2>1. \A i \in 1..Len(strand) : Kept(i) =>
            strand[i].state.heavy \in Nat /\ strand[i].state.heavy <= cache.heavy
    BY KeptIs DEF StrandOK
  <2> QED BY <1>1, <1>3, <1>5, <1>6, <2>1 DEF StrandOK, Kept
<1>9. UpStays BY <1>1, <1>2, <1>3, <1>6 DEF UpStays, HeavyUp, HeavyLeft, Follows, Kept, DashFree
<1>10. ServerOK'
  <2>1. pendingState.heavy \in Nat /\ current.heavy \in Nat /\ (~DashFree => casting.heavy \in Nat)
    BY StateIs DEF ServerOK
  <2> QED BY <1>1, <1>2, <1>3, <1>5, <1>6, <2>1
          DEF ServerOK, HeavyUp, HeavyLeft, Follows, Kept, DashFree
<1>11. NetOK' /\ ClientsSame BY <1>3, NetSame
<1>12. TimerRuns' BY <1>3 DEF TimerRuns, DashFree
<1>13. ServerStays /\ Grown BY <1>2, <1>3, TallySame DEF ServerStays
<1> QED BY <1>7, <1>8, <1>9, <1>10, <1>11, <1>12, <1>13, BackKeeps DEF Back

LEMMA AppendedJob ==
    ASSUME StrandOK, NEW j \in Jobs, strand' = Append(strand, j)
    PROVE  /\ strand' \in Seq(Jobs) /\ Len(strand) \in Nat /\ Len(strand') = Len(strand) + 1
           /\ strand'[Len(strand')] = j
           /\ \A i \in 1..Len(strand) : strand'[i] = strand[i] /\ Kept(i)' = Kept(i)
           /\ \A i \in 1..Len(strand') : i # Len(strand') => i \in 1..Len(strand)
<1>1. strand \in Seq(Jobs) /\ Len(strand) \in Nat BY DEF StrandOK
<1>2. /\ strand' \in Seq(Jobs) /\ Len(strand') = Len(strand) + 1
      /\ \A i \in 1..Len(strand) : strand'[i] = strand[i]
      /\ strand'[Len(strand) + 1] = j
  BY <1>1, AppendProperties
<1> QED BY <1>1, <1>2 DEF Kept

LEMMA TakenJob ==
    ASSUME StrandOK, strand # <<>>, strand' = Tail(strand)
    PROVE  /\ strand' \in Seq(Jobs) /\ Len(strand) \in Nat /\ Len(strand') = Len(strand) - 1
           /\ Len(strand) >= 1 /\ Head(strand) = strand[1]
           /\ \A i \in 1..Len(strand') :
                 /\ i + 1 \in 1..Len(strand)
                 /\ strand'[i] = strand[i + 1] /\ Kept(i)' = Kept(i + 1)
<1>1. strand \in Seq(Jobs) /\ Len(strand) \in Nat BY DEF StrandOK
<1>2. /\ strand' \in Seq(Jobs) /\ Len(strand') = Len(strand) - 1
      /\ \A i \in 1..Len(strand') : strand'[i] = strand[i + 1]
  BY <1>1, HeadTailProperties
<1>3. Len(strand) >= 1 BY <1>1, EmptySeq
<1> QED BY <1>1, <1>2, <1>3 DEF Kept

\* A handler without a state is posted, or taken: nothing else on the strand changes.
LEMMA NoStatePosted ==
    ASSUME StrandOK, NEW j \in Jobs, j.do # "keep", strand' = Append(strand, j),
           UNCHANGED <<tick, cache, pendingState>>
    PROVE  /\ StrandOK'
           /\ \A h : (\A i \in 1..Len(strand) : Kept(i) => h <= strand[i].state.heavy)
                  => \A i \in 1..Len(strand') : Kept(i)' => h <= strand'[i].state.heavy
<1>1. \A i \in 1..Len(strand') : Kept(i)' => i \in 1..Len(strand) /\ Kept(i)
                                             /\ strand'[i] = strand[i]
  BY AppendedJob DEF Kept
<1>2. strand' \in Seq(Jobs) BY AppendedJob
<1> QED BY <1>1, <1>2 DEF StrandOK

LEMMA NoStateTaken ==
    ASSUME StrandOK, strand # <<>>, strand' = Tail(strand),
           UNCHANGED <<tick, cache, pendingState>>
    PROVE  /\ StrandOK'
           /\ \A h : (\A i \in 1..Len(strand) : Kept(i) => h <= strand[i].state.heavy)
                  => \A i \in 1..Len(strand') : Kept(i)' => h <= strand'[i].state.heavy
<1>1. \A i \in 1..Len(strand') : Kept(i)' => i + 1 \in 1..Len(strand) /\ Kept(i + 1)
                                             /\ strand'[i] = strand[i + 1]
  BY TakenJob
<1>2. strand' \in Seq(Jobs) BY TakenJob
<1>3. \A i, j \in 1..Len(strand') : i < j => i + 1 < j + 1 OBVIOUS
<1> QED BY <1>1, <1>2, <1>3 DEF StrandOK

LEMMA SendKeeps == ASSUME DashInv, Send PROVE DashInv'
<1> USE DEF DashInv
<1> DEFINE j == [do |-> "keep", state |-> NewState]
<1>1. /\ tick' = [tick EXCEPT !.pc = "rest"] /\ strand' = Append(strand, j)
      /\ UNCHANGED <<cache, selected, requests, current, pendingState, dirty, waiting, casting,
                     tally, netVars, histVars>>
  BY DEF Send
<1>2. UNCHANGED <<sessions, ghosts, link, outbox, view, updated, missed, torn>>
  BY <1>1 DEF netVars, histVars
<1>3. /\ tick \in [pc : {"rest", "rebuild", "send"}, full : BOOLEAN, n : Nat]
      /\ cache \in [heavy : Nat, chart : AnyCoin, book : AnyCoin] /\ cache.heavy <= tick.n
      /\ selected \in AnyCoin /\ (cache.chart # NoCoin => cache.heavy > 0)
  BY DEF BotOK
<1>4. tick' \in [pc : {"rest", "rebuild", "send"}, full : BOOLEAN, n : Nat] /\ tick'.n = tick.n
      /\ tick'.pc = "rest"
  BY <1>1, <1>3
<1>5. NewState \in States /\ NewState.acct = tick.n /\ NewState.heavy = cache.heavy
  <2>1. Shown \in AnyCoin BY <1>3, DashAssumption DEF Shown, AnyCoin
  <2> QED BY <1>3, <2>1 DEF NewState, States, StateType, AnyCoin
<1> HIDE DEF NewState
<1>6. j \in Jobs /\ j.do = "keep" /\ j.state = NewState BY <1>5 DEF Jobs
<1> HIDE DEF j
<1>7. /\ strand' \in Seq(Jobs) /\ Len(strand) \in Nat /\ Len(strand') = Len(strand) + 1
      /\ strand'[Len(strand')] = j
      /\ \A i \in 1..Len(strand) : strand'[i] = strand[i] /\ Kept(i)' = Kept(i)
      /\ \A i \in 1..Len(strand') : i # Len(strand') => i \in 1..Len(strand)
  BY <1>1, <1>6, AppendedJob
<1>8. BotOK' BY <1>1, <1>3, <1>4 DEF BotOK
<1>9. StrandOK'
  <2>1. pendingState.acct <= tick.n /\ pendingState.heavy <= cache.heavy BY DEF ServerOK
  <2>2. \A i \in 1..Len(strand) : Kept(i) => strand[i].state.acct <= tick.n
                                          /\ strand[i].state.heavy <= cache.heavy
    BY DEF StrandOK
  <2>3. \A i \in 1..Len(strand') : Kept(i)' =>
           /\ pendingState.acct <= strand'[i].state.acct
           /\ pendingState.heavy <= strand'[i].state.heavy
           /\ strand'[i].state.acct <= tick.n /\ strand'[i].state.heavy <= cache.heavy
    <3> SUFFICES ASSUME NEW i \in 1..Len(strand'), Kept(i)'
                 PROVE  /\ pendingState.acct <= strand'[i].state.acct
                        /\ pendingState.heavy <= strand'[i].state.heavy
                        /\ strand'[i].state.acct <= tick.n
                        /\ strand'[i].state.heavy <= cache.heavy
      OBVIOUS
    <3>1. CASE i = Len(strand') BY <1>3, <1>5, <1>6, <1>7, <2>1, <3>1
    <3>2. CASE i # Len(strand') BY <1>7, <3>2 DEF StrandOK
    <3> QED BY <3>1, <3>2
  <2>4. \A i, k \in 1..Len(strand') : Kept(i)' /\ Kept(k)' /\ i < k =>
           /\ strand'[i].state.acct <= strand'[k].state.acct
           /\ strand'[i].state.heavy <= strand'[k].state.heavy
    <3> SUFFICES ASSUME NEW i \in 1..Len(strand'), NEW k \in 1..Len(strand'), Kept(i)', Kept(k)',
                        i < k
                 PROVE  /\ strand'[i].state.acct <= strand'[k].state.acct
                        /\ strand'[i].state.heavy <= strand'[k].state.heavy
      OBVIOUS
    <3>1. i \in 1..Len(strand) /\ Kept(i) /\ strand'[i] = strand[i] BY <1>7
    <3>2. CASE k = Len(strand') BY <1>5, <1>6, <1>7, <2>2, <3>1, <3>2
    <3>3. CASE k # Len(strand') BY <1>7, <3>1, <3>3 DEF StrandOK
    <3> QED BY <3>2, <3>3
  <2> QED BY <1>1, <1>4, <1>7, <2>3, <2>4 DEF StrandOK
<1>10. \A h : HeavyLeft(h) => HeavyLeft(h)'
  <2> SUFFICES ASSUME NEW h, HeavyLeft(h) PROVE HeavyLeft(h)' OBVIOUS
  <2>1. ASSUME NEW i \in 1..Len(strand'), Kept(i)' PROVE h <= strand'[i].state.heavy
    <3>1. CASE i = Len(strand') BY <1>5, <1>6, <1>7, <3>1 DEF HeavyLeft
    <3>2. CASE i # Len(strand') BY <1>7, <2>1, <3>2 DEF HeavyLeft
    <3> QED BY <3>1, <3>2
  <2> QED BY <1>1, <2>1 DEF HeavyLeft, Follows
<1>11. UpStays BY <1>1, <1>10 DEF UpStays, HeavyUp, DashFree, Follows
<1>12. ServerOK'
  <2>1. HeavyLeft(current.heavy)' /\ (~DashFree => HeavyLeft(casting.heavy)')
    <3>1. HeavyLeft(current.heavy) BY DEF ServerOK, HeavyUp
    <3>2. ~DashFree => HeavyLeft(casting.heavy) BY DEF ServerOK
    <3> QED BY <1>1, <1>10, <3>1, <3>2 DEF HeavyLeft, Follows
  <2> QED BY <1>1, <1>4, <2>1 DEF ServerOK, HeavyUp, DashFree, Follows
<1>13. NetOK' /\ ClientsSame BY <1>2, NetSame
<1>14. TimerRuns' BY <1>1, <1>2, <1>7 DEF TimerRuns, DashFree
<1>15. ServerStays /\ Grown BY <1>1, <1>2, TallySame DEF ServerStays
<1> QED BY <1>8, <1>9, <1>11, <1>12, <1>13, <1>14, <1>15, BackKeeps DEF Back

LEMMA KeepKeeps == ASSUME DashInv, Keep PROVE DashInv'
<1> USE DEF DashInv
<1> DEFINE s == strand[1].state
<1>1. /\ DashFree /\ strand # <<>> /\ strand' = Tail(strand) /\ dirty' = TRUE
      /\ Head(strand).do = "keep" /\ pendingState' = Head(strand).state
      /\ UNCHANGED <<current, waiting, casting, tally, tick, cache, selected, requests>>
      /\ UNCHANGED <<sessions, ghosts, link, outbox, view, updated, missed, torn>>
  BY DEF Keep, botVars, netVars, histVars
<1>2. /\ strand' \in Seq(Jobs) /\ Len(strand) \in Nat /\ Len(strand') = Len(strand) - 1
      /\ Len(strand) >= 1 /\ Head(strand) = strand[1]
      /\ \A i \in 1..Len(strand') :
            i + 1 \in 1..Len(strand) /\ strand'[i] = strand[i + 1] /\ Kept(i)' = Kept(i + 1)
  BY <1>1, TakenJob
<1>3. 1 \in 1..Len(strand) /\ Kept(1) /\ pendingState' = s BY <1>1, <1>2 DEF Kept
<1>4. s \in States /\ s.acct \in Nat /\ s.heavy \in Nat BY <1>3, KeptIs
<1>5. /\ pendingState.acct <= s.acct /\ pendingState.heavy <= s.heavy
      /\ s.acct <= tick.n /\ s.heavy <= cache.heavy
  BY <1>3 DEF StrandOK
<1>6. ASSUME NEW i \in 1..Len(strand'), Kept(i)'
      PROVE  /\ i + 1 \in 1..Len(strand) /\ Kept(i + 1) /\ strand'[i] = strand[i + 1]
             /\ s.acct <= strand'[i].state.acct /\ s.heavy <= strand'[i].state.heavy
  <2>1. i + 1 \in 1..Len(strand) /\ Kept(i + 1) /\ strand'[i] = strand[i + 1] /\ 1 < i + 1
    BY <1>2, <1>6
  <2>2. s.acct <= strand[i + 1].state.acct /\ s.heavy <= strand[i + 1].state.heavy
    BY <1>3, <2>1 DEF StrandOK
  <2> QED BY <2>1, <2>2
<1> HIDE DEF s
<1>7. StrandOK'
  <2>1. \A i, j \in 1..Len(strand') : i < j => i + 1 < j + 1 OBVIOUS
  <2> QED BY <1>1, <1>2, <1>3, <1>6, <2>1 DEF StrandOK
<1>8. \A h : HeavyLeft(h) => HeavyLeft(h)'
  <2> SUFFICES ASSUME NEW h, HeavyLeft(h) PROVE HeavyLeft(h)' OBVIOUS
  <2>1. \A i \in 1..Len(strand') : Kept(i)' => h <= strand'[i].state.heavy
    BY <1>6 DEF HeavyLeft
  <2>2. h <= s.heavy BY <1>3 DEF HeavyLeft, s
  <2> QED BY <1>1, <1>3, <2>1, <2>2 DEF HeavyLeft, Follows
<1>9. UpStays BY <1>1, <1>8 DEF UpStays, HeavyUp, DashFree
<1>10. ServerOK'
  <2>1. HeavyLeft(current.heavy)'
    <3>1. HeavyLeft(current.heavy) BY DEF ServerOK, HeavyUp
    <3> QED BY <1>1, <1>8, <3>1 DEF HeavyLeft, Follows
  <2>2. pendingState.acct \in Nat /\ current.acct \in Nat BY StateIs DEF ServerOK
  <2> QED BY <1>1, <1>3, <1>4, <1>5, <2>1, <2>2 DEF ServerOK, HeavyUp, DashFree
<1>11. BotOK' BY <1>1 DEF BotOK
<1>12. NetOK' /\ ClientsSame BY <1>1, NetSame
<1>13. TimerRuns'
  <2>1. ASSUME NEW i \in 1..Len(strand), strand[i].do \in {"schedule", "conflate"}
        PROVE  \E k \in 1..Len(strand') : strand'[k].do \in {"schedule", "conflate"}
    <3>1. i # 1 BY <1>1, <1>2, <2>1
    <3>2. i - 1 \in 1..Len(strand') BY <1>2, <3>1
    <3>3. strand'[i - 1] = strand[(i - 1) + 1] /\ (i - 1) + 1 = i BY <1>2, <3>2
    <3> QED BY <2>1, <3>2, <3>3
  <2> QED BY <1>1, <2>1 DEF TimerRuns, DashFree
<1>14. ServerStays /\ Grown BY <1>1, TallySame DEF ServerStays
<1> QED BY <1>7, <1>9, <1>10, <1>11, <1>12, <1>13, <1>14, BackKeeps DEF Back

\* Steps that leave every state where it is.
LEMMA UpSame ==
    ASSUME UNCHANGED <<dirty, pendingState, cache, casting, tally>>,
           \A h : (\A i \in 1..Len(strand) : Kept(i) => h <= strand[i].state.heavy)
                  => \A i \in 1..Len(strand') : Kept(i)' => h <= strand'[i].state.heavy
    PROVE  /\ \A h : HeavyLeft(h) => HeavyLeft(h)'
           /\ UpStays
<1>1. \A h : HeavyLeft(h) => HeavyLeft(h)' BY DEF HeavyLeft, Follows
<1> QED BY <1>1 DEF UpStays, HeavyUp, DashFree, Follows

LEMMA ServerSame ==
    ASSUME DashInv, UNCHANGED <<dirty, pendingState, cache, casting, tally, current>>,
           tick'.n = tick.n, waiting' \in BOOLEAN,
           \A h : (\A i \in 1..Len(strand) : Kept(i) => h <= strand[i].state.heavy)
                  => \A i \in 1..Len(strand') : Kept(i)' => h <= strand'[i].state.heavy
    PROVE  ServerOK' /\ UpStays /\ ServerStays /\ Grown
<1> USE DEF DashInv
<1>1. (\A h : HeavyLeft(h) => HeavyLeft(h)') /\ UpStays BY UpSame
<1>2. HeavyLeft(current.heavy)' /\ (~DashFree => HeavyLeft(casting.heavy)')
  <2>1. HeavyLeft(current.heavy) BY DEF ServerOK, HeavyUp
  <2>2. ~DashFree => HeavyLeft(casting.heavy) BY DEF ServerOK
  <2> QED BY <1>1, <2>1, <2>2 DEF HeavyLeft, Follows
<1>3. ServerOK' BY <1>2 DEF ServerOK, HeavyUp, DashFree, Follows
<1> QED BY <1>1, <1>3, TallySame DEF ServerStays

LEMMA ScheduleKeeps == ASSUME DashInv, Schedule PROVE DashInv'
<1> USE DEF DashInv
<1>1. /\ strand # <<>> /\ strand' = Tail(strand) /\ waiting' = TRUE
      /\ UNCHANGED <<current, pendingState, dirty, casting, tally>>
      /\ UNCHANGED <<tick, cache, selected, requests>>
      /\ UNCHANGED <<sessions, ghosts, link, outbox, view, updated, missed, torn>>
  BY DEF Schedule, botVars, netVars, histVars
<1>2. /\ StrandOK'
      /\ \A h : (\A i \in 1..Len(strand) : Kept(i) => h <= strand[i].state.heavy)
                => \A i \in 1..Len(strand') : Kept(i)' => h <= strand'[i].state.heavy
  BY <1>1, NoStateTaken
<1>3. ServerOK' /\ UpStays /\ ServerStays /\ Grown BY <1>1, <1>2, ServerSame
<1>4. BotOK' BY <1>1 DEF BotOK
<1>5. NetOK' /\ ClientsSame BY <1>1, NetSame
<1>6. TimerRuns' BY <1>1 DEF TimerRuns
<1> QED BY <1>2, <1>3, <1>4, <1>5, <1>6, BackKeeps DEF Back

LEMMA TimerEndsKeeps == ASSUME DashInv, TimerEnds PROVE DashInv'
<1> USE DEF DashInv
<1> DEFINE j == [do |-> "conflate", state |-> Nothing]
<1>1. /\ strand' = Append(strand, j) /\ waiting' = FALSE
      /\ UNCHANGED <<current, pendingState, dirty, casting, tally>>
      /\ UNCHANGED <<tick, cache, selected, requests>>
      /\ UNCHANGED <<sessions, ghosts, link, outbox, view, updated, missed, torn>>
  BY DEF TimerEnds, botVars, netVars, histVars
<1>2. j \in Jobs /\ j.do = "conflate" BY DEF Jobs
<1> HIDE DEF j
<1>3. /\ StrandOK'
      /\ \A h : (\A i \in 1..Len(strand) : Kept(i) => h <= strand[i].state.heavy)
                => \A i \in 1..Len(strand') : Kept(i)' => h <= strand'[i].state.heavy
  BY <1>1, <1>2, NoStatePosted
<1>4. ServerOK' /\ UpStays /\ ServerStays /\ Grown BY <1>1, <1>3, ServerSame
<1>5. BotOK' BY <1>1 DEF BotOK
<1>6. NetOK' /\ ClientsSame BY <1>1, NetSame
<1>7. TimerRuns'
  <2>1. strand'[Len(strand')] = j /\ Len(strand') \in 1..Len(strand')
    BY <1>1, <1>2, AppendedJob
  <2>2. strand'[Len(strand')].do \in {"schedule", "conflate"} BY <1>2, <2>1
  <2> QED BY <2>1, <2>2 DEF TimerRuns
<1> QED BY <1>3, <1>4, <1>5, <1>6, <1>7, BackKeeps DEF Back

LEMMA ConflateKeeps == ASSUME DashInv, Conflate PROVE DashInv'
<1> USE DEF DashInv
<1>1. /\ DashFree /\ strand # <<>> /\ strand' = Tail(strand)
      /\ UNCHANGED <<current, tally>>
      /\ UNCHANGED <<tick, cache, selected, requests>>
      /\ UNCHANGED <<sessions, ghosts, link, outbox, view, updated, missed, torn>>
  BY DEF Conflate, botVars, netVars, histVars
<1>2. BotOK' BY <1>1 DEF BotOK
<1>3. NetOK' /\ ClientsSame BY <1>1, NetSame
<1>4. /\ strand' \in Seq(Jobs)
      /\ \A i \in 1..Len(strand') : Kept(i)' => i + 1 \in 1..Len(strand) /\ Kept(i + 1)
                                             /\ strand'[i] = strand[i + 1]
  BY <1>1, TakenJob
<1>5. CASE dirty
  <2>1. /\ casting' = [pendingState EXCEPT !.gen = current.gen + 1]
        /\ pendingState' = Moved(pendingState) /\ dirty' = FALSE /\ waiting' = waiting
    BY <1>5 DEF Conflate
  <2>2. /\ pendingState \in States /\ current \in States
        /\ pendingState.acct \in Nat /\ pendingState.heavy \in Nat
        /\ current.gen + 1 \in Nat /\ current.acct \in Nat
    BY StateIs DEF ServerOK
  <2>3. /\ casting' \in States /\ casting'.gen = current.gen + 1
        /\ casting'.acct = pendingState.acct /\ casting'.heavy = pendingState.heavy
        /\ casting' # NotCasting
    BY <2>1, <2>2, StampedIs, StateIs
  <2>4. /\ pendingState' \in States /\ pendingState'.acct = pendingState.acct
        /\ pendingState'.heavy = 0
    BY <2>1, <2>2, MovedIs
  <2>5. StrandOK'
    <3>1. ASSUME NEW i \in 1..Len(strand'), Kept(i)'
          PROVE  /\ pendingState'.acct <= strand'[i].state.acct
                 /\ pendingState'.heavy <= strand'[i].state.heavy
                 /\ strand'[i].state.acct <= tick.n /\ strand'[i].state.heavy <= cache.heavy
      <4>1. i + 1 \in 1..Len(strand) /\ Kept(i + 1) /\ strand'[i] = strand[i + 1]
        BY <1>4, <3>1
      <4>2. strand'[i].state.heavy \in Nat BY <4>1, KeptIs
      <4> QED BY <2>4, <4>1, <4>2 DEF StrandOK
    <3>2. \A i, j \in 1..Len(strand') : i < j => i + 1 < j + 1 OBVIOUS
    <3>3. \A i, j \in 1..Len(strand') : Kept(i)' /\ Kept(j)' /\ i < j =>
             /\ strand'[i].state.acct <= strand'[j].state.acct
             /\ strand'[i].state.heavy <= strand'[j].state.heavy
      BY <1>4, <3>2 DEF StrandOK
    <3> QED BY <1>1, <1>4, <3>1, <3>3 DEF StrandOK
  <2>6. \A h : HeavyLeft(h) => HeavyUp(h)'
    <3> SUFFICES ASSUME NEW h, HeavyLeft(h) PROVE HeavyUp(h)' OBVIOUS
    <3>1. \A i \in 1..Len(strand') : Kept(i)' => h <= strand'[i].state.heavy
      BY <1>4 DEF HeavyLeft
    <3>2. Follows(h, pendingState.heavy) /\ h <= cache.heavy BY <1>5 DEF HeavyLeft
    <3> QED BY <1>1, <2>1, <2>3, <3>1, <3>2 DEF HeavyUp, HeavyLeft, Follows
  <2>7. UpStays BY <2>6 DEF UpStays, HeavyUp
  <2>8. ServerOK'
    <3>1. HeavyUp(current.heavy)'
      <4>1. HeavyLeft(current.heavy) BY DEF ServerOK, HeavyUp
      <4> QED BY <1>1, <2>6, <4>1 DEF HeavyUp, HeavyLeft, Follows, DashFree
    <3>2. HeavyLeft(casting.heavy)'
      <4>1. \A i \in 1..Len(strand') : Kept(i)' => pendingState.heavy <= strand'[i].state.heavy
        BY <1>4 DEF StrandOK
      <4>2. pendingState.heavy <= cache.heavy BY DEF ServerOK
      <4> QED BY <1>1, <2>1, <2>3, <4>1, <4>2 DEF HeavyLeft
    <3>3. /\ current.acct <= pendingState.acct /\ pendingState.acct <= tick.n
          /\ 0 <= cache.heavy
      BY <2>2 DEF ServerOK, BotOK
    <3>4. /\ current' \in States /\ pendingState' \in States /\ dirty' = FALSE
          /\ waiting' \in BOOLEAN /\ pendingState'.heavy = 0
      BY <1>1, <2>1, <2>4 DEF ServerOK
    <3>5. /\ pendingState'.acct <= tick'.n /\ pendingState'.heavy <= cache'.heavy
          /\ current'.acct <= pendingState'.acct
      BY <1>1, <2>4, <3>3
    <3>6. /\ casting' \in States /\ casting'.gen = current'.gen + 1
          /\ current'.acct <= casting'.acct /\ casting'.acct <= pendingState'.acct
      BY <1>1, <2>2, <2>3, <2>4, <3>3
    <3> QED BY <3>1, <3>2, <3>4, <3>5, <3>6 DEF ServerOK
  <2>9. TimerRuns' BY <2>3 DEF TimerRuns, DashFree
  <2>10. ServerStays /\ Grown BY <1>1, TallySame DEF ServerStays
  <2> QED BY <1>2, <1>3, <2>5, <2>7, <2>8, <2>9, <2>10, BackKeeps DEF Back
<1>6. CASE ~dirty
  <2>1. /\ waiting' = (sessions # {} \/ ghosts > 0) /\ UNCHANGED <<casting, pendingState, dirty>>
    BY <1>6 DEF Conflate, Reschedule
  <2>2. /\ StrandOK'
        /\ \A h : (\A i \in 1..Len(strand) : Kept(i) => h <= strand[i].state.heavy)
                  => \A i \in 1..Len(strand') : Kept(i)' => h <= strand'[i].state.heavy
    BY <1>1, <2>1, NoStateTaken
  <2>3. waiting' \in BOOLEAN BY <2>1
  <2>4. ServerOK' /\ UpStays /\ ServerStays /\ Grown BY <1>1, <2>1, <2>2, <2>3, ServerSame
  <2>5. TimerRuns' BY <1>1, <2>1 DEF TimerRuns
  <2> QED BY <1>2, <1>3, <2>2, <2>4, <2>5, BackKeeps DEF Back
<1> QED BY <1>5, <1>6

LEMMA PushIcebergKeeps == ASSUME DashInv, PushIceberg PROVE DashInv'
<1> USE DEF DashInv
<1>1. /\ Once("icebergs", MaxIcebergs) /\ dirty' = TRUE
      /\ current' = [current EXCEPT !.ice = @ + 1]
      /\ UNCHANGED <<pendingState, waiting, strand, casting, tick, cache, selected, requests>>
      /\ UNCHANGED <<sessions, ghosts, link, outbox, view, updated, missed, torn>>
  BY DEF PushIceberg, botVars, netVars, histVars
<1>2. Grown /\ tally'.icebergs > 0 BY <1>1, OnceGrows
<1>3. current \in States /\ current.ice \in Nat /\ pendingState.heavy \in Nat
  BY StateIs DEF ServerOK
<1>4. /\ current' \in States /\ current'.acct = current.acct /\ current'.gen = current.gen
      /\ current'.heavy = current.heavy /\ current'.chart = current.chart
      /\ current'.lists = current.lists /\ current'.book = current.book
      /\ current'.sel = current.sel
  BY <1>1, <1>3 DEF States, StateType
<1>5. \A a, b : Follows(a, b) => Follows(a, b)' BY <1>2 DEF Follows
<1>6. ~dirty => \A h : Follows(h, pendingState.heavy)'
  BY <1>1, <1>2 DEF ServerOK, Follows
<1>7. \A h : HeavyLeft(h) => HeavyLeft(h)'
  BY <1>1, <1>5, <1>6 DEF HeavyLeft, Kept, ServerOK, Follows
<1>8. UpStays BY <1>1, <1>5, <1>7 DEF UpStays, HeavyUp, DashFree, Follows
<1>9. ServerOK'
  <2>1. HeavyUp(current.heavy)'
    <3>1. HeavyUp(current.heavy) BY DEF ServerOK
    <3>2. PICK h \in Nat : h = current.heavy BY <1>3, StateIs
    <3>3. HeavyUp(h)' BY <1>8, <3>1, <3>2 DEF UpStays
    <3> QED BY <1>4, <3>2, <3>3 DEF HeavyUp, HeavyLeft, Follows
  <2>2. ~DashFree => HeavyLeft(casting.heavy)'
    <3>1. ~DashFree => HeavyLeft(casting.heavy) BY DEF ServerOK
    <3> QED BY <1>1, <1>7, <3>1 DEF HeavyLeft, Follows
  <2> QED BY <1>1, <1>4, <2>1, <2>2 DEF ServerOK, DashFree
<1>10. BotOK' BY <1>1, <1>2 DEF BotOK, Grown
<1>11. StrandOK' BY <1>1 DEF StrandOK, Kept
<1>12. NetOK' /\ ClientsSame BY <1>1, NetSame
<1>13. TimerRuns' BY <1>1 DEF TimerRuns, DashFree
<1>14. ServerStays BY <1>4 DEF ServerStays
<1> QED BY <1>2, <1>8, <1>9, <1>10, <1>11, <1>12, <1>13, <1>14, BackKeeps DEF Back

LEMMA SelectTickerKeeps == ASSUME DashInv, SelectTicker PROVE DashInv'
<1> USE DEF DashInv
<1>1. /\ requests # <<>> /\ requests' = Tail(requests) /\ selected' = Head(requests)
      /\ current' = [current EXCEPT !.sel = Head(requests)] /\ updated' = {}
      /\ UNCHANGED <<tick, cache, pendingState, dirty, waiting, strand, casting, tally>>
      /\ UNCHANGED <<sessions, ghosts, link, outbox, view, missed, torn>>
  BY DEF SelectTicker, netVars
<1>2. /\ requests \in Seq(Coins) /\ Head(requests) \in Coins /\ Tail(requests) \in Seq(Coins)
  BY <1>1, HeadTailProperties DEF BotOK
<1>3. current \in States BY DEF ServerOK
<1>4. /\ current' \in States /\ current'.acct = current.acct /\ current'.gen = current.gen
      /\ current'.heavy = current.heavy /\ current'.chart = current.chart
  BY <1>1, <1>2, <1>3 DEF States, StateType, AnyCoin
<1>5. \A h : HeavyLeft(h) => HeavyLeft(h)' BY <1>1 DEF HeavyLeft, Kept, Follows
<1>6. UpStays BY <1>1, <1>5 DEF UpStays, HeavyUp, DashFree, Follows
<1>7. ServerOK'
  <2>1. HeavyUp(current.heavy)'
    BY <1>1, <1>4 DEF ServerOK, HeavyUp, HeavyLeft, Follows, Kept, DashFree
  <2>2. ~DashFree => HeavyLeft(casting.heavy)'
    BY <1>1 DEF ServerOK, HeavyLeft, Follows, Kept
  <2> QED BY <1>1, <1>4, <2>1, <2>2 DEF ServerOK, DashFree
<1>8. BotOK' BY <1>1, <1>2 DEF BotOK, AnyCoin
<1>9. StrandOK' BY <1>1 DEF StrandOK, Kept
<1>10. NetOK' BY <1>1 DEF NetOK
<1>11. TimerRuns' BY <1>1 DEF TimerRuns, DashFree
<1>12. ClientsSame /\ ServerStays /\ Grown
  BY <1>1, <1>4, TallySame DEF ClientsSame, ClientSame, ViewSame, ServerStays
<1> QED BY <1>6, <1>7, <1>8, <1>9, <1>10, <1>11, <1>12, BackKeeps DEF Back

LEMMA NoticeKeeps == ASSUME DashInv, Notice PROVE DashInv'
<1> USE DEF DashInv
<1>1. /\ ghosts > 0 /\ ghosts' = ghosts - 1
      /\ UNCHANGED <<link, sessions, outbox, view, tally, tick, cache, selected, requests>>
      /\ UNCHANGED <<current, pendingState, dirty, waiting, strand, casting>>
      /\ UNCHANGED <<updated, missed, torn>>
  BY DEF Notice, botVars, serverVars, histVars
<1>2. ServerOK' /\ UpStays /\ ServerStays /\ Grown
  <2>1. waiting' \in BOOLEAN BY <1>1 DEF ServerOK
  <2> QED BY <1>1, <2>1, ServerSame DEF Kept
<1>3. BotOK' BY <1>1 DEF BotOK
<1>4. StrandOK' BY <1>1 DEF StrandOK, Kept
<1>5. NetOK' BY <1>1 DEF NetOK
<1>6. TimerRuns' BY <1>1 DEF TimerRuns, DashFree
<1>7. ClientsSame BY <1>1 DEF ClientsSame, ClientSame, ViewSame
<1> QED BY <1>2, <1>3, <1>4, <1>5, <1>6, <1>7, BackKeeps DEF Back

LEMMA ConnectKeeps == ASSUME DashInv, NEW c \in Clients, Connect(c) PROVE DashInv'
<1> USE DEF DashInv
<1> DEFINE j == [do |-> "schedule", state |-> Nothing]
<1>1. /\ link[c] = "down" /\ link' = [link EXCEPT ![c] = "accepting"]
      /\ sessions' = sessions \union {c}
      /\ updated' = updated \ {c} /\ missed' = missed \union {c}
      /\ UNCHANGED <<current, pendingState, dirty, waiting, casting, ghosts, outbox, view, tally>>
      /\ UNCHANGED <<torn, tick, cache, selected, requests>>
      /\ strand' = IF sessions = {} /\ ghosts = 0 THEN Append(strand, j) ELSE strand
  BY DEF Connect, botVars
<1>2. j \in Jobs /\ j.do = "schedule" BY DEF Jobs
<1> HIDE DEF j
<1>3. /\ StrandOK'
      /\ \A h : (\A i \in 1..Len(strand) : Kept(i) => h <= strand[i].state.heavy)
                => \A i \in 1..Len(strand') : Kept(i)' => h <= strand'[i].state.heavy
  <2>1. CASE sessions = {} /\ ghosts = 0 BY <1>1, <1>2, <2>1, NoStatePosted
  <2>2. CASE ~(sessions = {} /\ ghosts = 0)
    <3>1. strand' = strand BY <1>1, <2>2
    <3> QED BY <1>1, <3>1 DEF StrandOK, Kept
  <2> QED BY <2>1, <2>2
<1>4. ServerOK' /\ UpStays /\ ServerStays /\ Grown
  <2>1. waiting' \in BOOLEAN BY <1>1 DEF ServerOK
  <2> QED BY <1>1, <1>3, <2>1, ServerSame
<1>5. BotOK' BY <1>1 DEF BotOK
<1>6. NetOK' BY <1>1 DEF NetOK
<1>7. TimerRuns'
  <2>1. CASE sessions = {} /\ ghosts = 0
    <3>1. strand'[Len(strand')] = j /\ Len(strand') \in 1..Len(strand')
      BY <1>1, <1>2, <2>1, AppendedJob
    <3>2. strand'[Len(strand')].do \in {"schedule", "conflate"} BY <1>2, <3>1
    <3> QED BY <3>1, <3>2 DEF TimerRuns
  <2>2. CASE ~(sessions = {} /\ ghosts = 0)
    <3>1. strand' = strand /\ (sessions # {} \/ ghosts > 0) BY <1>1, <2>2 DEF NetOK
    <3> QED BY <1>1, <3>1 DEF TimerRuns, DashFree
  <2> QED BY <2>1, <2>2
<1>8. ClientsSame BY <1>1 DEF ClientsSame, ClientSame, ViewSame, NetOK
<1> QED BY <1>3, <1>4, <1>5, <1>6, <1>7, <1>8, BackKeeps DEF Back

-----------------------------------------------------------------------------
(* A connection breaks, a coin is picked. *)

LEMMA NoOutputIs ==
    /\ NoOutput \in Boxes /\ NoOutput.queue = <<>> /\ NoOutput.busy = FALSE
    /\ BoxOK(NoOutput) /\ InFlight(NoOutput) = {}
<1>1. <<>> \in Seq(Frames) /\ Len(<<>>) = 0 OBVIOUS
<1> QED BY <1>1 DEF NoOutput, Boxes, BoxOK, InFlight

LEMMA BreakKeeps == ASSUME DashInv, NEW c \in Clients, Break(c) PROVE DashInv'
<1> USE DEF DashInv
<1>1. /\ Once("drops", MaxDrops)
      /\ link' = [link EXCEPT ![c] = "down"] /\ outbox' = [outbox EXCEPT ![c] = NoOutput]
      /\ sessions' = sessions \ {c} /\ ghosts' = IF c \in sessions THEN ghosts + 1 ELSE ghosts
      /\ UNCHANGED <<view, tick, cache, selected, requests, updated, missed, torn>>
      /\ UNCHANGED <<current, pendingState, dirty, waiting, strand, casting>>
  BY DEF Break, botVars, serverVars, histVars
<1>2. Grown BY <1>1, OnceGrows
<1>3. \A h : HeavyLeft(h) => HeavyLeft(h)' BY <1>1, <1>2 DEF HeavyLeft, Kept, Follows, BotOK, Grown
<1>4. UpStays BY <1>1, <1>2, <1>3 DEF UpStays, HeavyUp, DashFree, Follows, BotOK, Grown
<1>5. ServerStays BY <1>1 DEF ServerStays
<1>6. BotOK' BY <1>1, <1>2 DEF BotOK, Grown
<1>7. StrandOK' BY <1>1 DEF StrandOK, Kept
<1>8. ServerOK'
  <2>1. HeavyLeft(current.heavy)' /\ (~DashFree => HeavyLeft(casting.heavy)')
    <3>1. HeavyLeft(current.heavy) BY DEF ServerOK, HeavyUp
    <3>2. ~DashFree => HeavyLeft(casting.heavy) BY DEF ServerOK
    <3> QED BY <1>1, <1>3, <3>1, <3>2 DEF HeavyLeft, Follows
  <2>2. ~DashFree => Follows(current.heavy, casting.heavy)'
    BY <1>1, <1>2 DEF ServerOK, HeavyUp, Follows, BotOK, Grown
  <2> QED BY <1>1, <2>1, <2>2 DEF ServerOK, HeavyUp, DashFree
<1>9. NetOK' BY <1>1, NoOutputIs DEF NetOK
<1>10. TimerRuns' BY <1>1 DEF TimerRuns, DashFree, NetOK
<1>11. ASSUME NEW d \in Clients PROVE ClientOK(d)' /\ ClientKnows(d)'
  <2>1. CASE d # c
    <3>1. ClientSame(d) BY <1>1, <2>1 DEF ClientSame, ViewSame, NetOK
    <3> QED BY <1>2, <1>4, <1>5, <3>1, ClientStays
  <2>2. CASE d = c
    <3>1. ViewOK(view[c])' BY <1>1, <1>2, <1>4, <1>5, ViewStays DEF ViewSame
    <3>2. outbox'[c] = NoOutput /\ c \notin sessions' BY <1>1 DEF NetOK
    <3>3. BoxOK(outbox[c])' BY <3>2, NoOutputIs DEF BoxOK, After, Follows, NoOutput
    <3>4. InFlight(outbox[c])' = {} BY <3>2, NoOutputIs DEF InFlight
    <3>5. c \notin torn' => \A x \in Coins : view'[c].buffers[x].of \subseteq {x}
      BY <1>1 DEF ClientOK
    <3> QED BY <2>2, <3>1, <3>2, <3>3, <3>4, <3>5, NoOutputIs DEF ClientOK, ClientKnows
  <2> QED BY <2>1, <2>2
<1> QED BY <1>6, <1>7, <1>8, <1>9, <1>10, <1>11

LEMMA PickedIs ==
    ASSUME NEW v \in Views, NEW coin \in Coins
    PROVE  LET w == [v EXCEPT !.active = coin]
           IN  /\ w \in Views /\ w.format = v.format /\ w.acct = v.acct /\ w.gen = v.gen
               /\ w.heavy = v.heavy /\ w.chart = v.chart /\ w.buffers = v.buffers
BY DEF Views

LEMMA PickCoinKeeps ==
    ASSUME DashInv, NEW c \in Clients, NEW coin \in Coins, PickCoin(c, coin) PROVE DashInv'
<1> USE DEF DashInv
<1> DEFINE w == [view[c] EXCEPT !.active = coin]
<1>1. /\ Once("picks", MaxPicks)
      /\ view' = [view EXCEPT ![c] = w] /\ requests' = Append(requests, coin) /\ updated' = {}
      /\ UNCHANGED <<tick, cache, selected, link, sessions, ghosts, outbox, missed, torn>>
      /\ UNCHANGED <<current, pendingState, dirty, waiting, strand, casting>>
  BY DEF PickCoin, serverVars
<1>2. Grown BY <1>1, OnceGrows
<1>3. \A h : HeavyLeft(h) => HeavyLeft(h)' BY <1>1, <1>2 DEF HeavyLeft, Kept, Follows, BotOK, Grown
<1>4. UpStays BY <1>1, <1>2, <1>3 DEF UpStays, HeavyUp, DashFree, Follows, BotOK, Grown
<1>5. ServerStays BY <1>1 DEF ServerStays
<1>6. /\ w \in Views /\ w.format = view[c].format /\ w.acct = view[c].acct
      /\ w.gen = view[c].gen /\ w.heavy = view[c].heavy /\ w.chart = view[c].chart
      /\ w.buffers = view[c].buffers
  BY ClientTypes, PickedIs
<1> HIDE DEF w
<1>7. BotOK'
  <2>1. requests' \in Seq(Coins) BY <1>1, AppendProperties DEF BotOK
  <2> QED BY <1>1, <1>2, <2>1 DEF BotOK, Grown
<1>8. StrandOK' BY <1>1 DEF StrandOK, Kept
<1>9. ServerOK'
  <2>1. HeavyLeft(current.heavy)' /\ (~DashFree => HeavyLeft(casting.heavy)')
    <3>1. HeavyLeft(current.heavy) BY DEF ServerOK, HeavyUp
    <3>2. ~DashFree => HeavyLeft(casting.heavy) BY DEF ServerOK
    <3> QED BY <1>1, <1>3, <3>1, <3>2 DEF HeavyLeft, Follows
  <2>2. ~DashFree => Follows(current.heavy, casting.heavy)'
    BY <1>1, <1>2 DEF ServerOK, HeavyUp, Follows, BotOK, Grown
  <2> QED BY <1>1, <2>1, <2>2 DEF ServerOK, HeavyUp, DashFree
<1>10. NetOK' BY <1>1, <1>6 DEF NetOK
<1>11. TimerRuns' BY <1>1 DEF TimerRuns, DashFree
<1>12. ClientsSame
  <2> SUFFICES ASSUME NEW d \in Clients PROVE ClientSame(d) BY DEF ClientsSame
  <2>1. ViewSame(view'[d], view[d]) BY <1>1, <1>6 DEF ViewSame, NetOK
  <2> QED BY <1>1, <2>1 DEF ClientSame
<1> QED BY <1>2, <1>4, <1>5, <1>7, <1>8, <1>9, <1>10, <1>11, <1>12, BackKeeps DEF Back

-----------------------------------------------------------------------------
(* Frames are queued. *)

LEMMA AcceptSessionKeeps == ASSUME DashInv, NEW c \in Clients, AcceptSession(c) PROVE DashInv'
<1> USE DEF DashInv
<1> DEFINE o == outbox[c]
<1>1. /\ DashFree /\ link[c] = "accepting" /\ link' = [link EXCEPT ![c] = "open"]
      /\ outbox' = [outbox EXCEPT ![c] = Put(o, Frame(c, current))]
      /\ UNCHANGED <<sessions, ghosts, view, tally, tick, cache, selected, requests>>
      /\ UNCHANGED <<current, pendingState, dirty, waiting, strand, casting>>
      /\ UNCHANGED <<updated, missed, torn>>
  BY DEF AcceptSession, botVars, serverVars, histVars
<1>2. ServerOK' /\ UpStays /\ ServerStays /\ Grown
  <2>1. waiting' \in BOOLEAN BY <1>1 DEF ServerOK
  <2> QED BY <1>1, <2>1, ServerSame DEF Kept
<1>3. BotOK' /\ StrandOK' /\ TimerRuns' BY <1>1 DEF BotOK, StrandOK, Kept, TimerRuns, DashFree
<1>4. /\ o \in Boxes /\ BoxOK(o) /\ o.queue = <<>> /\ view[c] \in Views
      /\ view[c].format \in {"binary", "json"}
  BY <1>1, ClientTypes DEF ClientOK
<1>5. InFlight(o) = {}
  <2>1. Len(o.queue) = 0 /\ ~o.busy BY <1>4 DEF BoxOK
  <2> QED BY <2>1 DEF InFlight
<1>6. current \in States BY DEF ServerOK
<1>7. PICK f \in Frames :
      /\ f = Frame(c, current) /\ f.full = current.full /\ f.acct = current.acct
      /\ f.gen = current.gen
      /\ f.full => f.heavy = current.heavy
      /\ ~f.full /\ view[c].format = "json" => f.heavy = Absent
  BY <1>4, <1>6, FrameIs
<1> DEFINE p == Put(o, f)
<1>8. /\ p \in Boxes /\ BoxOK(p) /\ InFlight(p) \subseteq {f}
      /\ outbox' = [outbox EXCEPT ![c] = p]
  BY <1>1, <1>4, <1>5, <1>7, PutIs
<1> HIDE DEF p
<1>9. NetOK'
  <2>1. c \in sessions => c \notin updated /\ c \in missed BY <1>1 DEF NetOK
  <2> QED BY <1>1, <1>8, <2>1 DEF NetOK
<1>10. ASSUME NEW d \in Clients PROVE ClientOK(d)' /\ ClientKnows(d)'
  <2>1. CASE d # c
    <3>1. ClientSame(d) BY <1>1, <1>8, <2>1 DEF ClientSame, ViewSame, NetOK
    <3> QED BY <1>2, <3>1, ClientStays
  <2>2. CASE d = c
    <3>1. ViewOK(view[c])' BY <1>1, <1>2, ViewStays DEF ViewSame
    <3>2. outbox'[c] = p /\ link'[c] = "open" /\ view'[c] = view[c]
      BY <1>1, <1>8 DEF NetOK
    <3>3. BoxOK(outbox[c])' BY <1>1, <1>8, <3>2 DEF BoxOK, After, Follows
    <3>4. InFlight(outbox[c])' \subseteq {f} BY <1>8, <3>2 DEF InFlight
    <3>5. FrameOK(view[c], f)
      <4>1. HeavyUp(current.heavy) /\ ViewOK(view[c]) BY DEF ServerOK, ClientOK
      <4>2. current.heavy \in Nat /\ current.acct \in Nat /\ current.gen \in Nat
        BY <1>6, StateIs
      <4> QED BY <1>7, <4>1, <4>2 DEF FrameOK, ViewOK, Follows
    <3>6. FrameOK(view[c], f)'
      BY <1>1, <3>2, <3>5 DEF FrameOK, Follows, HeavyUp, HeavyLeft, Kept, DashFree
    <3>7. c \in sessions => c \notin updated /\ c \in missed BY <1>1 DEF NetOK
    <3>8. c \notin torn' => \A x \in Coins : view'[c].buffers[x].of \subseteq {x}
      BY <1>1 DEF ClientOK
    <3>9. ClientOK(c)' BY <3>1, <3>2, <3>3, <3>4, <3>6, <3>8 DEF ClientOK
    <3>10. ClientKnows(c)' BY <1>1, <3>7 DEF ClientKnows
    <3> QED BY <2>2, <3>9, <3>10
  <2> QED BY <2>1, <2>2
<1> QED BY <1>2, <1>3, <1>9, <1>10

\* The server goes on to the state it broadcasts.
Advances ==
    /\ ~DashFree /\ current' = Merge(current, casting) /\ casting' = NotCasting
    /\ UNCHANGED <<pendingState, dirty, strand, cache, tick, tally>>

LEMMA AdvancesIs ==
    ASSUME DashInv, Advances
    PROVE  /\ casting \in States /\ current' \in States
           /\ current'.acct = casting.acct /\ current'.gen = casting.gen
           /\ current'.full = casting.full /\ casting.gen = current.gen + 1
           /\ current'.heavy = (IF casting.full THEN casting.heavy ELSE current.heavy)
           /\ current'.chart = (IF casting.full THEN casting.chart ELSE current.chart)
           /\ current.acct <= casting.acct
           /\ current.acct \in Nat /\ casting.acct \in Nat /\ current.gen \in Nat
           /\ current.heavy \in Nat /\ casting.heavy \in Nat
<1>1. casting \in States /\ current \in States BY DEF DashInv, ServerOK, Advances
<1> QED BY <1>1, StateIs, MergeIs DEF DashInv, ServerOK, Advances

LEMMA AdvancesUp ==
    ASSUME DashInv, Advances, NEW h \in Nat, HeavyUp(h)
    PROVE  HeavyUp(h)' /\ Follows(h, casting.heavy)
<1>1. DashFree' BY DEF Advances, DashFree
<1> QED BY <1>1 DEF HeavyUp, HeavyLeft, Follows, Kept, Advances

LEMMA AdvancesServer ==
    ASSUME DashInv, Advances, waiting' \in BOOLEAN PROVE ServerOK'
<1> USE DEF DashInv
<1>1. DashFree' BY DEF Advances, DashFree
<1>2. HeavyUp(current.heavy)'
  <2>1. CASE casting.full
    <3>1. HeavyLeft(casting.heavy) BY DEF ServerOK, Advances
    <3> QED BY <1>1, <2>1, <3>1, AdvancesIs
            DEF HeavyUp, HeavyLeft, Follows, Kept, Advances
  <2>2. CASE ~casting.full
    <3>1. HeavyUp(current.heavy)
      BY DEF ServerOK
    <3> QED BY <1>1, <2>2, <3>1, AdvancesIs
            DEF HeavyUp, HeavyLeft, Follows, Kept, Advances
  <2> QED BY <2>1, <2>2
<1>3. current'.acct <= pendingState.acct
  BY AdvancesIs DEF ServerOK, Advances
<1> QED BY <1>1, <1>2, <1>3, AdvancesIs DEF ServerOK, Advances

LEMMA AdvancesView ==
    ASSUME DashInv, Advances, NEW c \in Clients, view' = view PROVE ViewOK(view[c])'
<1>1. ViewOK(view[c]) /\ view[c].heavy \in Nat /\ view[c].acct \in Nat /\ view[c].gen \in Int
  BY ClientTypes DEF DashInv, ClientOK
<1>2. PICK h \in Nat : h = view[c].heavy BY <1>1
<1>3. HeavyUp(h)' /\ Follows(h, casting.heavy) BY <1>1, <1>2, AdvancesUp DEF ViewOK
<1>4. HeavyUp(view[c].heavy)' BY <1>2, <1>3 DEF HeavyUp, HeavyLeft, Follows, Kept, DashFree
<1>5. Follows(view[c].heavy, current.heavy)'
  BY <1>1, <1>2, <1>3, AdvancesIs DEF ViewOK, Follows, Advances
<1>6. view[c].acct <= current'.acct /\ view[c].gen <= current'.gen
  BY <1>1, AdvancesIs DEF ViewOK
<1> QED BY <1>1, <1>4, <1>5, <1>6 DEF ViewOK

LEMMA AdvancesFrame ==
    ASSUME DashInv, Advances, NEW c \in Clients, view' = view, NEW f \in InFlight(outbox[c])
    PROVE  FrameOK(view[c], f)'
<1>1. FrameOK(view[c], f) /\ f \in Frames BY ClientTypes DEF DashInv, ClientOK
<1>2. f.acct \in Nat /\ f.gen \in Nat BY <1>1 DEF Frames, FrameType
<1>3. f.acct <= current'.acct /\ f.gen <= current'.gen BY <1>1, <1>2, AdvancesIs DEF FrameOK
<1>4. ASSUME f.full
      PROVE  /\ Follows(f.heavy, current.heavy)' /\ HeavyUp(f.heavy)'
             /\ Follows(view[c].heavy, f.heavy)'
  <2>1. f.heavy \in Nat /\ HeavyUp(f.heavy) BY <1>1, <1>4 DEF Frames, FrameOK
  <2>2. HeavyUp(f.heavy)' /\ Follows(f.heavy, casting.heavy) BY <2>1, AdvancesUp
  <2>3. Follows(f.heavy, current.heavy)'
    BY <1>1, <1>4, <2>2, AdvancesIs DEF FrameOK, Follows, Advances
  <2> QED BY <1>1, <1>4, <2>2, <2>3 DEF FrameOK, Follows, Advances
<1> QED BY <1>1, <1>3, <1>4 DEF FrameOK

\* The frame of a broadcast.
LEMMA NewFrame ==
    ASSUME DashInv, Advances, NEW c \in Clients, view' = view,
           NEW f, f = Frame(c, current')
    PROVE  /\ f \in Frames /\ FrameAgrees(f)' /\ f.full = casting.full
           /\ f.full => f.heavy = current'.heavy /\ f.chart = current'.chart
           /\ view[c].gen < f.gen
           /\ FrameOK(view[c], f)'
           /\ \A g \in InFlight(outbox[c]) : After(g, f)
<1>1. /\ view[c] \in Views /\ view[c].heavy \in Nat /\ view[c].acct \in Nat
      /\ view[c].gen \in Int /\ view[c].format \in {"binary", "json"} /\ ViewOK(view[c])
      /\ InFlight(outbox[c]) \subseteq Frames
  BY ClientTypes DEF DashInv, ClientOK
<1>2. /\ f \in Frames /\ f.full = current'.full /\ f.acct = current'.acct
      /\ f.lists = current'.lists /\ f.sel = current'.sel /\ f.book = current'.book
      /\ f.gen = current'.gen /\ (f.full => f.heavy = current'.heavy /\ f.chart = current'.chart)
      /\ ~f.full /\ view[c].format = "json" => f.heavy = Absent
  <2>1. PICK s \in States : s = current' BY AdvancesIs
  <2>2. LET g == Frame(c, s)
        IN  /\ g \in Frames /\ g.full = s.full /\ g.acct = s.acct /\ g.lists = s.lists
            /\ g.sel = s.sel /\ g.book = s.book /\ g.gen = s.gen
            /\ g.full => g.heavy = s.heavy /\ g.chart = s.chart
            /\ ~g.full /\ view[c].format = "json" => g.heavy = Absent
    BY <1>1, FrameIs
  <2> QED BY <2>1, <2>2
<1>3. /\ f.acct = casting.acct /\ f.gen = current.gen + 1 /\ f.full = casting.full
      /\ f.full => f.heavy = casting.heavy
  BY <1>2, AdvancesIs
<1>4. FrameAgrees(f)' BY <1>2 DEF FrameAgrees
<1>5. view[c].gen < f.gen /\ view[c].acct <= f.acct
  BY <1>1, <1>3, AdvancesIs DEF ViewOK
<1>6. FrameOK(view[c], f)'
  <2>1. ASSUME f.full
        PROVE  /\ Follows(f.heavy, current.heavy)' /\ HeavyUp(f.heavy)'
               /\ Follows(view[c].heavy, f.heavy)'
    <3>1. f.heavy = casting.heavy /\ f.heavy = current'.heavy /\ f.heavy \in Nat
      BY <1>2, <1>3, <2>1, AdvancesIs
    <3>2. HeavyLeft(casting.heavy) BY DEF DashInv, ServerOK, Advances
    <3>3. HeavyUp(f.heavy)'
      BY <3>1, <3>2 DEF HeavyUp, HeavyLeft, Follows, Kept, DashFree, Advances
    <3>4. HeavyUp(view[c].heavy) BY <1>1 DEF ViewOK
    <3>5. Follows(view[c].heavy, casting.heavy) BY <1>1, <3>4, AdvancesUp
    <3> QED BY <3>1, <3>3, <3>5 DEF Follows, Advances
  <2> QED BY <1>1, <1>2, <1>3, <1>5, <2>1, AdvancesIs DEF FrameOK
<1>7. ASSUME NEW g \in InFlight(outbox[c]) PROVE After(g, f)
  <2>1. FrameOK(view[c], g) /\ g \in Frames /\ g.acct \in Nat /\ g.gen \in Nat
    BY <1>1 DEF DashInv, ClientOK, Frames, FrameType
  <2>2. g.acct <= f.acct /\ g.gen < f.gen BY <1>3, <2>1, AdvancesIs DEF FrameOK
  <2>3. ASSUME g.full, f.full PROVE Follows(g.heavy, f.heavy)
    <3>1. g.heavy \in Nat /\ HeavyUp(g.heavy) BY <2>1, <2>3 DEF Frames, FrameOK
    <3>2. Follows(g.heavy, casting.heavy) BY <3>1, AdvancesUp
    <3> QED BY <1>3, <2>3, <3>2
  <2> QED BY <2>2, <2>3 DEF After
<1> QED BY <1>2, <1>3, <1>4, <1>5, <1>6, <1>7

LEMMA LastIsFull ==
    ASSUME NEW q, Len(q) \in Nat, Len(q) >= 1, q[Len(q)].full, NEW i, FullAt(q, i)
    PROVE  i = Len(q)
BY DEF FullAt

LEMMA BroadcastKeeps == ASSUME DashInv, Broadcast PROVE DashInv'
<1> USE DEF DashInv
<1> DEFINE open == {c \in sessions : link[c] = "open"}
<1>1. /\ Advances /\ view' = view
      /\ outbox' = [c \in Clients |->
             IF c \in open THEN Put(outbox[c], Frame(c, current')) ELSE outbox[c]]
      /\ sessions' = open /\ updated' = updated \union open
      /\ missed' = (missed \ (IF current'.full THEN open ELSE {}))
                     \union {c \in open : LosesFull(outbox[c])}
      /\ waiting' = (open # {} \/ ghosts > 0)
      /\ UNCHANGED <<link, ghosts, torn, selected, requests>>
  BY DEF Broadcast, Advances, botVars
<1>2. ServerOK' BY <1>1, AdvancesServer
<1>3. BotOK' /\ StrandOK' BY <1>1 DEF BotOK, StrandOK, Kept, Advances
<1>4. TimerRuns' BY <1>1 DEF TimerRuns
<1>5. open \subseteq Clients /\ open \subseteq sessions BY DEF NetOK
<1>6. ASSUME NEW c \in open
      PROVE  /\ outbox'[c] \in Boxes /\ ClientOK(c)' /\ Latest(c)'
             /\ c \notin missed' => LatestFull(c)'
  <2> DEFINE o == outbox[c]
  <2> DEFINE q == o.queue
  <2>1. c \in Clients /\ link[c] = "open" /\ c \in sessions BY <1>5
  <2>2. PICK f : f = Frame(c, current') OBVIOUS
  <2>3. /\ f \in Frames /\ FrameAgrees(f)' /\ f.full = casting.full
        /\ f.full => f.heavy = current'.heavy /\ f.chart = current'.chart
        /\ view[c].gen < f.gen /\ FrameOK(view[c], f)'
        /\ \A g \in InFlight(o) : After(g, f)
    BY <1>1, <2>1, <2>2, NewFrame
  <2>4. o \in Boxes /\ BoxOK(o) /\ q \in Seq(Frames) /\ Len(q) \in Nat
    BY <2>1, ClientTypes DEF ClientOK
  <2> DEFINE p == Put(o, f)
  <2>5. /\ p \in Boxes /\ BoxOK(p) /\ p.busy
        /\ InFlight(p) \subseteq InFlight(o) \union {f}
        /\ Len(p.queue) >= 1 /\ p.queue[Len(p.queue)] = f
        /\ Len(p.queue) = (IF Len(q) >= QueueCap THEN Len(q) ELSE Len(q) + 1)
        /\ \A i \in 1..(Len(p.queue) - 1) :
              p.queue[i] = q[IF Len(q) >= QueueCap THEN i + 1 ELSE i]
        /\ p.now = (IF o.busy THEN o.now ELSE f)
    BY <2>3, <2>4, PutIs
  <2>6. outbox'[c] = p BY <1>1, <2>1, <2>2
  <2> HIDE DEF p, q
  <2>7. ClientOK(c)'
    <3>1. ViewOK(view[c])' BY <1>1, <2>1, AdvancesView
    <3>0. /\ outbox'[c] = p /\ BoxOK(p) /\ tally' = tally
          /\ InFlight(p) \subseteq InFlight(o) \union {f}
      BY <1>1, <2>5, <2>6 DEF Advances
    <3> HIDE DEF o
    <3>2. BoxOK(outbox[c])' BY <3>0 DEF BoxOK, After, Follows
    <3>3. InFlight(outbox[c])' \subseteq InFlight(o) \union {f} BY <3>0 DEF InFlight
    <3> USE DEF o
    <3>4. \A g \in InFlight(o) : FrameOK(view[c], g)' BY <1>1, <2>1, AdvancesFrame
    <3>5. c \notin torn' => \A x \in Coins : view'[c].buffers[x].of \subseteq {x}
      BY <1>1, <2>1 DEF ClientOK
    <3> QED BY <1>1, <2>1, <2>3, <3>1, <3>2, <3>3, <3>4, <3>5 DEF ClientOK
  <2>8. Latest(c)'
    <3>1. view'[c].gen < current'.gen BY <1>1, <2>3 DEF FrameAgrees
    <3> QED BY <2>3, <2>5, <2>6, <3>1 DEF Latest
  <2>9. ASSUME c \notin missed' PROVE LatestFull(c)'
    <3>1. Len(p.queue) \in Nat BY <2>4, <2>5
    <3>2. CASE f.full
      <4>1. \A i \in 1..Len(p.queue) : FullAt(p.queue, i) => i = Len(p.queue)
        <5>1. Len(p.queue) >= 1 /\ p.queue[Len(p.queue)].full BY <2>5, <3>2
        <5> QED BY <3>1, <5>1, LastIsFull
      <4>2. ~(\A i \in 1..Len(p.queue) : ~p.queue[i].full) BY <2>5, <3>1, <3>2
      <4> QED BY <1>1, <2>3, <2>5, <2>6, <3>2, <4>1, <4>2, SMTT(30) DEF LatestFull, FullAt
    <3>3. CASE ~f.full
      <4>1. ~current'.full BY <1>1, <2>3, <3>3, AdvancesIs
      <4>2. c \notin missed /\ ~LosesFull(o) BY <1>1, <2>9, <4>1
      <4>3. LatestFull(c) BY <2>1, <4>2 DEF ClientKnows
      <4>4. current'.heavy = current.heavy /\ current'.chart = current.chart
        BY <1>1, <2>3, <3>3, AdvancesIs
      <4> DEFINE k(i) == IF Len(q) >= QueueCap THEN i + 1 ELSE i
      <4>5. \A i \in 1..Len(p.queue) : i # Len(p.queue) =>
                p.queue[i] = q[k(i)] /\ k(i) \in 1..Len(q)
        BY <2>4, <2>5, <3>1
      <4>6. ASSUME NEW j \in 1..Len(q), q[j].full
            PROVE  \E i \in 1..Len(p.queue) : i # Len(p.queue) /\ j = k(i)
        <5>1. CASE Len(q) >= QueueCap
          <6>1. Head(q) = q[1] OBVIOUS
          <6>2. j # 1 BY <4>2, <4>6, <5>1, <6>1 DEF LosesFull, q
          <6>3. j - 1 \in 1..Len(p.queue) /\ j - 1 # Len(p.queue) /\ j = k(j - 1)
            BY <2>4, <2>5, <5>1, <6>2
          <6> QED BY <6>3
        <5>2. CASE ~(Len(q) >= QueueCap)
          <6>1. j \in 1..Len(p.queue) /\ j # Len(p.queue) /\ j = k(j) BY <2>4, <2>5, <5>2
          <6> QED BY <6>1
        <5> QED BY <5>1, <5>2
      <4>7. ASSUME NEW i \in 1..Len(p.queue), FullAt(p.queue, i)
            PROVE  FullAt(q, k(i)) /\ p.queue[i] = q[k(i)]
        <5>1. i # Len(p.queue) BY <2>5, <3>3, <4>7 DEF FullAt
        <5>2. p.queue[i] = q[k(i)] /\ k(i) \in 1..Len(q) BY <4>5, <5>1
        <5>3. ASSUME NEW j \in 1..Len(q), j > k(i), q[j].full PROVE FALSE
          <6>1. PICK m \in 1..Len(p.queue) : m # Len(p.queue) /\ j = k(m) BY <4>6, <5>3
          <6>2. m > i BY <5>3, <6>1
          <6>3. p.queue[m].full BY <4>5, <5>3, <6>1
          <6> QED BY <4>7, <6>2, <6>3 DEF FullAt
        <5> QED BY <4>7, <5>2, <5>3 DEF FullAt
      <4>8. \A i \in 1..Len(p.queue) : FullAt(p.queue, i) =>
                /\ p.queue[i].heavy = current.heavy /\ p.queue[i].chart = current.chart
                /\ view[c].gen < p.queue[i].gen
        <5> SUFFICES ASSUME NEW i \in 1..Len(p.queue), FullAt(p.queue, i)
                     PROVE  /\ p.queue[i].heavy = current.heavy
                            /\ p.queue[i].chart = current.chart
                            /\ view[c].gen < p.queue[i].gen
          OBVIOUS
        <5>1. FullAt(q, k(i)) /\ p.queue[i] = q[k(i)] BY <4>7
        <5>2. k(i) \in 1..Len(q) BY <5>1 DEF FullAt
        <5> HIDE DEF k
        <5> QED BY <4>3, <5>1, <5>2 DEF LatestFull, q
      <4>9. ASSUME \A i \in 1..Len(p.queue) : ~p.queue[i].full
            PROVE  /\ ~p.now.full /\ view[c].heavy = current.heavy
                   /\ c \notin torn /\ current.chart # NoCoin =>
                         view[c].chart = {current.chart}
        <5>1. \A j \in 1..Len(q) : ~q[j].full BY <4>5, <4>6, <4>9
        <5> QED BY <2>5, <3>3, <4>3, <5>1 DEF LatestFull, q
      <4> QED BY <1>1, <2>6, <4>4, <4>8, <4>9 DEF LatestFull
    <3> QED BY <3>2, <3>3
  <2> QED BY <2>5, <2>6, <2>7, <2>8, <2>9
<1>7. ASSUME NEW c \in Clients, c \notin open PROVE outbox'[c] \in Boxes /\ ClientOK(c)'
  <2>1. outbox'[c] = outbox[c] BY <1>1, <1>7
  <2>2. ViewOK(view[c])' BY <1>1, AdvancesView
  <2>3. BoxOK(outbox[c])' BY <1>1, <2>1 DEF BoxOK, After, Follows, Advances, ClientOK
  <2>4. InFlight(outbox[c])' = InFlight(outbox[c]) BY <2>1 DEF InFlight
  <2>5. \A g \in InFlight(outbox[c]) : FrameOK(view[c], g)' BY <1>1, AdvancesFrame
  <2>6. outbox[c] \in Boxes BY DEF NetOK
  <2>7. c \notin torn' => \A x \in Coins : view'[c].buffers[x].of \subseteq {x}
    BY <1>1 DEF ClientOK
  <2> QED BY <1>1, <2>1, <2>2, <2>3, <2>4, <2>5, <2>6, <2>7 DEF ClientOK
<1>8. NetOK'
  <2>1. outbox' \in [Clients -> Boxes]
    <3>1. \A c \in Clients : outbox'[c] \in Boxes BY <1>6, <1>7
    <3> QED BY <1>1, <3>1
  <2>2. missed' \subseteq Clients BY <1>1, <1>5 DEF NetOK
  <2> QED BY <1>1, <1>5, <2>1, <2>2 DEF NetOK
<1>9. \A c \in Clients : ClientOK(c)' /\ ClientKnows(c)'
  BY <1>1, <1>6, <1>7 DEF ClientKnows
<1> QED BY <1>2, <1>3, <1>4, <1>8, <1>9

-----------------------------------------------------------------------------
(* A frame is written and the browser has it. *)

LEMMA ReceivedIs ==
    ASSUME NEW v \in Views, NEW f \in Frames
    PROVE  LET g == Received(v, f)
           IN  /\ g \in Frames /\ g.full = f.full /\ g.acct = f.acct /\ g.lists = f.lists
               /\ g.sel = f.sel /\ g.book = f.book /\ g.gen = f.gen /\ g.chart = f.chart
               /\ f.full => g.heavy = f.heavy
               /\ ~f.full /\ (v.format = "json" => f.heavy = Absent) => g.heavy = Absent
BY DEF Received, Decoded, Frames, FrameType, Views, Absent

LEMMA PushPointIs ==
    ASSUME NEW b \in Points, NEW f \in Frames, f.chart # NoCoin
    PROVE  LET p == PushPoint(b, f)
           IN  /\ p \in Points /\ f.heavy \in Nat /\ f.heavy > 0 /\ f.chart \in Coins
               /\ b.of \subseteq p.of /\ p.of \subseteq b.of \union {f.chart}
               /\ (b.ts > 0 => b.of # {}) => p.of # {}
BY DEF PushPoint, Points, Frames, FrameType, AnyCoin

\* What Apply makes of the store, field by field.
LEMMA ApplyIs ==
    ASSUME NEW v \in Views, NEW f \in Frames
    PROVE  LET w      == Apply(v, f)
               coin   == IF f.sel = NoCoin THEN v.active ELSE f.sel
               pushed == IF f.chart # NoCoin THEN PushPoint(v.buffers[coin], f)
                         ELSE v.buffers[coin]
           IN  /\ w \in Views /\ w.format = v.format
               /\ w.gen = f.gen /\ w.acct = f.acct /\ w.lists = f.lists /\ w.book = f.book
               /\ w.heavy = (IF f.heavy = Absent THEN v.heavy ELSE f.heavy)
               /\ w.chart = (IF f.chart # NoCoin THEN pushed.of ELSE v.chart)
               /\ w.active = coin /\ coin \in Coins /\ pushed \in Points
               /\ \A x \in Coins : x # coin => w.buffers[x] = v.buffers[x]
               /\ w.buffers[coin] \in {NoPoints, pushed}
<1> DEFINE coin == IF f.sel = NoCoin THEN v.active ELSE f.sel
<1> DEFINE switched == coin # v.active
<1> DEFINE charted == f.chart # NoCoin
<1> DEFINE pushed == IF charted THEN PushPoint(v.buffers[coin], f) ELSE v.buffers[coin]
<1>1. /\ v.gen \in Int /\ v.acct \in Nat /\ v.active \in Coins /\ v.chart \in SUBSET Coins
      /\ v.buffers \in [Coins -> Points] /\ v.heavy \in Nat
      /\ v.density \in Nat \union {Absent} /\ v.ice \in Nat
  BY DEF Views
<1>2. /\ f.sel \in AnyCoin /\ f.heavy \in Nat \union {Absent} /\ f.chart \in AnyCoin
      /\ f.gen \in Nat /\ f.acct \in Nat /\ f.lists \in Nat /\ f.book \in AnyCoin
      /\ f.ice \in Nat /\ f.density \in Nat \union {Absent}
  BY DEF Frames, FrameType
<1>3. coin \in Coins BY <1>1, <1>2 DEF AnyCoin
<1>4. v.buffers[coin] \in Points BY <1>1, <1>3
<1>5. pushed \in Points /\ pushed.of \in SUBSET Coins
  <2>1. pushed \in Points BY <1>4, PushPointIs
  <2> HIDE DEF pushed
  <2> QED BY <2>1 DEF Points
<1>6. NoPoints \in Points BY DEF NoPoints, Points
<1> DEFINE heavy == IF f.heavy = Absent THEN v.heavy ELSE f.heavy
<1> DEFINE chart == IF charted THEN pushed.of ELSE v.chart
<1> DEFINE ice == IF switched THEN 0 ELSE f.ice
<1> DEFINE density == CASE switched -> 0
                        [] ~switched /\ f.density # Absent -> f.density
                        [] OTHER -> v.density
<1> DEFINE buffers == [v.buffers EXCEPT ![coin] = IF switched THEN NoPoints ELSE pushed]
<1> DEFINE w == [v EXCEPT !.gen = f.gen, !.acct = f.acct, !.lists = f.lists, !.book = f.book,
                          !.heavy = heavy, !.chart = chart, !.ice = ice, !.density = density,
                          !.buffers = buffers, !.active = coin]
<1>7. Apply(v, f) = w BY DEF Apply
<1>8. heavy \in Nat /\ chart \in SUBSET Coins /\ ice \in Nat BY <1>1, <1>2, <1>5
<1>9. density \in Nat \union {Absent} BY <1>1, <1>2
<1>10. /\ buffers \in [Coins -> Points]
       /\ \A x \in Coins : x # coin => buffers[x] = v.buffers[x]
       /\ buffers[coin] \in {NoPoints, pushed}
  <2> HIDE DEF pushed, coin, switched
  <2> QED BY <1>1, <1>3, <1>5, <1>6
<1> HIDE DEF heavy, chart, ice, density, buffers, coin, pushed, switched, charted
<1>11. /\ w \in Views /\ w.format = v.format
       /\ w.gen = f.gen /\ w.acct = f.acct /\ w.lists = f.lists /\ w.book = f.book
       /\ w.heavy = heavy /\ w.chart = chart /\ w.active = coin /\ w.buffers = buffers
  <2>1. PICK gen, acct, lists, book, h :
            /\ gen = f.gen /\ acct = f.acct /\ lists = f.lists /\ book = f.book /\ h = heavy
            /\ gen \in Int /\ acct \in Nat /\ lists \in Nat /\ book \in AnyCoin /\ h \in Nat
    BY <1>2, <1>8
  <2>2. PICK u \in Views :
            /\ u = [v EXCEPT !.gen = gen, !.acct = acct, !.lists = lists, !.book = book,
                             !.heavy = h]
            /\ u.format = v.format /\ u.gen = gen /\ u.acct = acct /\ u.lists = lists
            /\ u.book = book /\ u.heavy = h
    <3> DEFINE u == [v EXCEPT !.gen = gen, !.acct = acct, !.lists = lists, !.book = book,
                              !.heavy = h]
    <3>1. /\ u \in Views /\ u.format = v.format /\ u.gen = gen /\ u.acct = acct
          /\ u.lists = lists /\ u.book = book /\ u.heavy = h
      BY <2>1 DEF Views
    <3> QED BY <3>1
  <2>3. w = [u EXCEPT !.chart = chart, !.ice = ice, !.density = density, !.buffers = buffers,
                      !.active = coin]
    BY <2>1, <2>2
  <2>4. PICK ch, i, d, b, x :
            /\ ch = chart /\ i = ice /\ d = density /\ b = buffers /\ x = coin
            /\ ch \in SUBSET Coins /\ i \in Nat /\ d \in Nat \union {Absent}
            /\ b \in [Coins -> Points] /\ x \in Coins
    BY <1>3, <1>8, <1>9, <1>10
  <2>5. w = [u EXCEPT !.chart = ch, !.ice = i, !.density = d, !.buffers = b, !.active = x]
    BY <2>3, <2>4
  <2> HIDE DEF w
  <2>6. w \in Views /\ w.format = u.format /\ w.gen = u.gen /\ w.acct = u.acct
        /\ w.lists = u.lists /\ w.book = u.book /\ w.heavy = u.heavy
        /\ w.chart = ch /\ w.active = x /\ w.buffers = b
    BY <2>4, <2>5 DEF Views
  <2> QED BY <2>1, <2>2, <2>4, <2>6
<1> HIDE DEF w
<1> QED BY <1>3, <1>5, <1>7, <1>10, <1>11 DEF heavy, chart, coin, pushed, charted

\* A store that has a frame applied.
LEMMA AppliedIs ==
    ASSUME DashInv, NEW c \in Clients, NEW n \in Frames, FrameOK(view[c], n),
           NEW w, w = Apply(view[c], Received(view[c], n))
    PROVE  /\ w \in Views /\ w.format = view[c].format
           /\ w.gen = n.gen /\ w.acct = n.acct /\ w.lists = n.lists /\ w.book = n.book
           /\ w.heavy = (IF n.full THEN n.heavy ELSE view[c].heavy)
           /\ n.sel # NoCoin => w.active = n.sel
           /\ ~n.full => w.chart = view[c].chart
           /\ ViewOK(w)
           /\ c \notin torn /\ n.chart \in {NoCoin, n.sel} =>
                 /\ \A x \in Coins : w.buffers[x].of \subseteq {x}
                 /\ n.chart # NoCoin => w.chart = {n.chart}
<1>1. PICK v \in Views : v = view[c] BY ClientTypes DEF DashInv
<1>2. PICK f \in Frames :
          /\ f = Received(v, n) /\ f.full = n.full /\ f.acct = n.acct /\ f.lists = n.lists
          /\ f.sel = n.sel /\ f.book = n.book /\ f.gen = n.gen /\ f.chart = n.chart
          /\ n.full => f.heavy = n.heavy
          /\ ~n.full /\ (v.format = "json" => n.heavy = Absent) => f.heavy = Absent
  BY ReceivedIs
<1>3. PICK coin : coin = IF f.sel = NoCoin THEN v.active ELSE f.sel OBVIOUS
<1>4. PICK pushed : pushed = IF f.chart # NoCoin THEN PushPoint(v.buffers[coin], f)
                             ELSE v.buffers[coin]
  OBVIOUS
<1>5. w = Apply(v, f) BY <1>1, <1>2
<1>6. /\ w \in Views /\ w.format = v.format
      /\ w.gen = f.gen /\ w.acct = f.acct /\ w.lists = f.lists /\ w.book = f.book
      /\ w.heavy = (IF f.heavy = Absent THEN v.heavy ELSE f.heavy)
      /\ w.chart = (IF f.chart # NoCoin THEN pushed.of ELSE v.chart)
      /\ w.active = coin /\ coin \in Coins /\ pushed \in Points
      /\ \A x \in Coins : x # coin => w.buffers[x] = v.buffers[x]
      /\ w.buffers[coin] \in {NoPoints, pushed}
  <2>1. LET u  == Apply(v, f)
            x1 == IF f.sel = NoCoin THEN v.active ELSE f.sel
            x2 == IF f.chart # NoCoin THEN PushPoint(v.buffers[x1], f) ELSE v.buffers[x1]
        IN  /\ u \in Views /\ u.format = v.format
            /\ u.gen = f.gen /\ u.acct = f.acct /\ u.lists = f.lists /\ u.book = f.book
            /\ u.heavy = (IF f.heavy = Absent THEN v.heavy ELSE f.heavy)
            /\ u.chart = (IF f.chart # NoCoin THEN x2.of ELSE v.chart)
            /\ u.active = x1 /\ x1 \in Coins /\ x2 \in Points
            /\ \A x \in Coins : x # x1 => u.buffers[x] = v.buffers[x]
            /\ u.buffers[x1] \in {NoPoints, x2}
    BY ApplyIs
  <2> QED BY <1>3, <1>4, <1>5, <2>1
<1>7. /\ n.full => n.heavy \in Nat /\ n.heavy # Absent
      /\ n.chart # NoCoin => n.full /\ n.heavy > 0
  BY DEF Frames, Absent
<1>8. w.heavy = (IF n.full THEN n.heavy ELSE v.heavy)
  <2>1. ~n.full => f.heavy = Absent BY <1>1, <1>2 DEF FrameOK
  <2> QED BY <1>2, <1>6, <1>7, <2>1
<1>9. /\ ViewOK(v) /\ v.buffers \in [Coins -> Points]
      /\ c \notin torn => \A x \in Coins : v.buffers[x].of \subseteq {x}
  BY <1>1 DEF DashInv, ClientOK, Views
<1>10. PICK b \in Points : b = v.buffers[coin] BY <1>6, <1>9
<1>11. b.ts > 0 => b.of # {} BY <1>6, <1>9, <1>10 DEF ViewOK
<1>12. ASSUME f.chart # NoCoin
       PROVE  pushed.of \subseteq b.of \union {f.chart} /\ pushed.of # {}
  BY <1>4, <1>10, <1>11, <1>12, PushPointIs
<1>13. ASSUME f.chart = NoCoin PROVE pushed = b BY <1>4, <1>10, <1>13
<1>14. ASSUME NEW x \in Coins, w.buffers[x].ts > 0 PROVE w.buffers[x].of # {}
  <2>1. CASE x # coin BY <1>6, <1>9, <1>14, <2>1 DEF ViewOK
  <2>2. CASE x = coin
    <3>1. NoPoints.ts = 0 BY DEF NoPoints
    <3>2. w.buffers[coin] = pushed BY <1>6, <1>14, <2>2, <3>1
    <3> QED BY <1>11, <1>12, <1>13, <1>14, <2>2, <3>2
  <2> QED BY <2>1, <2>2
<1>15. ViewOK(w)
  <2>1. /\ w.acct <= current.acct /\ w.gen <= current.gen
    BY <1>2, <1>6 DEF FrameOK
  <2>2. Follows(w.heavy, current.heavy) /\ HeavyUp(w.heavy)
    BY <1>8, <1>9 DEF FrameOK, ViewOK
  <2> QED BY <1>14, <2>1, <2>2 DEF ViewOK
<1>16. ASSUME c \notin torn, n.chart \in {NoCoin, n.sel}
       PROVE  /\ \A x \in Coins : w.buffers[x].of \subseteq {x}
              /\ n.chart # NoCoin => w.chart = {n.chart}
  <2>1. b.of \subseteq {coin} BY <1>6, <1>9, <1>10, <1>16
  <2>2. ASSUME n.chart # NoCoin PROVE pushed.of = {coin} /\ coin = n.chart
    <3>1. coin = f.chart BY <1>2, <1>3, <1>16, <2>2
    <3> QED BY <1>2, <1>12, <2>1, <2>2, <3>1
  <2>3. pushed.of \subseteq {coin} BY <1>2, <1>13, <2>1, <2>2
  <2>4. \A x \in Coins : w.buffers[x].of \subseteq {x}
    <3>1. NoPoints.of = {} BY DEF NoPoints
    <3>2. w.buffers[coin].of \subseteq {coin} BY <1>6, <2>3, <3>1
    <3> QED BY <1>6, <1>9, <1>16, <3>2
  <2> QED BY <1>2, <1>6, <2>2, <2>4
<1>17. n.sel # NoCoin => w.active = n.sel BY <1>2, <1>3, <1>6
<1>18. ~n.full => w.chart = v.chart BY <1>2, <1>6, <1>7
<1> QED BY <1>1, <1>2, <1>6, <1>8, <1>15, <1>16, <1>17, <1>18

LEMMA WrittenKeeps == ASSUME DashInv, NEW c \in Clients, Written(c) PROVE DashInv'
<1> USE DEF DashInv
<1> DEFINE o == outbox[c]
<1> DEFINE v == view[c]
<1> DEFINE q == o.queue
<1>1. /\ DashFree /\ o.busy /\ outbox' = [outbox EXCEPT ![c] = Wrote(o)]
      /\ UNCHANGED <<link, sessions, ghosts, tally, updated, tick, cache, selected, requests>>
      /\ UNCHANGED <<current, pendingState, dirty, waiting, strand, casting>>
      /\ missed' = missed \union (IF o.freed /\ Head(q).full THEN {c} ELSE {})
  BY DEF Written, botVars, serverVars
<1>2. /\ v \in Views /\ o \in Boxes /\ BoxOK(o) /\ ViewOK(v) /\ q \in Seq(Frames)
      /\ Len(q) \in Nat /\ link[c] = "open"
  BY <1>1, ClientTypes DEF ClientOK, BoxOK
<1>3. PICK n \in Frames : n = o.now BY <1>1, <1>2 DEF BoxOK
<1>4. FrameOK(v, n) BY <1>1, <1>3 DEF ClientOK, InFlight
<1>5. PICK w : w = Apply(v, Received(v, n)) OBVIOUS
<1>6. /\ w \in Views /\ w.format = v.format
      /\ w.gen = n.gen /\ w.acct = n.acct /\ w.lists = n.lists /\ w.book = n.book
      /\ w.heavy = (IF n.full THEN n.heavy ELSE v.heavy)
      /\ n.sel # NoCoin => w.active = n.sel
      /\ ~n.full => w.chart = v.chart
      /\ ViewOK(w)
      /\ c \notin torn /\ n.chart \in {NoCoin, n.sel} =>
            /\ \A x \in Coins : w.buffers[x].of \subseteq {x}
            /\ n.chart # NoCoin => w.chart = {n.chart}
  <2> HIDE DEF DashInv
  <2> QED BY <1>4, <1>5, AppliedIs
<1>7. PICK f \in Frames : /\ f = Received(v, n) /\ f.gen = n.gen /\ f.chart = n.chart
                          /\ f.sel = n.sel
  BY <1>2, ReceivedIs
<1>8. \/ /\ view' = [view EXCEPT ![c] = w]
         /\ torn' = torn \union (IF n.chart \in {NoCoin, n.sel} THEN {} ELSE {c})
      \/ view' = view /\ torn' = torn /\ (n.gen = v.gen \/ o.freed)
  BY <1>3, <1>5, <1>7 DEF Written, SameGeneration
<1>9. PICK p \in Boxes :
         /\ p = Wrote(o) /\ BoxOK(p) /\ ~p.freed
         /\ Len(q) >= 1 /\ Len(p.queue) = Len(q) - 1
         /\ \A i \in 1..Len(p.queue) : p.queue[i] = q[i + 1]
         /\ p.busy => Len(q) > 1
         /\ ~p.busy => Len(q) = 1
         /\ InFlight(p) \subseteq InFlight(o)
         /\ \A g \in InFlight(p) : After(n, g)
  BY <1>1, <1>2, <1>3, WroteIs
<1>10. outbox'[c] = p /\ (view'[c] = w \/ view'[c] = v) BY <1>1, <1>8, <1>9 DEF NetOK
<1>11. ServerOK' /\ UpStays /\ ServerStays /\ Grown
  <2>1. waiting' \in BOOLEAN BY <1>1 DEF ServerOK
  <2> QED BY <1>1, <2>1, ServerSame DEF Kept
<1>12. BotOK' /\ StrandOK' /\ TimerRuns'
  BY <1>1 DEF BotOK, StrandOK, Kept, TimerRuns, DashFree
<1>13. NetOK' BY <1>1, <1>6, <1>8, <1>9 DEF NetOK
<1>14. ASSUME NEW d \in Clients, d # c PROVE ClientOK(d)' /\ ClientKnows(d)'
  <2>1. ClientSame(d) BY <1>1, <1>8, <1>14 DEF ClientSame, ViewSame, NetOK
  <2> QED BY <1>11, <2>1, ClientStays
<1>15. ClientOK(c)'
  <2>1. PICK u : u = view'[c] OBVIOUS
  <2>2. ViewOK(u) BY <1>2, <1>6, <1>10, <2>1
  <2>3. ViewOK(view[c])'
    BY <1>1, <2>1, <2>2 DEF ViewOK, Follows, HeavyUp, HeavyLeft, Kept, DashFree
  <2>4. BoxOK(outbox[c])'
    <3>1. outbox'[c] = p /\ BoxOK(p) /\ tally' = tally BY <1>1, <1>9, <1>10
    <3> QED BY <3>1 DEF BoxOK, After, Follows
  <2>5. InFlight(outbox[c])' = InFlight(p) BY <1>10 DEF InFlight
  <2>6. ASSUME NEW g \in InFlight(p) PROVE FrameOK(view[c], g)'
    <3>1. FrameOK(v, g) /\ After(n, g) BY <1>9 DEF ClientOK
    <3>2. FrameOK(w, g)
      <4>1. g \in Frames BY <1>2, <1>9, ClientTypes
      <4>2. g.gen \in Nat /\ n.gen \in Nat BY <4>1 DEF Frames, FrameType
      <4> QED BY <1>6, <3>1, <4>2 DEF FrameOK, After
    <3>3. FrameOK(u, g) BY <1>10, <2>1, <3>1, <3>2
    <3> QED BY <1>1, <2>1, <3>3 DEF FrameOK, Follows, HeavyUp, HeavyLeft, Kept, DashFree
  <2>7. c \notin torn' => \A x \in Coins : view'[c].buffers[x].of \subseteq {x}
    BY <1>6, <1>8, <1>10 DEF ClientOK, NetOK
  <2> QED BY <1>1, <1>2, <2>3, <2>4, <2>5, <2>6, <2>7 DEF ClientOK
<1>16. ASSUME ~o.freed, n.gen # v.gen
       PROVE  /\ view'[c] = w
              /\ c \notin torn' => c \notin torn /\ n.chart \in {NoCoin, n.sel}
  BY <1>2, <1>8, <1>16 DEF NetOK
<1>17. ASSUME c \in sessions, c \in updated PROVE Latest(c)'
  <2>1. FrameAgrees(q[Len(q)]) /\ v.gen < current.gen BY <1>1, <1>17 DEF ClientKnows, Latest
  <2>2. CASE p.busy
    <3>1. Len(p.queue) \in 1..Len(p.queue) /\ p.queue[Len(p.queue)] = q[Len(q)]
      BY <1>2, <1>9, <2>2
    <3>2. q[Len(q)] \in InFlight(p) BY <3>1 DEF InFlight
    <3>3. n.gen < current.gen BY <1>9, <2>1, <3>2 DEF After, FrameAgrees
    <3>4. view'[c].gen < current.gen BY <1>6, <1>10, <2>1, <3>3
    <3> QED BY <1>1, <1>10, <2>1, <2>2, <3>1, <3>4 DEF Latest, FrameAgrees
  <2>3. CASE ~p.busy
    <3>1. Len(q) = 1 BY <1>9, <2>3
    <3>2. ~o.freed /\ n = q[1] BY <1>1, <1>2, <1>3, <3>1 DEF BoxOK
    <3>3. n.gen # v.gen
      <4>1. n.gen = current.gen BY <2>1, <3>1, <3>2 DEF FrameAgrees
      <4> QED BY <2>1, <4>1 DEF ServerOK, States, StateType, NetOK, Views
    <3>4. view'[c] = w BY <1>16, <3>2, <3>3
    <3>5. ViewAgrees(w) BY <1>6, <2>1, <3>1, <3>2 DEF FrameAgrees, ViewAgrees
    <3> QED BY <1>1, <1>10, <2>3, <3>4, <3>5 DEF Latest, ViewAgrees
  <2> QED BY <2>2, <2>3
<1>18. ASSUME c \in sessions, c \notin missed' PROVE LatestFull(c)'
  <2>1. c \notin missed /\ ~(o.freed /\ q[1].full)
    <3>1. Head(q) = q[1] OBVIOUS
    <3> QED BY <1>1, <1>18, <3>1
  <2>2. /\ \A i \in 1..Len(q) : FullAt(q, i) =>
              /\ q[i].heavy = current.heavy /\ q[i].chart = current.chart
              /\ v.gen < q[i].gen
        /\ (\A i \in 1..Len(q) : ~q[i].full) =>
              /\ ~n.full /\ v.heavy = current.heavy
              /\ c \notin torn /\ current.chart # NoCoin => v.chart = {current.chart}
    BY <1>1, <1>3, <1>18, <2>1 DEF ClientKnows, LatestFull
  <2>3. ASSUME NEW i \in 1..Len(p.queue), FullAt(p.queue, i)
        PROVE  /\ p.queue[i].heavy = current.heavy /\ p.queue[i].chart = current.chart
               /\ view'[c].gen < p.queue[i].gen
    <3>1. i + 1 \in 1..Len(q) /\ p.queue[i] = q[i + 1] BY <1>2, <1>9
    <3>2. FullAt(q, i + 1)
      <4>1. ASSUME NEW j \in 1..Len(q), j > i + 1 PROVE ~q[j].full
        <5>1. j - 1 \in 1..Len(p.queue) /\ j - 1 > i /\ (j - 1) + 1 = j BY <1>2, <1>9, <4>1
        <5> QED BY <1>9, <2>3, <5>1 DEF FullAt
      <4> QED BY <2>3, <3>1, <4>1 DEF FullAt
    <3>3. p.queue[i] \in InFlight(p) BY DEF InFlight
    <3>4. n.gen < p.queue[i].gen BY <1>9, <3>3 DEF After
    <3> QED BY <1>6, <1>10, <2>2, <3>1, <3>2, <3>4
  <2>4. ASSUME \A i \in 1..Len(p.queue) : ~p.queue[i].full
        PROVE  /\ p.busy => ~p.now.full
               /\ view'[c].heavy = current.heavy
               /\ c \notin torn' /\ current.chart # NoCoin => view'[c].chart = {current.chart}
    <3>1. p.busy => ~p.now.full
      <4> SUFFICES ASSUME p.busy PROVE ~p.now.full OBVIOUS
      <4>1. p.now = p.queue[1] BY <1>9 DEF BoxOK
      <4>2. 1 \in 1..Len(p.queue) BY <1>2, <1>9
      <4> QED BY <2>4, <4>1, <4>2
    <3>2. ASSUME NEW j \in 1..Len(q), j # 1 PROVE ~q[j].full
      <4>1. j - 1 \in 1..Len(p.queue) /\ (j - 1) + 1 = j BY <1>2, <1>9, <3>2
      <4> QED BY <1>9, <2>4, <4>1
    <3>3. 1 \in 1..Len(q) BY <1>2, <1>9
    <3>4. CASE q[1].full
      <4>1. FullAt(q, 1) BY <3>2, <3>3, <3>4 DEF FullAt
      <4>2. ~o.freed /\ n = q[1] BY <1>1, <1>2, <1>3, <2>1, <3>4 DEF BoxOK
      <4>3. n.heavy = current.heavy /\ n.chart = current.chart /\ v.gen < n.gen
        BY <2>2, <3>3, <4>1, <4>2
      <4>4. n.gen # v.gen BY <1>2, <4>3 DEF Views, Frames, FrameType
      <4>5. /\ view'[c] = w
            /\ c \notin torn' => c \notin torn /\ n.chart \in {NoCoin, n.sel}
        BY <1>16, <4>2, <4>4
      <4> QED BY <1>6, <3>1, <3>4, <4>2, <4>3, <4>5
    <3>5. CASE ~q[1].full
      <4>1. /\ ~n.full /\ v.heavy = current.heavy
            /\ c \notin torn /\ current.chart # NoCoin => v.chart = {current.chart}
        BY <2>2, <3>2, <3>5
      <4>2. w.heavy = v.heavy /\ w.chart = v.chart BY <1>6, <4>1
      <4>3. c \notin torn' => c \notin torn BY <1>8
      <4> QED BY <1>10, <3>1, <4>1, <4>2, <4>3
    <3> QED BY <3>4, <3>5
  <2> QED BY <1>1, <1>10, <2>3, <2>4 DEF LatestFull
<1>19. \A d \in Clients : ClientOK(d)' /\ ClientKnows(d)'
  BY <1>1, <1>14, <1>15, <1>17, <1>18 DEF ClientKnows
<1> QED BY <1>11, <1>12, <1>13, <1>19

-----------------------------------------------------------------------------
LEMMA DashStarts == DashInit => DashInv
<1> SUFFICES ASSUME DashInit PROVE DashInv OBVIOUS
<1> USE DashAssumption
<1>1. Blank \in States /\ Blank.acct = 0 /\ Blank.heavy = 0 /\ Blank.gen = 0
  BY DEF Blank, States, StateType, AnyCoin
<1>2. strand = <<>> /\ Len(strand) = 0 /\ DashFree /\ dirty = FALSE /\ waiting = TRUE
  BY DEF DashInit, DashFree
<1>3. BotOK
  <2>1. <<>> \in Seq(Coins) OBVIOUS
  <2> QED BY <2>1 DEF DashInit, BotOK, AnyCoin
<1>4. StrandOK
  <2>1. <<>> \in Seq(Jobs) OBVIOUS
  <2> QED BY <1>2, <2>1 DEF StrandOK
<1>5. HeavyUp(0) BY <1>2 DEF DashInit, HeavyUp, HeavyLeft
<1>6. ServerOK
  <2>1. /\ current = Blank /\ pendingState = Blank /\ tick.n = 0 /\ cache.heavy = 0
    BY DEF DashInit
  <2>2. current.heavy = 0 /\ current.acct = 0 /\ pendingState.acct = 0
        /\ pendingState.heavy = 0
    BY <1>1, <2>1
  <2>3. HeavyUp(current.heavy) BY <1>2, <2>1, <2>2 DEF HeavyUp, HeavyLeft
  <2>4. current \in States /\ pendingState \in States BY <1>1, <2>1
  <2>5. dirty \in BOOLEAN /\ waiting \in BOOLEAN BY <1>2
  <2>6. pendingState.acct <= tick.n /\ pendingState.heavy <= cache.heavy
        /\ current.acct <= pendingState.acct
    BY <2>1, <2>2
  <2>7. DashFree /\ pendingState.heavy = 0 BY <1>2, <2>2
  <2> QED BY <2>3, <2>4, <2>5, <2>6, <2>7, Zenon DEF ServerOK
<1>7. PICK format \in [Clients -> {"binary", "json"}] :
         view = [c \in Clients |->
              [format |-> format[c], gen |-> -1, acct |-> 0, lists |-> 0, heavy |-> 0,
               book |-> NoCoin, chart |-> {}, density |-> 0, ice |-> 0, active |-> LeaderCoin,
               buffers |-> [x \in Coins |-> NoPoints]]]
  BY DEF DashInit
<1>8. ASSUME NEW c \in Clients
      PROVE  /\ view[c] \in Views /\ view[c].acct = 0 /\ view[c].gen = -1 /\ view[c].heavy = 0
             /\ \A x \in Coins : view[c].buffers[x].ts = 0 /\ view[c].buffers[x].of = {}
  <2>1. PICK b : b = [x \in Coins |-> NoPoints] OBVIOUS
  <2>2. b \in [Coins -> Points] /\ \A x \in Coins : b[x].ts = 0 /\ b[x].of = {}
    BY <2>1 DEF NoPoints, Points
  <2>3. view[c] = [format |-> format[c], gen |-> -1, acct |-> 0, lists |-> 0, heavy |-> 0,
                   book |-> NoCoin, chart |-> {}, density |-> 0, ice |-> 0,
                   active |-> LeaderCoin, buffers |-> b]
    BY <1>7, <2>1
  <2>4. format[c] \in {"binary", "json"} /\ -1 \in Int OBVIOUS
  <2> QED BY <2>2, <2>3, <2>4 DEF Views, AnyCoin
<1>9. NetOK
  <2>1. view \in [Clients -> Views] BY <1>7, <1>8
  <2> QED BY <2>1, NoOutputIs DEF DashInit, NetOK
<1>10. TimerRuns BY <1>2 DEF TimerRuns
<1>11. ASSUME NEW c \in Clients PROVE ClientOK(c) /\ ClientKnows(c)
  <2>1. outbox[c] = NoOutput /\ sessions = {} BY DEF DashInit
  <2>2. ViewOK(view[c])
    <3>1. current.acct = 0 /\ current.gen = 0 /\ current.heavy = 0 BY <1>1 DEF DashInit
    <3> QED BY <1>5, <1>8, <3>1 DEF ViewOK, Follows
  <2> QED BY <1>8, <2>1, <2>2, NoOutputIs DEF ClientOK, ClientKnows
<1> QED BY <1>3, <1>4, <1>6, <1>9, <1>10, <1>11 DEF DashInv

LEMMA DashStep == DashInv /\ [DashNext]_dashVars => DashInv'
<1> SUFFICES ASSUME DashInv, [DashNext]_dashVars PROVE DashInv' OBVIOUS
<1>1. CASE TickStarts BY <1>1, TickStartsKeeps
<1>2. CASE BuildHeavy BY <1>2, BuildHeavyKeeps
<1>3. CASE Send BY <1>3, SendKeeps
<1>4. CASE Keep BY <1>4, KeepKeeps
<1>5. CASE Schedule BY <1>5, ScheduleKeeps
<1>6. CASE TimerEnds BY <1>6, TimerEndsKeeps
<1>7. CASE Conflate BY <1>7, ConflateKeeps
<1>8. CASE Broadcast BY <1>8, BroadcastKeeps
<1>9. CASE PushIceberg BY <1>9, PushIcebergKeeps
<1>10. CASE SelectTicker BY <1>10, SelectTickerKeeps
<1>11. CASE Notice BY <1>11, NoticeKeeps
<1>12. CASE \E c \in Clients : Connect(c) BY <1>12, ConnectKeeps
<1>13. CASE \E c \in Clients : AcceptSession(c) BY <1>13, AcceptSessionKeeps
<1>14. CASE \E c \in Clients : Break(c) BY <1>14, BreakKeeps
<1>15. CASE \E c \in Clients : Written(c) BY <1>15, WrittenKeeps
<1>16. CASE \E c \in Clients, coin \in Coins : PickCoin(c, coin) BY <1>16, PickCoinKeeps
<1>17. CASE UNCHANGED dashVars
  <2>1. /\ UNCHANGED <<tick, cache, selected, requests, current, pendingState, dirty, waiting>>
        /\ UNCHANGED <<strand, casting, tally>>
        /\ UNCHANGED <<sessions, ghosts, link, outbox, view, updated, missed, torn>>
    BY <1>17 DEF dashVars
  <2>2. ServerOK' /\ UpStays /\ ServerStays /\ Grown
    <3>1. waiting' \in BOOLEAN BY <2>1 DEF DashInv, ServerOK
    <3> QED BY <2>1, <3>1, ServerSame DEF Kept
  <2>3. BotOK' /\ StrandOK' /\ TimerRuns'
    BY <2>1 DEF DashInv, BotOK, StrandOK, Kept, TimerRuns, DashFree
  <2>4. NetOK' /\ ClientsSame BY <2>1, NetSame DEF DashInv
  <2> QED BY <2>2, <2>3, <2>4, BackKeeps DEF Back
<1> QED BY <1>1, <1>2, <1>3, <1>4, <1>5, <1>6, <1>7, <1>8, <1>9, <1>10, <1>11, <1>12, <1>13,
           <1>14, <1>15, <1>16, <1>17 DEF DashNext

LEMMA InvCurrent == DashInv => BrowserCurrent
<1> SUFFICES ASSUME DashInv PROVE BrowserCurrent OBVIOUS
<1>1. ConflationRuns BY DEF DashInv, TimerRuns, ConflationRuns
<1>2. ASSUME Settled, NEW c \in updated \intersect sessions
      PROVE  /\ view[c].acct = current.acct /\ view[c].lists = current.lists
             /\ view[c].book = current.book /\ view[c].gen = current.gen
             /\ current.sel # NoCoin => view[c].active = current.sel
             /\ c \notin missed =>
                   /\ view[c].heavy = current.heavy
                   /\ c \notin torn /\ current.chart # NoCoin /\ current.chart = current.sel =>
                         view[c].chart = {current.sel}
  <2>1. c \in Clients BY DEF DashInv, NetOK
  <2>2. ~outbox[c].busy BY <1>2, <2>1 DEF Settled
  <2>3. ViewAgrees(view[c]) BY <2>1, <2>2 DEF DashInv, ClientKnows, Latest
  <2>4. ASSUME c \notin missed
        PROVE  /\ view[c].heavy = current.heavy
               /\ c \notin torn /\ current.chart # NoCoin => view[c].chart = {current.chart}
    <3>1. LatestFull(c) BY <2>1, <2>4 DEF DashInv, ClientKnows
    <3>2. outbox[c].queue = <<>> BY <2>1, <2>2 DEF DashInv, ClientOK, BoxOK
    <3>3. Len(outbox[c].queue) = 0 BY <3>2
    <3>4. \A i \in 1..Len(outbox[c].queue) : ~outbox[c].queue[i].full BY <3>3
    <3> QED BY <3>1, <3>4 DEF LatestFull
  <2> QED BY <2>3, <2>4 DEF ViewAgrees
<1> QED BY <1>1, <1>2 DEF BrowserCurrent

\* While there are sessions the timer that serves them runs; and when everything posted has
\* been sent and written, a browser with a session shows what the server has.
THEOREM BrowsersAreCurrent == DashSpec => []BrowserCurrent
<1> QED BY DashStarts, DashStep, InvCurrent, PTL DEF DashSpec

LEMMA StepNotBack ==
    ASSUME DashInv, [DashNext]_dashVars, NEW c \in Clients
    PROVE  /\ view'[c].acct >= view[c].acct
           /\ view'[c].heavy >= view[c].heavy \/ (view'[c].heavy = 0 /\ tally.icebergs > 0)
<1> USE DEF DashInv
<1>1. view[c] \in Views /\ view[c].heavy \in Nat /\ view[c].acct \in Nat BY ClientTypes
<1>2. CASE view' = view BY <1>1, <1>2
<1>3. CASE \E d \in Clients, coin \in Coins : PickCoin(d, coin)
  <2>1. PICK d \in Clients, coin \in Coins : PickCoin(d, coin) BY <1>3
  <2>2. view' = [view EXCEPT ![d] = [view[d] EXCEPT !.active = coin]] BY <2>1 DEF PickCoin
  <2>3. view'[c].acct = view[c].acct /\ view'[c].heavy = view[c].heavy
    BY <1>1, <2>2, PickedIs DEF NetOK
  <2> QED BY <1>1, <2>3
<1>4. CASE \E d \in Clients : Written(d)
  <2>1. PICK d \in Clients : Written(d) BY <1>4
  <2>2. \/ view' = view
        \/ view' = [view EXCEPT ![d] = Apply(view[d], Received(view[d], outbox[d].now))]
    BY <2>1 DEF Written
  <2>3. CASE view'[c] = view[c] BY <1>1, <2>3
  <2>4. CASE d = c /\ view'[c] = Apply(view[c], Received(view[c], outbox[c].now))
    <3>1. outbox[c].busy /\ ClientOK(c) BY <2>1, <2>4 DEF Written
    <3>2. PICK n \in Frames : n = outbox[c].now BY <3>1 DEF ClientOK, BoxOK
    <3>3. FrameOK(view[c], n) BY <3>1, <3>2 DEF ClientOK, InFlight
    <3>4. PICK w : w = Apply(view[c], Received(view[c], n)) OBVIOUS
    <3>5. w.acct = n.acct /\ w.heavy = (IF n.full THEN n.heavy ELSE view[c].heavy)
      BY <3>3, <3>4, AppliedIs
    <3>6. n.acct \in Nat /\ (n.full => n.heavy \in Nat) BY DEF Frames, FrameType
    <3>7. view[c].acct <= n.acct /\ (n.full => Follows(view[c].heavy, n.heavy))
      BY <3>3 DEF FrameOK
    <3> QED BY <1>1, <2>4, <3>2, <3>4, <3>5, <3>6, <3>7 DEF Follows
  <2> QED BY <2>2, <2>3, <2>4 DEF NetOK
<1> QED
  BY <1>2, <1>3, <1>4 DEF DashNext, dashVars, netVars, TickStarts, BuildHeavy, Send, Keep,
     Schedule, TimerEnds, Conflate, Broadcast, PushIceberg, SelectTicker, Notice, Connect,
     AcceptSession, Break

\* The account a browser shows never goes back, nor does the journal but to an empty one after
\* an iceberg.
THEOREM NeverGoesBack == DashSpec => NeverBack
<1>1. DashInv /\ [DashNext]_dashVars =>
          [\A c \in Clients :
              /\ view'[c].acct >= view[c].acct
              /\ view'[c].heavy >= view[c].heavy \/ (view'[c].heavy = 0 /\ tally.icebergs > 0)
          ]_dashVars
  BY StepNotBack
<1> QED BY <1>1, DashStarts, DashStep, PTL DEF DashSpec, NeverBack
=============================================================================
