------------------------------- MODULE Levels -------------------------------
(* Price levels of one ticker.  LevelDetector rebuilds them once a minute and *)
(* announces the new ones; SignalLevelBridge places those on the terminal and *)
(* follows the terminal's messages, which NotificationFeed hands it.          *)
(*                                                                            *)
(* Two threads: the processor thread rebuilds and makes the HTTP calls, with  *)
(* the bridge's mutex released around them; the main thread handles messages. *)
(* Which levels a rebuild finds is a free choice; the price of a level on the *)
(* terminal decides nothing in the bridge and is kept by the terminal only.   *)
EXTENDS Integers, FiniteSets, Sequences
LOCAL INSTANCE FiniteSetsExt

CONSTANTS Prices,     \* prices of levels; neighbours are within the cluster tolerance
          MaxServer,  \* max_server_levels
          MaxRebuilds, MaxIds, MaxChanges, MaxFaults \* bounds

VARIABLES levels,   \* LevelDetector::active_levels_
          call,     \* on_level_formed: how far it is, what is still to be announced
          active,   \* SignalLevelBridge::active_levels_
          server,   \* the terminal's levels
          wire,     \* messages of the terminal under way
          linked,   \* the connection that subscribed is up
          used,     \* counts of ids, rebuilds, changes by others, faults
          told,     \* history: ids whose trigger or removal was handled
          astray    \* history: ids entered too late or not removed, see LevelsAgree

levelVars == <<levels, call, active, server, wire, linked, used, told, astray>>

NoCall == [pc |-> "idle", todo |-> <<>>, target |-> {}, id |-> 0]
LevelIds  == 1..MaxIds

Near(p, q) == p - q \in -1..1

Plus(f, i, v) == [j \in DOMAIN f \union {i} |-> IF j = i THEN v ELSE f[j]]
Minus(f, S) == [j \in DOMAIN f \ S |-> f[j]]

TriggeredIn(f) == {i \in DOMAIN f : f[i].triggered}

Count(k, limit) == used[k] < limit /\ used' = [used EXCEPT ![k] = @ + 1]

-----------------------------------------------------------------------------
(* LevelDetector: clusters lie further apart than the tolerance; those near  *)
(* no level of the last rebuild are announced, then all replace the old.     *)

LevelSets == {S \in SUBSET Prices : \A p, q \in S : p # q => ~Near(p, q)}

Formed(found) == {p \in found : \A q \in levels : ~Near(p, q)}

\* Levels in the order of their prices.
Ascending(S) ==
    CHOOSE q \in [1..Cardinality(S) -> S] : \A j, k \in 1..Cardinality(S) : j < k => q[j] < q[k]

AnnounceNext(todo, target) ==
    IF todo = <<>> THEN levels' = target /\ call' = NoCall
    ELSE /\ call' = [pc |-> "form", todo |-> todo, target |-> target, id |-> 0]
         /\ UNCHANGED levels

Rebuild ==
    /\ call = NoCall
    /\ Count("rebuilds", MaxRebuilds)
    /\ \E found \in LevelSets : AnnounceNext(Ascending(Formed(found)), found)
    /\ UNCHANGED <<active, server, wire, linked, told, astray>>

-----------------------------------------------------------------------------
(* SignalLevelBridge::on_level_formed *)

\* A triggered level goes first, else the oldest; nobody passes a mid to
\* measure distances from.
Victim ==
    LET oldest == Min({active[i].at : i \in DOMAIN active})
    IN  IF TriggeredIn(active) # {} THEN Min(TriggeredIn(active))
        ELSE Min({i \in DOMAIN active : active[i].at = oldest})

MakeRoom ==
    /\ call.pc = "form"
    /\ IF Cardinality(DOMAIN active) >= MaxServer
       THEN /\ active' = Minus(active, {Victim})
            /\ call' = [call EXCEPT !.pc = "remove", !.id = Victim]
       ELSE /\ call' = [call EXCEPT !.pc = "create"]
            /\ UNCHANGED active
    /\ UNCHANGED <<levels, server, wire, linked, used, told, astray>>

\* What the terminal tells a subscriber.
Tell(m) == wire' = IF linked THEN Append(wire, m) ELSE wire

Message(kind, S) == [kind |-> kind, ids |-> S]

\* The result of the DELETE is ignored.
RemoveVictim ==
    /\ call.pc = "remove"
    /\ call' = [call EXCEPT !.pc = "create"]
    /\ \/ /\ call.id \in DOMAIN server
          /\ server' = Minus(server, {call.id})
          /\ Tell(Message("removed", {call.id}))
          /\ UNCHANGED <<used, astray>>
       \/ /\ call.id \notin DOMAIN server
          /\ UNCHANGED <<server, wire, used, astray>>
       \/ /\ call.id \in DOMAIN server
          /\ Count("faults", MaxFaults)
          /\ astray' = astray \union {call.id}
          /\ UNCHANGED <<server, wire>>
    /\ UNCHANGED <<levels, active, linked, told>>

\* The terminal stores a level under the next id.
Store(p) ==
    /\ used.ids < MaxIds
    /\ server' = Plus(server, used.ids + 1, [price |-> p, triggered |-> FALSE])
    /\ Tell(Message("placed", {used.ids + 1}))

\* The POST is answered with or without an Id, refused, or its answer is lost.
Create ==
    /\ call.pc = "create"
    /\ \/ /\ Store(Head(call.todo))
          /\ used' = [used EXCEPT !.ids = @ + 1]
          /\ \/ call' = [call EXCEPT !.pc = "insert", !.id = used.ids + 1]
             \/ call' = [call EXCEPT !.pc = "find"]
          /\ UNCHANGED levels
       \/ /\ Store(Head(call.todo))
          /\ used.faults < MaxFaults
          /\ used' = [used EXCEPT !.ids = @ + 1, !.faults = @ + 1]
          /\ AnnounceNext(Tail(call.todo), call.target)
       \/ /\ AnnounceNext(Tail(call.todo), call.target)
          /\ UNCHANGED <<server, wire, used>>
    /\ UNCHANGED <<active, linked, told, astray>>

\* Without an Id the level is looked up by its price among the untriggered.
Find ==
    /\ call.pc = "find"
    /\ LET same == {i \in DOMAIN server \ TriggeredIn(server) : server[i].price = Head(call.todo)}
       IN  \/ /\ \E i \in same : call' = [call EXCEPT !.pc = "insert", !.id = i]
              /\ UNCHANGED <<levels, used>>
           \/ /\ same = {}
              /\ AnnounceNext(Tail(call.todo), call.target)
              /\ UNCHANGED used
           \/ /\ Count("faults", MaxFaults)
              /\ AnnounceNext(Tail(call.todo), call.target)
    /\ UNCHANGED <<active, server, wire, linked, told, astray>>

Insert ==
    /\ call.pc = "insert"
    /\ active' = Plus(active, call.id, [at |-> used.rebuilds, triggered |-> FALSE])
    /\ astray' = IF call.id \in told THEN astray \union {call.id} ELSE astray
    /\ AnnounceNext(Tail(call.todo), call.target)
    /\ UNCHANGED <<server, wire, linked, used, told>>

-----------------------------------------------------------------------------
(* NotificationFeed::handle_message_ and the bridge's handlers.  A level     *)
(* learnt from the feed has no time of creation: it counts as the oldest.    *)

Learn(S) ==
    active' = [i \in DOMAIN active \union S |->
                  IF i \in S THEN [at |-> 0, triggered |-> FALSE] ELSE active[i]]

OnSnapshot(m) == active' = [i \in m.ids |-> [at |-> 0, triggered |-> i \in m.triggered]]

\* Only what is known already is taken over.
OnPlacedKnown(m) == Learn(m.ids \intersect DOMAIN active)

OnPlaced(m) == Learn(m.ids)

OnTriggered(m) ==
    active' = [i \in DOMAIN active |->
                  IF i \in m.ids THEN [active[i] EXCEPT !.triggered = TRUE] ELSE active[i]]

OnRemoved(m) == active' = Minus(active, m.ids)

OnRemovedAll == active' = <<>>

OnRemovedTriggered == active' = Minus(active, TriggeredIn(active))

HandleMessage ==
    /\ wire # <<>>
    /\ wire' = Tail(wire)
    /\ LET m == Head(wire) IN
       /\ CASE m.kind = "snapshot"    -> OnSnapshot(m)
            [] m.kind = "placed"      -> OnPlaced(m)
            [] m.kind = "triggered"   -> OnTriggered(m)
            [] m.kind = "removed"     -> OnRemoved(m)
            [] m.kind = "removed_all" -> OnRemovedAll
            [] m.kind = "removed_triggered" -> OnRemovedTriggered
       /\ told' = IF m.kind \in {"snapshot", "placed"} THEN told ELSE told \union m.ids
    /\ UNCHANGED <<levels, call, server, linked, used, astray>>

-----------------------------------------------------------------------------
(* The terminal, its user and the bot's hourly cleanup. *)

Trigger ==
    \E i \in DOMAIN server \ TriggeredIn(server) :
        /\ server' = [server EXCEPT ![i].triggered = TRUE]
        /\ Tell(Message("triggered", {i}))
        /\ Count("changes", MaxChanges)
        /\ UNCHANGED <<levels, call, active, linked, told, astray>>

UserPlaces ==
    \E p \in Prices :
        /\ Store(p)
        /\ used.changes < MaxChanges
        /\ used' = [used EXCEPT !.ids = @ + 1, !.changes = @ + 1]
        /\ UNCHANGED <<levels, call, active, linked, told, astray>>

Removing(kind, S) ==
    /\ S # {}
    /\ server' = Minus(server, S)
    /\ Tell(Message(kind, S))
    /\ Count("changes", MaxChanges)
    /\ UNCHANGED <<levels, call, active, linked, told, astray>>

UserRemoves    == \E i \in DOMAIN server : Removing("removed", {i})
UserRemovesAll == Removing("removed_all", DOMAIN server)

\* schedule_signal_level_cleanup_
Cleanup == Removing("removed_triggered", TriggeredIn(server))

\* The connection comes back, but nothing subscribes again.
LinkLost ==
    /\ linked /\ Count("faults", MaxFaults)
    /\ linked' = FALSE /\ wire' = <<>>
    /\ UNCHANGED <<levels, call, active, server, told, astray>>

\* The price of the level the terminal may start with.
StartPrice == Min(Prices)

LevelsInit ==
    /\ levels = {} /\ call = NoCall
    /\ active = <<>>
    /\ \E S \in {{}, {1}} : \E T \in SUBSET S :
          /\ server = [i \in S |-> [price |-> StartPrice, triggered |-> i \in T]]
          /\ wire = <<[kind |-> "snapshot", ids |-> S, triggered |-> T]>>
          /\ used = [ids |-> Cardinality(S), rebuilds |-> 0, changes |-> 0, faults |-> 0]
    /\ linked = TRUE
    /\ told = {} /\ astray = {}

LevelsNext ==
    \/ Rebuild \/ MakeRoom \/ RemoveVictim \/ Create \/ Find \/ Insert
    \/ HandleMessage
    \/ Trigger \/ UserPlaces \/ UserRemoves \/ UserRemovesAll \/ Cleanup \/ LinkLost

LevelsSpec == LevelsInit /\ [][LevelsNext]_levelVars

-----------------------------------------------------------------------------

\* Types, and the bridge works through announcements only while it makes calls.
LevelsTypeOK ==
    /\ levels \in LevelSets
    /\ call.pc \in {"idle", "form", "remove", "create", "find", "insert"}
    /\ call.pc = "idle" <=> call.todo = <<>>
    /\ DOMAIN active \subseteq 1..used.ids /\ DOMAIN server \subseteq 1..used.ids
    /\ \A i \in DOMAIN active : active[i].at \in 0..used.rebuilds
    /\ \A i \in DOMAIN server : server[i].price \in Prices

\* Once every message is handled and no call is under way, the bridge has the
\* terminal's levels and knows which are triggered, whatever was placed,
\* removed, triggered or lost meanwhile: but for a level that was removed or
\* triggered, and this handled, before on_level_formed entered it, and one
\* whose DELETE failed.
LevelsAgree ==
    linked /\ wire = <<>> /\ call = NoCall =>
        \A i \in LevelIds \ astray :
            /\ i \in DOMAIN active <=> i \in DOMAIN server
            /\ i \in TriggeredIn(active) <=> i \in TriggeredIn(server)
=============================================================================
