-------------------------------- MODULE Wire --------------------------------
(* What the bot reads in the terminal's JSON, and the terminal in the bot's: *)
(* MetaScalpCodec under the dispatch of MarketDataFeed and NotificationFeed  *)
(* and the queries of OrderGateway, and the readers of PipelineProcessor,    *)
(* which take a message of the hot path as it came.  A JSON object maps keys *)
(* <<name, lower>> to values <<type, content>>; lower says that the first    *)
(* letter is a small one.  Of a message's fields those are kept that are     *)
(* read in different ways; all quantities of a message are one amount.  Each *)
(* message is read by itself, so one is under way at a time.                 *)
EXTENDS Integers, Sequences
LOCAL INSTANCE SequencesExt

CONSTANTS
    Amounts,        \* quantities, prices and ids
    Bases,          \* coins
    Instants,       \* times
    Zones,          \* offsets of the time zones the terminal writes, in minutes
    MaxItems        \* bound: items of a list

ASSUME WireAssumption ==
    /\ Amounts \subseteq Nat \ {0} /\ Instants \subseteq Nat \ {0}
    /\ Zones \subseteq Nat /\ MaxItems \in Nat

VARIABLES
    said,           \* [kind, items, fault, ..]: what the message means, and how it is put
    heard           \* [refused, items]: what its reader makes of it

wireVars == <<said, heard>>

----------------------------------------------------------------------------
(* Values.                                                                  *)

Null == <<"null", 0>>

\* The bot's own clock, where a message may come without its time.
Arrival == -1

\* The terminal's numbers for names.
Number == [Buy |-> 1, Sell |-> 2, Limit |-> 0, Stop |-> 1, StopLoss |-> 2, TakeProfit |-> 3,
           Market |-> 4, New |-> 0, Open |-> 1, Closed |-> 2, Spot |-> 0, Futures |-> 1]

OrderTypes == <<"Limit", "Stop", "StopLoss", "TakeProfit", "Market">>
OrderStatuses == <<"New", "Open", "Closed">>
MarketTypes == <<"Spot", "Futures">>

Symbol(base, sep, small) == [base |-> base, sep |-> sep, small |-> small]
Internal(s) == Symbol(s.base, "_", FALSE)
Metascalp(s) == Symbol(s.base, "", FALSE)
NoSymbol == Symbol("", "_", FALSE)

\* One of names, by name or by number from 0.
Enumerated(names, v, other) ==
    IF v[1] = "number" THEN IF v[2] + 1 \in DOMAIN names THEN names[v[2] + 1] ELSE other
    ELSE IF v[1] = "string" /\ Contains(names, v[2]) THEN v[2] ELSE other

ParseSide(v) ==
    CASE v[1] = "string" /\ v[2] \in {"Buy", "Bid"} -> "Buy"
      [] v[1] = "string" /\ v[2] \in {"Sell", "Ask"} -> "Sell"
      [] v = <<"number", 1>> -> "Buy"
      [] v = <<"number", 2>> -> "Sell"
      [] OTHER -> "None"

ParseOrderType(v) == Enumerated(OrderTypes, v, "Unknown")

\* Mutant: an unknown status taken for that of a new order.
ParseOrderStatusNew(v) == Enumerated(OrderStatuses, v, "New")

ParseOrderStatus(v) == Enumerated(OrderStatuses, v, "Closed")

ParseMarketType(v) == Enumerated(MarketTypes, v, "Spot")

\* The minutes parse_timestamp takes +HHMM for: of MM it sees the second digit
\* and the end of the text, whose '\0' counts as -48.
Misread(zone) == (zone \div 60) * 60 + 10 * (zone % 10) - 48

\* A stamp is <<local time, offset, whether a colon parts its hours>>.  No digit
\* is looked at before it is taken for one: a text of 19 characters or more is
\* the time its characters make; a shorter one is no time.
ParseTimestamp(v) ==
    CASE v[1] = "stamp" -> v[2][1] - (IF v[2][3] THEN v[2][2] ELSE Misread(v[2][2]))
      [] v[1] = "text" -> v[2]
      [] OTHER -> 0

\* parse_notification_type: an unknown type is a Trade, which is ignored.
ParseKind(v) ==
    IF v[1] = "string" /\ v[2] \in {"SignalLevel", "BigTick", "ScreenerNewCoin"}
    THEN v[2] ELSE "Trade"

\* What a value of type r is read as, and what it is if it cannot be read.
ReadAs(r, v) ==
    CASE r = "amount" -> IF v[1] = "number" THEN v[2] ELSE 0
      [] r = "flag" -> v = <<"bool", TRUE>>
      [] r = "symbol" -> IF v[1] = "symbol" THEN Internal(v[2]) ELSE NoSymbol
      [] r = "side" -> ParseSide(v)
      [] r = "type" -> ParseOrderType(v)
      [] r = "status" -> ParseOrderStatus(v)
      [] r = "kind" -> ParseKind(v)
      [] r = "market" -> ParseMarketType(v)
      [] r = "taker" -> IF v[1] = "number" THEN ParseSide(v) ELSE "None"
      [] r = "time" -> ParseTimestamp(v)
      [] r = "moment" -> IF v[1] \in {"stamp", "text", "string"} THEN ParseTimestamp(v) ELSE Arrival
Neutral(r) ==
    CASE r = "amount" -> {0} [] r = "flag" -> {FALSE} [] r = "symbol" -> {NoSymbol}
      [] r \in {"side", "taker"} -> {"None"} [] r = "type" -> {"Unknown"}
      [] r = "status" -> {"Closed"} [] r = "kind" -> {"Trade"} [] r = "market" -> {"Spot"}
      [] r = "time" -> {0} [] r = "moment" -> {0, Arrival}

----------------------------------------------------------------------------
(* The objects, field by field.                                             *)

OrderUpdate == [OrderId |-> "amount", Ticker |-> "symbol", Side |-> "side", Type |-> "type",
                Status |-> "status", Time |-> "time"]
RestOrder == [Id |-> "amount", Ticker |-> "symbol", Side |-> "side", Type |-> "type",
              Status |-> "status", CreateDate |-> "time"]
PlaceOrderResult == [OrderId |-> "amount", ExecutionTimeMs |-> "amount"]
PositionUpdate == [Id |-> "amount", Ticker |-> "symbol", Side |-> "side", Status |-> "status"]
BalanceEntry == [Total |-> "amount", Free |-> "amount", Locked |-> "amount"]
TradeItem == [Price |-> "amount", Size |-> "amount", Side |-> "side", Time |-> "time"]
BookLevel == [Price |-> "amount", Size |-> "amount"]
BookChange == [Price |-> "amount", Size |-> "amount", Type |-> "side"]
ConnectionInfo == [Id |-> "amount", ViewMode |-> "flag"]
TickerInfo == [Name |-> "symbol", PriceIncrement |-> "amount", MinSize |-> "amount"]
FinresEntry == [Result |-> "amount", Funds |-> "amount", Blocked |-> "amount"]
Notice == [Type |-> "kind", Ticker |-> "symbol", Size |-> "amount", MarketType |-> "market",
           Date |-> "time"]
LevelOfUser == [Id |-> "amount", Ticker |-> "symbol", IsTriggered |-> "flag",
                TriggerTime |-> "time"]
LevelTriggered == [Ticker |-> "symbol", Price |-> "amount", TriggerTime |-> "moment"]
BookSettings == [Ticker |-> "symbol", LargeAmountUsd |-> "amount"]
ClusterItem == [Price |-> "amount", AskSize |-> "amount", BidSize |-> "amount"]
MarkPrice == [Ticker |-> "symbol", MarkPrice |-> "amount"]
Funding == [Ticker |-> "symbol", FundingRate |-> "amount", FundingTime |-> "time"]

\* As PipelineProcessor reads them, from the message itself.
RawTrade == [Price |-> "amount", Size |-> "amount", Side |-> "taker"]
RawChange == [Price |-> "amount", Size |-> "amount", Type |-> "taker"]
RawMark == [Ticker |-> "symbol", Price |-> "amount"]

Objects == [order_update |-> OrderUpdate, orders |-> RestOrder, placed |-> PlaceOrderResult,
            positions |-> PositionUpdate, position_update |-> PositionUpdate, balances |-> BalanceEntry, trades |-> TradeItem,
            snapshot |-> BookLevel, orderbook_update |-> BookChange, connections |-> ConnectionInfo,
            tickers |-> TickerInfo, finres |-> FinresEntry, notification |-> Notice,
            signal_levels |-> LevelOfUser, triggered |-> LevelTriggered, settings |-> BookSettings,
            clusters |-> ClusterItem, mark_price |-> MarkPrice, funding |-> Funding,
            raw_trades |-> RawTrade, raw_changes |-> RawChange, raw_mark |-> RawMark]

\* Kinds that are a list of objects, and those that come as an HTTP answer.
Lists == {"orders", "positions", "balances", "trades", "snapshot", "orderbook_update",
          "connections", "tickers", "finres", "signal_levels", "clusters", "notification",
          "raw_trades", "raw_changes"}
Answers == {"orders", "placed", "positions", "connections", "tickers", "settings", "clusters"}

\* The kinds of the hot path, and those whose items are taken one by one.
Raw == {"raw_trades", "raw_changes", "raw_mark"}
Piecewise == Raw \cup {"notification"}

Required(k) ==
    CASE k = "order_update" -> {"OrderId", "Ticker"}
      [] k \in {"orders", "positions", "position_update"} -> {"Id", "Ticker"}
      [] OTHER -> {}

\* Fields with an older name, tried when the first is absent.
OldName == [IsTriggered |-> "Triggered", TriggerTime |-> "Time"]

----------------------------------------------------------------------------
(* Reading.                                                                 *)

HasRequired(j, f) == \E small \in BOOLEAN : <<f, small>> \in DOMAIN j

\* The field under its name, else with its first letter flipped.
GetVal(j, f) ==
    IF <<f, FALSE>> \in DOMAIN j THEN j[<<f, FALSE>>]
    ELSE IF <<f, TRUE>> \in DOMAIN j THEN j[<<f, TRUE>>] ELSE Null

\* On the hot path only a ticker may come with a small letter.
GetRaw(j, f) == IF f = "Ticker" \/ <<f, FALSE>> \in DOMAIN j THEN GetVal(j, f) ELSE Null

Reading(k, j) ==
    [f \in DOMAIN Objects[k] |->
        ReadAs(Objects[k][f], CASE k \in Raw -> GetRaw(j, f)
                                [] f \in DOMAIN OldName /\ ~HasRequired(j, f) ->
                                     GetVal(j, OldName[f])
                                [] OTHER -> GetVal(j, f))]

\* What is taken of items one by one: changes and trades with a side,
\* notifications that are not of trades and, if a market is configured
\* (strict), of that market.
Takes(k, r, strict) ==
    /\ k = "raw_trades" => r.Side # "None"
    /\ k = "raw_changes" => r.Type # "None"
    /\ k = "notification" => r.Type # "Trade" /\ (strict => r.MarketType = "Futures")

\* A raw mark price fails by its types only: an empty ticker and a price of 0
\* go on to the executor.
Legible(k, j) ==
    k = "raw_mark" => GetRaw(j, "Ticker")[1] = "symbol" /\ GetRaw(j, "Price")[1] = "number"

\* An object that is dropped (websocket) or fails the query (HTTP).
Unfit(k, j) ==
    LET r == Reading(k, j)
    IN  \/ \E f \in Required(k) : ~HasRequired(j, f)
        \/ k \in {"order_update", "orders"} /\ r.Type = "Unknown"
        \/ k \in {"mark_price", "funding"} /\ r.Ticker = NoSymbol
        \/ k = "mark_price" /\ r.MarkPrice = 0

\* What the reader of a message of objects js makes of it; ok says that an
\* HTTP answer has status 200, found that a list is where it is looked for:
\* clusters alone insist on it.
Hearing(k, js, ok, found, strict) ==
    LET refused == \/ ~ok
                   \/ k = "clusters" /\ ~found
                   \/ found /\ \E i \in DOMAIN js : Unfit(k, js[i])
        legible == SelectSeq(js, LAMBDA j : Legible(k, j))
        read == [i \in DOMAIN legible |-> Reading(k, legible[i])]
    IN  [refused |-> refused,
         items |-> IF refused \/ ~found THEN <<>>
                   ELSE SelectSeq(read, LAMBDA r : k \in Piecewise => Takes(k, r, strict))]

----------------------------------------------------------------------------
(* Writing: the terminal, in several dialects, with one field at fault.     *)

Facts(r) ==
    CASE r = "amount" -> Amounts [] r = "flag" -> BOOLEAN
      [] r = "symbol" -> {Symbol(b, "_", FALSE) : b \in Bases}
      [] r \in {"side", "taker"} -> {"Buy", "Sell"} [] r = "type" -> ToSet(OrderTypes)
      [] r = "status" -> ToSet(OrderStatuses)
      [] r = "kind" -> {"SignalLevel", "BigTick", "ScreenerNewCoin"}
      [] r = "market" -> ToSet(MarketTypes)
      [] r \in {"time", "moment"} -> Instants

Things == [amount : Facts("amount"), flag : Facts("flag"), symbol : Facts("symbol"),
           side : Facts("side"), taker : Facts("taker"), type : Facts("type"),
           status : Facts("status"), kind : Facts("kind"), market : Facts("market"),
           time : Facts("time"), moment : Facts("moment")]
Docs(k) == {[f \in DOMAIN Objects[k] |-> t[Objects[k][f]]] : t \in Things}

\* contract: an update of a position calls its id PositionId, as the API
\* contract has it; the codec looks for Id.
Dialects == [small : BOOLEAN, numbers : BOOLEAN, old : BOOLEAN, sep : {"", "-"}, zone : Zones,
             colon : BOOLEAN, contract : BOOLEAN]

Written(r, v, d) ==
    CASE r = "amount" -> <<"number", v>>
      [] r = "flag" -> <<"bool", v>>
      [] r = "symbol" -> <<"symbol", Symbol(v.base, d.sep, d.small)>>
      [] r \in {"side", "taker", "type", "status", "market"} /\ d.numbers -> <<"number", Number[v]>>
      [] r \in {"time", "moment"} -> <<"stamp", <<v + d.zone, d.zone, d.colon>>>>
      [] OTHER -> <<"string", v>>

\* Nothing wrong; or a field left out, null, of another type or name, a short
\* text or one as long as a time, a number of 0 or an empty ticker.
NoFault == [item |-> 0, field |-> "", value |-> Null]
Broken(r) ==
    {<<"absent", 0>>, Null} \cup
    (CASE r = "symbol" -> {<<"symbol", NoSymbol>>}
       [] r = "amount" -> {<<"number", 0>>, <<"string", "Odd">>}
       [] OTHER -> {<<"string", "Odd">>} \cup {<<"text", t + 1>> : t \in Instants})
Faults(k, n) ==
    {NoFault} \cup
    {[item |-> i, field |-> x[1], value |-> x[2]] :
        i \in 1..n, x \in UNION {{<<f, v>> : v \in Broken(Objects[k][f])} : f \in DOMAIN Objects[k]}}

JsonOf(k, i, doc, d, fault) ==
    LET lost(f) == fault.item = i /\ fault.field = f /\ fault.value[1] = "absent"
        kept == {f \in DOMAIN doc : ~lost(f)}
        name(f) == CASE d.old /\ f \in DOMAIN OldName -> OldName[f]
                     [] d.contract /\ k = "position_update" /\ f = "Id" -> "PositionId"
                     [] OTHER -> f
        written(f) == IF fault.item = i /\ fault.field = f
                      THEN fault.value ELSE Written(Objects[k][f], doc[f], d)
    IN  [key \in {<<name(f), d.small>> : f \in kept} |->
            written(CHOOSE f \in kept : name(f) = key[1])]

----------------------------------------------------------------------------
(* The conversation.                                                        *)

Silence == [kind |-> "none", items |-> <<>>, fault |-> NoFault, found |-> TRUE, strict |-> FALSE,
            colon |-> TRUE, contract |-> FALSE, plain |-> TRUE]
Unheard == [refused |-> FALSE, items |-> <<>>]

WireInit == said = Silence /\ heard = Unheard

\* A message arrives, or the answer to a query.
Converse ==
    /\ said = Silence
    /\ \E k \in DOMAIN Objects : \E n \in (IF k \in Lists THEN 0..MaxItems ELSE {1}) :
       \E doc \in Docs(k), fault \in Faults(k, n), d \in Dialects,
          ok \in (IF k \in Answers THEN BOOLEAN ELSE {TRUE}),
          found \in (IF k \in Lists THEN BOOLEAN ELSE {TRUE}),
          strict \in (IF k = "notification" THEN BOOLEAN ELSE {FALSE}) :
            /\ d.contract => k = "position_update"
            /\ said' = [kind |-> k, items |-> [i \in 1..n |-> doc], fault |-> fault,
                        found |-> ok /\ found, strict |-> strict, colon |-> d.colon,
                        contract |-> d.contract, plain |-> k \in Raw => ~d.small /\ d.numbers]
            /\ heard' = Hearing(k, [i \in 1..n |-> JsonOf(k, i, doc, d, fault)], ok, found, strict)

\* The body of place_order, and the order the terminal understands.
Body(o) == [Ticker |-> Metascalp(o.Ticker), Side |-> IF o.Side = "Buy" THEN 1 ELSE 2,
            Type |-> (CHOOSE i \in DOMAIN OrderTypes : OrderTypes[i] = o.Type) - 1]
Understood(b) == [Ticker |-> Symbol(b.Ticker.base, "_", FALSE),
                  Side |-> CHOOSE s \in Facts("side") : Number[s] = b.Side,
                  Type |-> CHOOSE t \in Facts("type") : Number[t] = b.Type]

PlaceOrder ==
    /\ said = Silence
    /\ \E o \in [Ticker : Facts("symbol"), Side : Facts("side"), Type : Facts("type")] :
          /\ said' = [Silence EXCEPT !.kind = "request", !.items = <<o>>]
          /\ heard' = [refused |-> FALSE, items |-> <<Understood(Body(o))>>]

Handled == said # Silence /\ said' = Silence /\ heard' = Unheard

WireNext == Converse \/ PlaceOrder \/ Handled

WireSpec == WireInit /\ [][WireNext]_wireVars

----------------------------------------------------------------------------

\* Types of the module's state.
WireTypeOK ==
    /\ said.kind \in DOMAIN Objects \cup {"none", "request"}
    /\ heard.refused \in BOOLEAN
    /\ heard.refused \/ ~said.found => heard.items = <<>>

\* The fields in which what was heard in place of doc differs from it, but for
\* the times of a message whose offsets have no colon.
Strays(doc, item) ==
    {f \in DOMAIN doc :
        /\ item[f] # doc[f]
        /\ said.colon \/ Objects[said.kind][f] \notin {"time", "moment"}}

\* The field at fault reads as nothing; a time may read as another one, if the
\* text in its place is as long as a time.
ReadsAsNothing(item) ==
    LET f == said.fault.field
        r == Objects[said.kind][f]
    IN  \/ item[f] \in Neutral(r)
        \/ r \in {"time", "moment"} /\ said.fault.value[1] = "text"

\* Taken whole or not at all: a field at fault refuses the message or reads as
\* nothing; an update of a position under the contract's names is refused.
WholeTrue ==
    /\ said.fault = NoFault /\ said.found /\ said.colon /\ ~said.contract =>
          heard = [refused |-> FALSE, items |-> said.items]
    /\ heard.items # <<>> =>
          /\ Len(heard.items) = Len(said.items)
          /\ \A i \in DOMAIN said.items :
                LET odd == Strays(said.items[i], heard.items[i])
                IN  odd # {} => /\ said.fault.item = i /\ odd = {said.fault.field}
                                /\ ReadsAsNothing(heard.items[i])
    /\ \A i \in DOMAIN said.items : said.found /\ said.fault.item = i =>
          (said.fault.field \in Required(said.kind) /\ said.fault.value[1] = "absent"
             => heard.refused)
    /\ said.contract => heard.refused

\* Taken item by item: those that are wanted, in the one dialect of the hot
\* path; one at fault is left out or has a field missing, and none lacks its
\* side or kind.
PiecesTrue ==
    LET odd == {i \in DOMAIN heard.items : Strays(said.items[1], heard.items[i]) # {}} IN
    /\ said.fault = NoFault /\ said.found /\ said.plain /\ said.colon =>
          heard.items = SelectSeq(said.items, LAMBDA r : Takes(said.kind, r, said.strict))
    /\ Len(heard.items) <= Len(said.items)
    /\ \A i, j \in odd : i = j
    /\ \A i \in odd : LET f == said.fault.field IN
          /\ Strays(said.items[1], heard.items[i]) = {f}
          /\ ReadsAsNothing(heard.items[i])
          /\ Objects[said.kind][f] \notin {"taker", "kind"}

\* A sound message is read as it is meant in every dialect but two: a position
\* under the contract's own names is not heard at all, and an offset without
\* its colon makes another time.  A field at fault never makes another order,
\* side or type of it, never a living order; another time only where its text
\* is long enough to be one.
ReadsTrue == IF said.kind \in Piecewise THEN PiecesTrue ELSE WholeTrue
=============================================================================
