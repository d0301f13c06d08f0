------------------------- MODULE LiveExecutorProofs -------------------------
(* Proofs about LiveExecutor, for any plans, faults, fills and order of the   *)
(* threads: a Closed trade is never revived, and a trade is recorded once.    *)
EXTENDS LiveExecutor, SumProofs, FiniteSetTheorems, TLAPS

\* A list, whatever it lists.
IsList(s) == Len(s) \in Nat /\ s = [i \in 1..Len(s) |-> s[i]]

-----------------------------------------------------------------------------
(* Lists. *)

LEMMA ListIs ==
    ASSUME NEW s, IsList(s)
    PROVE  s \in Seq({s[i] : i \in 1..Len(s)}) /\ DOMAIN s = 1..Len(s)
<1> DEFINE V == {s[i] : i \in 1..Len(s)}
           n == Len(s)
<1>1. n \in Nat /\ s = [i \in 1..n |-> s[i]] BY DEF IsList
<1>2. s \in [1..n -> V] BY <1>1
<1>3. [1..n -> V] \subseteq Seq(V) BY <1>1
<1> QED BY <1>1, <1>2, <1>3

LEMMA ListEmpty == IsList(<<>>) /\ Len(<<>>) = 0
BY DEF IsList

LEMMA ListAppend ==
    ASSUME NEW s, IsList(s), NEW e
    PROVE  /\ IsList(Append(s, e)) /\ Len(Append(s, e)) = Len(s) + 1
           /\ Append(s, e)[Len(s) + 1] = e
           /\ \A i \in 1..Len(s) : Append(s, e)[i] = s[i]
<1> DEFINE V == {s[i] : i \in 1..Len(s)} \union {e}
           t == Append(s, e)
<1>1. s \in Seq(V)
  <2>1. s \in Seq({s[i] : i \in 1..Len(s)}) BY ListIs
  <2>2. {s[i] : i \in 1..Len(s)} \subseteq V OBVIOUS
  <2> QED BY <2>1, <2>2
<1>2. e \in V OBVIOUS
<1> HIDE DEF V
<1>3. /\ t \in Seq(V) /\ Len(t) = Len(s) + 1 /\ t[Len(s) + 1] = e /\ Len(s) \in Nat
      /\ \A i \in 1..Len(s) : t[i] = s[i]
  BY <1>1, <1>2
<1> HIDE DEF t
<1>4. Len(t) \in Nat /\ t = [i \in 1..Len(t) |-> t[i]] BY <1>3
<1> QED BY <1>3, <1>4 DEF IsList, t

LEMMA ListTail ==
    ASSUME NEW s, IsList(s), s # <<>>
    PROVE  /\ IsList(Tail(s)) /\ Len(Tail(s)) = Len(s) - 1 /\ Head(s) = s[1] /\ Len(s) > 0
           /\ \A i \in 1..Len(Tail(s)) : Tail(s)[i] = s[i + 1]
<1> DEFINE V == {s[i] : i \in 1..Len(s)}
           t == Tail(s)
<1>1. s \in Seq(V) BY ListIs
<1> HIDE DEF V
<1>2. /\ t \in Seq(V) /\ Len(t) = Len(s) - 1 /\ Len(s) \in Nat /\ Len(s) > 0 /\ Head(s) = s[1]
      /\ \A i \in 1..Len(t) : t[i] = s[i + 1]
  BY <1>1
<1> HIDE DEF t
<1>3. Len(t) \in Nat /\ t = [i \in 1..Len(t) |-> t[i]] BY <1>2
<1> QED BY <1>2, <1>3 DEF IsList, t

\* t lists what s and then r list.
Joined(s, r, t) ==
    /\ IsList(t) /\ Len(t) = Len(s) + Len(r)
    /\ \A i \in 1..Len(s) : t[i] = s[i]
    /\ \A i \in 1..Len(r) : t[Len(s) + i] = r[i]

LEMMA ListConcat == ASSUME NEW s, IsList(s), NEW r, IsList(r) PROVE Joined(s, r, s \o r)
<1> DEFINE V == {s[i] : i \in 1..Len(s)} \union {r[i] : i \in 1..Len(r)}
           t == s \o r
<1>1. s \in Seq(V) /\ r \in Seq(V)
  <2>1. s \in Seq({s[i] : i \in 1..Len(s)}) /\ r \in Seq({r[i] : i \in 1..Len(r)}) BY ListIs
  <2>2. {s[i] : i \in 1..Len(s)} \subseteq V /\ {r[i] : i \in 1..Len(r)} \subseteq V OBVIOUS
  <2> QED BY <2>1, <2>2
<1> HIDE DEF V
<1>2. /\ t \in Seq(V) /\ Len(t) = Len(s) + Len(r) /\ Len(s) \in Nat /\ Len(r) \in Nat
      /\ \A i \in 1..Len(s) : t[i] = s[i]
      /\ \A i \in 1..Len(r) : t[Len(s) + i] = r[i]
  BY <1>1
<1> HIDE DEF t
<1>3. Len(t) \in Nat /\ t = [i \in 1..Len(t) |-> t[i]] BY <1>2
<1> QED BY <1>2, <1>3 DEF IsList, Joined, t

LEMMA ListConcatEmpty == ASSUME NEW s, IsList(s) PROVE s \o <<>> = s
<1> DEFINE V == {s[i] : i \in 1..Len(s)}
<1>1. s \in Seq(V) BY ListIs
<1> HIDE DEF V
<1> QED BY <1>1

LEMMA ListConcatOne == ASSUME NEW s, IsList(s), NEW e PROVE s \o <<e>> = Append(s, e)
<1> DEFINE V == {s[i] : i \in 1..Len(s)} \union {e}
<1>1. s \in Seq(V) /\ e \in V
  <2>1. s \in Seq({s[i] : i \in 1..Len(s)}) BY ListIs
  <2>2. {s[i] : i \in 1..Len(s)} \subseteq V OBVIOUS
  <2> QED BY <2>1, <2>2
<1> HIDE DEF V
<1> QED BY <1>1

LEMMA ListOf ==
    ASSUME NEW n \in Nat, NEW s, DOMAIN s = 1..n, s = [i \in 1..n |-> s[i]]
    PROVE  IsList(s) /\ Len(s) = n
<1> DEFINE V == {s[i] : i \in 1..n}
<1>1. s \in [1..n -> V] OBVIOUS
<1> HIDE DEF V
<1>2. s \in Seq(V) /\ Len(s) = n BY <1>1
<1> QED BY <1>2 DEF IsList

LEMMA ListExcept ==
    ASSUME NEW s, IsList(s), NEW k \in 1..Len(s), NEW e
    PROVE  /\ IsList([s EXCEPT ![k] = e]) /\ Len([s EXCEPT ![k] = e]) = Len(s)
           /\ [s EXCEPT ![k] = e][k] = e
           /\ \A i \in 1..Len(s) : i # k => [s EXCEPT ![k] = e][i] = s[i]
<1> DEFINE t == [s EXCEPT ![k] = e]
           n == Len(s)
<1>1. n \in Nat /\ s = [i \in 1..n |-> s[i]] /\ DOMAIN s = 1..n BY ListIs DEF IsList
<1>2. /\ DOMAIN t = 1..n /\ t = [i \in 1..n |-> t[i]] /\ t[k] = e
      /\ \A i \in 1..n : i # k => t[i] = s[i]
  BY <1>1
<1> HIDE DEF t
<1>3. IsList(t) /\ Len(t) = n BY <1>1, <1>2, ListOf
<1> QED BY <1>2, <1>3 DEF t

-----------------------------------------------------------------------------
(* How often something is in a list. *)

LEMMA TimesIs == ASSUME NEW s, IsList(s), NEW u PROVE Times(u, s) \in Nat
<1>1. DOMAIN s = 1..Len(s) /\ Len(s) \in Nat BY ListIs DEF IsList
<1>2. IsFiniteSet(1..Len(s)) BY <1>1, FS_Interval
<1>3. {i \in DOMAIN s : s[i] = u} \subseteq 1..Len(s) BY <1>1
<1>4. IsFiniteSet({i \in DOMAIN s : s[i] = u}) BY <1>2, <1>3, FS_Subset
<1> QED BY <1>4, FS_CardinalityType DEF Times

LEMMA TimesNone == ASSUME NEW u, NEW s, DOMAIN s = {} PROVE Times(u, s) = 0
<1>1. {i \in DOMAIN s : s[i] = u} = {} OBVIOUS
<1> QED BY <1>1, FS_EmptySet DEF Times

LEMMA TimesEmpty == ASSUME NEW u PROVE Times(u, <<>>) = 0
<1>1. DOMAIN <<>> = {} OBVIOUS
<1> QED BY <1>1, TimesNone

LEMMA TimesAppend ==
    ASSUME NEW s, IsList(s), NEW e, NEW u
    PROVE  Times(u, Append(s, e)) = Times(u, s) + (IF u = e THEN 1 ELSE 0)
<1> DEFINE t == Append(s, e)
           n == Len(s)
           S == {i \in DOMAIN s : s[i] = u}
           T == {i \in DOMAIN t : t[i] = u}
<1>1. /\ DOMAIN s = 1..n /\ DOMAIN t = 1..(n + 1) /\ n \in Nat
      /\ t[n + 1] = e /\ \A i \in 1..n : t[i] = s[i]
  BY ListIs, ListAppend DEF IsList
<1>2. IsFiniteSet(S)
  <2>1. IsFiniteSet(1..n) BY <1>1, FS_Interval
  <2> QED BY <1>1, <2>1, FS_Subset
<1>3. CASE u = e
  <2>1. T = S \union {n + 1} BY <1>1, <1>3
  <2>2. n + 1 \notin S BY <1>1
  <2>3. Cardinality(T) = Cardinality(S) + 1 BY <1>2, <2>1, <2>2, FS_AddElement
  <2> QED BY <1>3, <2>3 DEF Times
<1>4. CASE u # e
  <2>1. T = S BY <1>1, <1>4
  <2>2. Times(u, t) = Times(u, s) BY <2>1 DEF Times
  <2>3. Times(u, s) \in Nat BY TimesIs
  <2> HIDE DEF S, T, t
  <2>4. Times(u, t) = Times(u, s) + 0 BY <2>2, <2>3
  <2> QED BY <1>4, <2>4 DEF t
<1> QED BY <1>3, <1>4

-----------------------------------------------------------------------------
(* The invariant. *)

OrderShape(o) ==
    o = [by |-> o.by, role |-> o.role, size |-> o.size, filled |-> o.filled, live |-> o.live]

\* An entry has a size and a number of fills.
OrderOK(o) ==
    /\ OrderShape(o) /\ o.by \in Uids /\ o.live \in BOOLEAN
    /\ o.role = "entry" => o.filled \in Nat /\ o.size \in Nat \ {0}

UpdateShape(u) == u = [id |-> u.id, status |-> u.status, filled |-> u.filled]

\* An order that is done is filled as its last update says, and one with a
\* partial fill has fills.
UpdateOK(u, orders) ==
    /\ UpdateShape(u) /\ u.id \in 1..Len(orders) /\ u.status \in {"Open", "Closed"}
    /\ u.status = "Closed" => ~orders[u.id].live /\ u.filled = orders[u.id].filled
    /\ u.status = "Open" /\ u.filled # 0 => orders[u.id].filled # 0

ExchangeOK(xs) ==
    /\ xs = [orders |-> xs.orders, ws |-> xs.ws, faults |-> xs.faults]
    /\ IsList(xs.orders) /\ \A i \in 1..Len(xs.orders) : OrderOK(xs.orders[i])
    /\ IsList(xs.ws) /\ \A k \in 1..Len(xs.ws) : UpdateOK(xs.ws[k], xs.orders)

TradeShape(t) ==
    t = [uid |-> t.uid, st |-> t.st, entry |-> t.entry, stop |-> t.stop, tp1 |-> t.tp1,
         exec |-> t.exec, fix |-> t.fix, tp1_filled |-> t.tp1_filled, old |-> t.old]

\* What was executed, the claimed entry order has filled; nothing yet, as long
\* as it is not known whether there is one.
TradeOK(t, orders) ==
    /\ TradeShape(t) /\ t.uid \in Uids /\ t.st \in States
    /\ t.entry # 0 => t.entry \in 1..Len(orders)
    /\ t.stop # 0 => t.stop \in 1..Len(orders)
    /\ t.tp1 # 0 => t.tp1 \in 1..Len(orders)
    /\ t.exec # 0 => t.entry # 0 /\ orders[t.entry].filled # 0
    /\ t.st = "SubmitUnknown" => t.exec = 0

\* A trade is where its plan belongs, once.
ListOK(list, tk, orders) ==
    /\ IsList(list)
    /\ \A i \in 1..Len(list) : TradeOK(list[i], orders) /\ Plans[list[i].uid].ticker = tk
    /\ \A i, j \in 1..Len(list) : list[i].uid = list[j].uid => i = j

TradesOK(ts, orders) == \A tk \in Tickers : ListOK(ts[tk], tk, orders)

\* The submits and the trades they made.
LandedOK(ts, sub, inf) ==
    /\ DOMAIN inf \subseteq sub /\ sub \subseteq Uids
    /\ \A tk \in Tickers : \A i \in 1..Len(ts[tk]) : ts[tk][i].uid \in sub \ DOMAIN inf

ActTimes(u, todo) == IF \E k \in 1..Len(todo) : todo[k].uid = u THEN 1 ELSE 0

\* How often u was recorded, or will be when the running tick comes to it.
Due(u, j, c, todo) == j[u] + Times(u, c) + ActTimes(u, todo)

\* A CloseAction is a record of these fields.
ActShape(a) == a = [uid |-> a.uid, stop |-> a.stop, tp1 |-> a.tp1, size |-> a.size, sent |-> a.sent]

\* What the running tick has still to close, each trade once.
ActsOK(todo, orders) ==
    /\ IsList(todo)
    /\ \A k \in 1..Len(todo) :
          /\ ActShape(todo[k])
          /\ todo[k].uid \in Uids
          /\ todo[k].stop # 0 => todo[k].stop \in 1..Len(orders)
          /\ todo[k].tp1 # 0 => todo[k].tp1 \in 1..Len(orders)
    /\ \A k, m \in 1..Len(todo) : todo[k].uid = todo[m].uid => k = m

Done == {"Closed", "EmergencyClosing"}

\* Whoever is not wild is due at most once, and not before his trade is done;
\* what has executed something is not Closed without a record.
BooksOK(ts, pushed, j, c, todo, wild) ==
    /\ IsList(c) /\ (\A i \in 1..Len(c) : c[i] \in Uids)
    /\ j \in [Uids -> Nat]
    /\ \A u \in Uids \ wild :
          /\ Due(u, j, c, todo) <= 1
          /\ u \notin pushed => Due(u, j, c, todo) = 0
          /\ \A tk \in Tickers : \A i \in 1..Len(ts[tk]) :
                ts[tk][i].uid = u /\ ts[tk][i].st \notin Done => Due(u, j, c, todo) = 0
    /\ \A tk \in Tickers : \A i \in 1..Len(ts[tk]) :
          ts[tk][i].st = "Closed" /\ ts[tk][i].exec # 0 =>
              j[ts[tk][i].uid] + Times(ts[tk][i].uid, c) >= 1

ResultOK(r, orders) == r # None /\ r.outcome = "Resolved" => r.id \in 1..Len(orders)

ExecInv ==
    /\ ExchangeOK(x)
    /\ trades = [tk \in Tickers |-> trades[tk]]
    /\ TradesOK(trades, x.orders)
    /\ LandedOK(trades, submitted, inflight)
    /\ BooksOK(trades, submitted \ DOMAIN inflight, journal, closed, acts,
               swept \union badClose)
    /\ ActsOK(acts, x.orders)
    /\ ResultOK(result, x.orders)

-----------------------------------------------------------------------------
(* The exchange. *)

\* No order is forgotten, and none loses its fills.
Grows(orders, later) ==
    /\ Len(orders) <= Len(later)
    /\ \A i \in 1..Len(orders) : orders[i].filled # 0 => later[i].filled # 0

LEMMA GrowsSame == ASSUME NEW s, IsList(s) PROVE Grows(s, s)
BY DEF Grows, IsList

LEMMA GrowsOn ==
    ASSUME NEW s, IsList(s), NEW t, IsList(t), NEW r, IsList(r), Grows(s, t), Grows(t, r)
    PROVE  Grows(s, r)
BY DEF Grows, IsList

LEMMA TradeGrows ==
    ASSUME NEW s, IsList(s), NEW r, IsList(r), Grows(s, r), NEW t, TradeOK(t, s)
    PROVE  TradeOK(t, r)
BY DEF Grows, TradeOK, IsList

LEMMA AcceptOK ==
    ASSUME NEW xs, ExchangeOK(xs), NEW u \in Uids, NEW role, NEW size,
           role = "entry" => size \in Nat \ {0}
    PROVE  LET ys == Accept(xs, u, role, size)
           IN  /\ ExchangeOK(ys) /\ Grows(xs.orders, ys.orders)
               /\ Len(ys.orders) = Len(xs.orders) + 1
<1> DEFINE n == Len(xs.orders)
           id == n + 1
           fill == IF role = "close"
                   THEN Least(size, Exposure(xs.orders, Plans[u].ticker, Plans[u].side)) ELSE 0
           o == [by |-> u, role |-> role, size |-> size, filled |-> fill, live |-> role # "close"]
           m == Update(id, IF role = "close" THEN "Closed" ELSE "Open", fill)
           ys == Accept(xs, u, role, size)
           os == Append(xs.orders, o)
           ws == Append(xs.ws, m)
<1>1. /\ IsList(xs.orders) /\ (\A i \in 1..n : OrderOK(xs.orders[i])) /\ n \in Nat
      /\ IsList(xs.ws) /\ (\A k \in 1..Len(xs.ws) : UpdateOK(xs.ws[k], xs.orders))
      /\ Len(xs.ws) \in Nat
  BY DEF ExchangeOK, IsList
<1>2. ys = [orders |-> os, ws |-> ws, faults |-> xs.faults] BY DEF Accept
<1>3. /\ o.by = u /\ o.role = role /\ o.size = size /\ o.filled = fill /\ o.live = (role # "close")
      /\ OrderShape(o)
  BY DEF OrderShape
<1>4. OrderOK(o)
  <2>1. o.live \in BOOLEAN BY <1>3
  <2>2. o.role = "entry" => o.filled \in Nat /\ o.size \in Nat \ {0}
    <3>1. role = "entry" => role # "close" OBVIOUS
    <3>2. role # "close" => fill = 0 OBVIOUS
    <3> QED BY <1>3, <3>1, <3>2
  <2> QED BY <1>3, <2>1, <2>2 DEF OrderOK
<1>5. /\ m = [id |-> id, status |-> IF role = "close" THEN "Closed" ELSE "Open", filled |-> fill]
      /\ UpdateShape(m)
  BY DEF Update, UpdateShape
<1>6. role # "close" => fill = 0 BY DEF fill
<1> HIDE DEF o, m, fill, ys
<1>7. /\ IsList(os) /\ Len(os) = n + 1 /\ os[n + 1] = o
      /\ \A i \in 1..n : os[i] = xs.orders[i]
  BY <1>1, ListAppend
<1>8. /\ IsList(ws) /\ Len(ws) = Len(xs.ws) + 1 /\ ws[Len(xs.ws) + 1] = m
      /\ \A k \in 1..Len(xs.ws) : ws[k] = xs.ws[k]
  BY <1>1, ListAppend
<1> HIDE DEF os, ws
<1>9. ASSUME NEW i \in 1..Len(os) PROVE OrderOK(os[i])
  <2>1. i \in 1..n \/ i = n + 1 BY <1>1, <1>7
  <2> QED BY <1>1, <1>4, <1>7, <2>1
<1>10. ASSUME NEW k \in 1..Len(ws) PROVE UpdateOK(ws[k], os)
  <2>1. k \in 1..Len(xs.ws) \/ k = Len(xs.ws) + 1 BY <1>1, <1>8
  <2>2. CASE k \in 1..Len(xs.ws)
    <3>1. UpdateOK(xs.ws[k], xs.orders) BY <1>1, <2>2
    <3>2. xs.ws[k].id \in 1..n BY <3>1 DEF UpdateOK
    <3>3. os[xs.ws[k].id] = xs.orders[xs.ws[k].id] /\ xs.ws[k].id \in 1..Len(os)
      BY <1>1, <1>7, <3>2, SMTT(30)
    <3> QED BY <1>8, <2>2, <3>1, <3>3 DEF UpdateOK
  <2>3. CASE k = Len(xs.ws) + 1
    <3>1. id \in 1..Len(os) /\ os[id] = o BY <1>1, <1>7
    <3>2. m.id = id /\ m.filled = fill
          /\ m.status = IF role = "close" THEN "Closed" ELSE "Open"
      BY <1>5
    <3> QED BY <1>3, <1>5, <1>6, <1>8, <2>3, <3>1, <3>2 DEF UpdateOK
  <2> QED BY <2>1, <2>2, <2>3
<1>11. ExchangeOK(ys) BY <1>2, <1>7, <1>8, <1>9, <1>10 DEF ExchangeOK
<1>12. Grows(xs.orders, ys.orders) BY <1>1, <1>2, <1>7 DEF Grows
<1> QED BY <1>2, <1>7, <1>11, <1>12 DEF ys

LEMMA FaultedOK ==
    ASSUME NEW xs, ExchangeOK(xs)
    PROVE  ExchangeOK(Faulted(xs)) /\ Faulted(xs).orders = xs.orders
<1> DEFINE ys == Faulted(xs)
<1>1. xs = [orders |-> xs.orders, ws |-> xs.ws, faults |-> xs.faults] BY DEF ExchangeOK
<1>2. ys = [orders |-> xs.orders, ws |-> xs.ws, faults |-> xs.faults - 1] BY <1>1 DEF Faulted
<1> HIDE DEF ys
<1>3. ExchangeOK(ys) /\ ys.orders = xs.orders BY <1>2 DEF ExchangeOK
<1> QED BY <1>3 DEF ys

LEMMA OrderEnds ==
    ASSUME NEW o, OrderOK(o)
    PROVE  LET p == [o EXCEPT !.live = FALSE]
           IN  OrderOK(p) /\ p.filled = o.filled /\ p.live = FALSE
<1>1. o = [by |-> o.by, role |-> o.role, size |-> o.size, filled |-> o.filled, live |-> o.live]
  BY DEF OrderOK, OrderShape
<1>2. \A v : [o EXCEPT !.live = v] =
        [by |-> o.by, role |-> o.role, size |-> o.size, filled |-> o.filled, live |-> v]
  BY <1>1
<1>3. PICK v : v = FALSE BY Zenon
<1> DEFINE p == [o EXCEPT !.live = v]
<1>4. p = [by |-> o.by, role |-> o.role, size |-> o.size, filled |-> o.filled, live |-> v]
  BY <1>2
<1> HIDE DEF p
<1>5. OrderOK(p) /\ p.filled = o.filled /\ p.live = FALSE
  BY <1>3, <1>4 DEF OrderOK, OrderShape
<1> QED BY <1>3, <1>5 DEF p

LEMMA LaterOK ==
    ASSUME NEW os, NEW ps, Len(ps) = Len(os),
           \A i \in 1..Len(os) : /\ ps[i].live => os[i].live
                                 /\ ~os[i].live => ps[i].filled = os[i].filled
                                 /\ os[i].filled # 0 => ps[i].filled # 0,
           NEW u, UpdateOK(u, os)
    PROVE  UpdateOK(u, ps)
BY DEF UpdateOK

LEMMA DropOK ==
    ASSUME NEW xs, ExchangeOK(xs), NEW id \in 1..Len(xs.orders)
    PROVE  LET ys == Drop(xs, id)
           IN  /\ ExchangeOK(ys) /\ Grows(xs.orders, ys.orders)
               /\ Len(ys.orders) = Len(xs.orders)
<1> DEFINE n == Len(xs.orders)
           m == Update(id, "Closed", xs.orders[id].filled)
           p == [xs.orders[id] EXCEPT !.live = FALSE]
           os == [xs.orders EXCEPT ![id] = p]
           ws == Append(xs.ws, m)
           ys == Drop(xs, id)
<1>1. /\ IsList(xs.orders) /\ (\A i \in 1..n : OrderOK(xs.orders[i])) /\ n \in Nat
      /\ IsList(xs.ws) /\ (\A k \in 1..Len(xs.ws) : UpdateOK(xs.ws[k], xs.orders))
      /\ Len(xs.ws) \in Nat
  BY DEF ExchangeOK, IsList
<1>2. ys = [orders |-> [xs.orders EXCEPT ![id].live = FALSE], ws |-> ws, faults |-> xs.faults]
  BY DEF Drop
<1>3. [xs.orders EXCEPT ![id].live = FALSE] = os OBVIOUS
<1>4. OrderOK(p) /\ p.filled = xs.orders[id].filled /\ p.live = FALSE BY <1>1, OrderEnds
<1>5. m = [id |-> id, status |-> "Closed", filled |-> xs.orders[id].filled] BY DEF Update
<1> HIDE DEF p, m, ys
<1>6. /\ IsList(os) /\ Len(os) = n /\ os[id] = p
      /\ \A i \in 1..n : i # id => os[i] = xs.orders[i]
  <2>1. xs.orders = [i \in 1..n |-> xs.orders[i]] /\ DOMAIN xs.orders = 1..n
    BY <1>1, ListIs DEF IsList
  <2>2. /\ DOMAIN os = 1..n /\ os = [i \in 1..n |-> os[i]] /\ os[id] = p
        /\ \A i \in 1..n : i # id => os[i] = xs.orders[i]
    BY <2>1
  <2> HIDE DEF os, n
  <2>3. n \in Nat BY <1>1
  <2>4. IsList(os) /\ Len(os) = n BY <2>2, <2>3, ListOf
  <2> QED BY <2>2, <2>4
<1>7. /\ IsList(ws) /\ Len(ws) = Len(xs.ws) + 1 /\ ws[Len(xs.ws) + 1] = m
      /\ \A k \in 1..Len(xs.ws) : ws[k] = xs.ws[k]
  BY <1>1, ListAppend
<1>8. ys = [orders |-> os, ws |-> ws, faults |-> xs.faults] BY <1>2, <1>3
<1> HIDE DEF os, ws
<1>9. \A i \in 1..Len(os) : OrderOK(os[i]) BY <1>1, <1>4, <1>6
<1>10. \A i \in 1..n : /\ os[i].live => xs.orders[i].live
                      /\ os[i].filled = xs.orders[i].filled
  BY <1>4, <1>6
<1>11. ASSUME NEW k \in 1..Len(ws) PROVE UpdateOK(ws[k], os)
  <2>1. k \in 1..Len(xs.ws) \/ k = Len(xs.ws) + 1 BY <1>1, <1>7
  <2>2. CASE k \in 1..Len(xs.ws)
    <3>1. UpdateOK(xs.ws[k], xs.orders) /\ ws[k] = xs.ws[k] BY <1>1, <1>7, <2>2
    <3> QED BY <1>6, <1>10, <3>1, LaterOK
  <2>3. CASE k = Len(xs.ws) + 1
    <3>1. id \in 1..Len(os) /\ ~os[id].live /\ os[id].filled = xs.orders[id].filled
      BY <1>4, <1>6
    <3>2. UpdateShape(m) BY <1>5 DEF UpdateShape
    <3> QED BY <1>5, <1>7, <2>3, <3>1, <3>2 DEF UpdateOK
  <2> QED BY <2>1, <2>2, <2>3
<1>12. ExchangeOK(ys) BY <1>6, <1>7, <1>8, <1>9, <1>11 DEF ExchangeOK
<1>13. Grows(xs.orders, ys.orders) BY <1>1, <1>6, <1>8, <1>10 DEF Grows
<1> QED BY <1>6, <1>8, <1>12, <1>13 DEF ys

\* The answer of a gateway call: the exchange is sound and no order is lost.
AnswerOK(a, xs) ==
    /\ a.ok \in BOOLEAN /\ ExchangeOK(a.x) /\ Grows(xs.orders, a.x.orders)

LEMMA PlaceOK ==
    ASSUME NEW xs, ExchangeOK(xs), NEW u \in Uids, NEW role, role # "entry", NEW size,
           NEW a \in Place(xs, u, role, size)
    PROVE  AnswerOK(a, xs) /\ (a.id # 0 => a.id \in 1..Len(a.x.orders))
<1> DEFINE ys == Accept(xs, u, role, size)
           n == Len(xs.orders)
<1>1. ExchangeOK(ys) /\ Grows(xs.orders, ys.orders) /\ Len(ys.orders) = n + 1
  BY AcceptOK
<1>2. n \in Nat /\ IsList(xs.orders) BY DEF ExchangeOK, IsList
<1>3. /\ ExchangeOK(Faulted(xs)) /\ Faulted(xs).orders = xs.orders
      /\ ExchangeOK(Faulted(ys)) /\ Faulted(ys).orders = ys.orders
  BY <1>1, FaultedOK
<1>4. Grows(xs.orders, xs.orders) BY <1>2, GrowsSame
<1> HIDE DEF ys
<1>5. \/ a = [ok |-> TRUE, x |-> ys, id |-> IF PostReturnsId THEN n + 1 ELSE 0]
      \/ a = [ok |-> FALSE, x |-> Faulted(xs), id |-> 0]
      \/ a = [ok |-> FALSE, x |-> Faulted(ys), id |-> 0]
  BY DEF Place, ys
<1> HIDE DEF n
<1>6. CASE a = [ok |-> TRUE, x |-> ys, id |-> IF PostReturnsId THEN n + 1 ELSE 0]
  <2>1. a.ok \in BOOLEAN /\ a.x = ys BY <1>6
  <2>2. a.id = 0 \/ a.id = n + 1 BY <1>6
  <2>3. n + 1 \in 1..Len(ys.orders) BY <1>1, <1>2
  <2>4. AnswerOK(a, xs) BY <1>1, <2>1 DEF AnswerOK
  <2> QED BY <2>1, <2>2, <2>3, <2>4
<1>7. CASE a = [ok |-> FALSE, x |-> Faulted(xs), id |-> 0]
  <2>1. a.ok \in BOOLEAN /\ a.x = Faulted(xs) /\ a.id = 0 BY <1>7
  <2> QED BY <1>3, <1>4, <2>1 DEF AnswerOK
<1>8. CASE a = [ok |-> FALSE, x |-> Faulted(ys), id |-> 0]
  <2>1. a.ok \in BOOLEAN /\ a.x = Faulted(ys) /\ a.id = 0 BY <1>8
  <2> QED BY <1>1, <1>3, <2>1 DEF AnswerOK
<1> QED BY <1>5, <1>6, <1>7, <1>8

LEMMA CancelOK ==
    ASSUME NEW xs, ExchangeOK(xs), NEW id, id # 0 => id \in 1..Len(xs.orders),
           NEW a \in CancelIfAny(xs, id)
    PROVE  AnswerOK(a, xs)
<1> DEFINE ys == Drop(xs, id)
<1>1. IsList(xs.orders) BY DEF ExchangeOK
<1>2. Grows(xs.orders, xs.orders) BY <1>1, GrowsSame
<1>3. CASE id = 0
  <2>1. a = [ok |-> TRUE, x |-> xs] BY <1>3 DEF CancelIfAny
  <2>2. a.ok \in BOOLEAN /\ a.x = xs BY <2>1
  <2> QED BY <1>2, <2>2 DEF AnswerOK
<1>4. CASE id # 0
  <2>1. ExchangeOK(ys) /\ Grows(xs.orders, ys.orders) BY <1>4, DropOK
  <2>2. /\ ExchangeOK(Faulted(xs)) /\ Faulted(xs).orders = xs.orders
        /\ ExchangeOK(Faulted(ys)) /\ Faulted(ys).orders = ys.orders
    BY <2>1, FaultedOK
  <2> HIDE DEF ys
  <2>3. \/ a = [ok |-> FALSE, x |-> xs]
        \/ a = [ok |-> TRUE, x |-> ys]
        \/ a = [ok |-> FALSE, x |-> Faulted(xs)]
        \/ a = [ok |-> FALSE, x |-> Faulted(ys)]
    BY <1>4 DEF CancelIfAny, Cancel, ys
  <2>4. a.ok \in BOOLEAN /\ a.x \in {xs, ys, Faulted(xs), Faulted(ys)}
    <3>1. CASE a = [ok |-> FALSE, x |-> xs] BY <3>1
    <3>2. CASE a = [ok |-> TRUE, x |-> ys] BY <3>2
    <3>3. CASE a = [ok |-> FALSE, x |-> Faulted(xs)] BY <3>3
    <3>4. CASE a = [ok |-> FALSE, x |-> Faulted(ys)] BY <3>4
    <3> QED BY <2>3, <3>1, <3>2, <3>3, <3>4
  <2>5. ExchangeOK(a.x) /\ Grows(xs.orders, a.x.orders) BY <1>2, <2>1, <2>2, <2>4
  <2> QED BY <2>4, <2>5 DEF AnswerOK
<1> QED BY <1>3, <1>4

LEMMA OrderFills ==
    ASSUME NEW o, OrderOK(o), NEW n, o.role = "entry" => n \in Nat
    PROVE  LET p == [o EXCEPT !.filled = n]
           IN  OrderOK(p) /\ p.filled = n /\ p.live = o.live
<1> DEFINE p == [o EXCEPT !.filled = n]
<1>1. o = [by |-> o.by, role |-> o.role, size |-> o.size, filled |-> o.filled, live |-> o.live]
  BY DEF OrderOK, OrderShape
<1>2. p = [by |-> o.by, role |-> o.role, size |-> o.size, filled |-> n, live |-> o.live]
  BY <1>1
<1> HIDE DEF p
<1>3. OrderOK(p) /\ p.filled = n /\ p.live = o.live BY <1>2 DEF OrderOK, OrderShape
<1> QED BY <1>3 DEF p

\* A resting order gets more fills.
LEMMA FilledOK ==
    ASSUME NEW xs, ExchangeOK(xs), NEW id \in 1..Len(xs.orders), xs.orders[id].live,
           NEW n, n # 0, xs.orders[id].role = "entry" => n \in Nat
    PROVE  LET ys == Filled(xs, id, n)
           IN  /\ ExchangeOK(ys) /\ Grows(xs.orders, ys.orders)
               /\ Len(ys.orders) = Len(xs.orders) /\ ys.orders[id].filled = n
<1> DEFINE L == Len(xs.orders)
           o == xs.orders[id]
           p == [o EXCEPT !.filled = n]
           os == [xs.orders EXCEPT ![id] = p]
           ys == Filled(xs, id, n)
<1>1. /\ IsList(xs.orders) /\ (\A i \in 1..L : OrderOK(xs.orders[i])) /\ L \in Nat
      /\ IsList(xs.ws) /\ (\A k \in 1..Len(xs.ws) : UpdateOK(xs.ws[k], xs.orders))
  BY DEF ExchangeOK, IsList
<1>2. OrderOK(o) BY <1>1
<1>3. OrderOK(p) /\ p.filled = n /\ p.live = o.live BY <1>2, OrderFills
<1>4. ys = [orders |-> os, ws |-> xs.ws, faults |-> xs.faults]
  <2>1. xs = [orders |-> xs.orders, ws |-> xs.ws, faults |-> xs.faults] BY DEF ExchangeOK
  <2>2. \A v : [xs EXCEPT !.orders = v] = [orders |-> v, ws |-> xs.ws, faults |-> xs.faults]
    BY ONLY <2>1
  <2>3. ys = [xs EXCEPT !.orders = os] BY DEF Filled
  <2> QED BY <2>2, <2>3
<1> HIDE DEF p, ys
<1>5. /\ IsList(os) /\ Len(os) = L /\ os[id] = p
      /\ \A i \in 1..L : i # id => os[i] = xs.orders[i]
  <2>1. xs.orders = [i \in 1..L |-> xs.orders[i]] /\ DOMAIN xs.orders = 1..L
    BY <1>1, ListIs DEF IsList
  <2>2. /\ DOMAIN os = 1..L /\ os = [i \in 1..L |-> os[i]] /\ os[id] = p
        /\ \A i \in 1..L : i # id => os[i] = xs.orders[i]
    BY <2>1
  <2> HIDE DEF os, L
  <2>3. L \in Nat BY <1>1
  <2>4. IsList(os) /\ Len(os) = L BY <2>2, <2>3, ListOf
  <2> QED BY <2>2, <2>4
<1> HIDE DEF os
<1>7. \A i \in 1..L : OrderOK(os[i]) BY <1>1, <1>3, <1>5
<1>6. L = Len(xs.orders) OBVIOUS
<1> HIDE DEF o, L
<1>8. \A i \in 1..L : xs.orders[i].filled # 0 => os[i].filled # 0 BY <1>3, <1>5
<1>9. ASSUME NEW k \in 1..Len(xs.ws) PROVE UpdateOK(xs.ws[k], os)
  <2> DEFINE u == xs.ws[k]
  <2>1. UpdateOK(u, xs.orders) BY <1>1
  <2>2. /\ UpdateShape(u) /\ u.id \in 1..L /\ u.status \in {"Open", "Closed"}
        /\ u.status = "Closed" => ~xs.orders[u.id].live /\ u.filled = xs.orders[u.id].filled
        /\ u.status = "Open" /\ u.filled # 0 => xs.orders[u.id].filled # 0
    BY <1>6, <2>1 DEF UpdateOK
  <2> HIDE DEF u
  <2>3. ASSUME u.id = id PROVE UpdateOK(u, os)
    <3>1. u.status # "Closed" BY <2>2, <2>3
    <3>2. os[u.id].filled # 0 BY <1>3, <1>5, <2>3
    <3>3. u.status = "Closed" => ~os[u.id].live /\ u.filled = os[u.id].filled BY <3>1
    <3>4. u.id \in 1..Len(os) BY <1>5, <2>2
    <3> QED BY <2>2, <3>2, <3>3, <3>4 DEF UpdateOK
  <2>4. ASSUME u.id # id PROVE UpdateOK(u, os)
    <3>1. os[u.id] = xs.orders[u.id] BY <1>5, <2>2, <2>4
    <3>2. u.status = "Closed" => ~os[u.id].live /\ u.filled = os[u.id].filled
      BY <2>2, <3>1
    <3>3. u.status = "Open" /\ u.filled # 0 => os[u.id].filled # 0 BY <2>2, <3>1
    <3>4. u.id \in 1..Len(os) BY <1>5, <2>2
    <3> QED BY <2>2, <3>2, <3>3, <3>4 DEF UpdateOK
  <2> QED BY <2>3, <2>4 DEF u
<1>10. ExchangeOK(ys) BY <1>1, <1>4, <1>5, <1>7, <1>9 DEF ExchangeOK
<1>11. Grows(xs.orders, os)
  <2>1. Len(xs.orders) <= Len(os) BY <1>1, <1>5, <1>6
  <2> QED BY <1>6, <1>8, <2>1 DEF Grows
<1> QED BY <1>3, <1>4, <1>5, <1>6, <1>10, <1>11 DEF ys

\* The stream goes on without its head.
LEMMA RestOK ==
    ASSUME NEW xs, ExchangeOK(xs), xs.ws # <<>>
    PROVE  LET ys == [xs EXCEPT !.ws = Tail(@)]
           IN  ExchangeOK(ys) /\ ys.orders = xs.orders /\ UpdateOK(Head(xs.ws), xs.orders)
<1> DEFINE ys == [xs EXCEPT !.ws = Tail(@)]
           ws == Tail(xs.ws)
<1>1. xs = [orders |-> xs.orders, ws |-> xs.ws, faults |-> xs.faults] BY DEF ExchangeOK
<1>2. ys = [orders |-> xs.orders, ws |-> ws, faults |-> xs.faults] BY <1>1
<1>3. IsList(xs.ws) /\ \A k \in 1..Len(xs.ws) : UpdateOK(xs.ws[k], xs.orders)
  BY DEF ExchangeOK
<1>4. /\ IsList(ws) /\ Len(ws) = Len(xs.ws) - 1 /\ Head(xs.ws) = xs.ws[1] /\ Len(xs.ws) > 0
      /\ \A i \in 1..Len(ws) : ws[i] = xs.ws[i + 1]
  BY <1>3, ListTail
<1> HIDE DEF ys, ws
<1>5. Len(xs.ws) \in Nat BY <1>3 DEF IsList
<1>6. \A i \in 1..Len(ws) : i + 1 \in 1..Len(xs.ws) BY <1>4, <1>5
<1>7. \A i \in 1..Len(ws) : UpdateOK(ws[i], xs.orders) BY <1>3, <1>4, <1>6
<1>8. ExchangeOK(ys) BY <1>2, <1>4, <1>7 DEF ExchangeOK
<1>9. 1 \in 1..Len(xs.ws) BY <1>4, <1>5
<1> QED BY <1>2, <1>3, <1>4, <1>8, <1>9 DEF ys

-----------------------------------------------------------------------------
(* The numbers of a set, in their order. *)

\* A set has an element for each number of smaller ones.
Counted(S) ==
    \A m \in Nat : m < Cardinality(S) => \E i \in S : Cardinality({j \in S : j < i}) = m

LEMMA NthExists ==
    ASSUME NEW n \in Nat, NEW S, S \subseteq 1..n
    PROVE  IsFiniteSet(S) /\ Cardinality(S) \in Nat /\ Counted(S)
<1>1. IsFiniteSet(S)
  <2>1. IsFiniteSet(1..n) BY FS_Interval
  <2> QED BY <2>1, FS_Subset
<1>2. Cardinality(S) \in Nat BY <1>1, FS_CardinalityType
<1> DEFINE Below(i) == {j \in S : j < i}
           P == {m \in Nat : m < Cardinality(S) => \E i \in S : Cardinality(Below(i)) = m}
<1>3. 0 \in P
  <2>1. ASSUME 0 < Cardinality(S) PROVE \E i \in S : Cardinality(Below(i)) = 0
    <3>1. S # {} BY <1>2, <2>1, FS_EmptySet
    <3>2. S \subseteq Nat OBVIOUS
    <3>3. PICK i \in S : \A m \in S : i <= m BY <3>1, <3>2, NatMin
    <3>4. Below(i) = {}
      <4>1. \A j \in S : ~(j < i) BY <3>2, <3>3
      <4> QED BY <4>1
    <3> QED BY <3>4, FS_EmptySet
  <2> QED BY <2>1
<1>4. ASSUME NEW m \in Nat, m \in P PROVE m + 1 \in P
  <2>1. ASSUME m + 1 < Cardinality(S) PROVE \E i \in S : Cardinality(Below(i)) = m + 1
    <3>1. PICK i \in S : Cardinality(Below(i)) = m BY <1>2, <1>4, <2>1
    <3> DEFINE Above == {j \in S : j > i}
    <3>2. S \subseteq Nat /\ i \notin Below(i) /\ IsFiniteSet(Below(i)) BY <1>1, FS_Subset
    <3>3. Cardinality(Below(i) \union {i}) = m + 1 BY <3>1, <3>2, FS_AddElement
    <3>4. Above # {}
      <4>1. SUFFICES ASSUME Above = {} PROVE FALSE OBVIOUS
      <4>2. S = Below(i) \union {i}
        <5>1. \A j \in S : j < i \/ j = i \/ j > i BY <3>2
        <5> QED BY <4>1, <5>1
      <4>3. Cardinality(S) = m + 1 BY ONLY <3>3, <4>2
      <4> QED BY <2>1, <4>3
    <3>5. Above \subseteq Nat /\ Above \subseteq S BY <3>2
    <3> HIDE DEF Above
    <3>6. PICK k \in Above : \A j \in Above : k <= j BY <3>4, <3>5, NatMin
    <3>7. Below(k) = Below(i) \union {i}
      <4>1. k \in S /\ k > i BY <3>6 DEF Above
      <4>2. \A j \in S : ~(j > i /\ j < k) BY <3>2, <3>5, <3>6 DEF Above
      <4>3. \A j \in S : j < k <=> j < i \/ j = i BY <3>2, <4>1, <4>2
      <4> QED BY <4>3
    <3> QED BY <3>3, <3>5, <3>6, <3>7
  <2> HIDE DEF Below
  <2> QED BY <2>1
<1> HIDE DEF P
<1>5. Nat \subseteq P BY <1>3, <1>4, SetInduction
<1>6. Counted(S) BY <1>5 DEF P, Counted
<1> QED BY <1>1, <1>2, <1>6

\* Nth counts through a set, and meets each number once.
LEMMA NthIs ==
    ASSUME NEW n \in Nat, NEW S, S \subseteq 1..n
    PROVE  /\ Cardinality(S) \in Nat
           /\ \A k \in 1..Cardinality(S) : Nth(S, k) \in S
           /\ \A k, m \in 1..Cardinality(S) : Nth(S, k) = Nth(S, m) => k = m
<1>1. Cardinality(S) \in Nat /\ Counted(S) BY NthExists
<1>2. ASSUME NEW k \in 1..Cardinality(S)
      PROVE  Nth(S, k) \in S /\ Cardinality({j \in S : j < Nth(S, k)}) = k - 1
  <2>1. k - 1 \in Nat /\ k - 1 < Cardinality(S) BY <1>1
  <2>2. \E i \in S : Cardinality({j \in S : j < i}) = k - 1
    BY <1>1, <2>1 DEF Counted
  <2> QED BY <2>2 DEF Nth
<1>3. ASSUME NEW k \in 1..Cardinality(S), NEW m \in 1..Cardinality(S), Nth(S, k) = Nth(S, m)
      PROVE  k = m
  <2>1. k - 1 = m - 1 BY <1>2, <1>3
  <2> QED BY <2>1
<1> QED BY <1>1, <1>2, <1>3

\* r holds elements of the list s that are not closed, each place once.
KeptOf(r, s) ==
    /\ IsList(r)
    /\ \A k \in 1..Len(r) : \E i \in 1..Len(s) : r[k] = s[i] /\ s[i].st # "Closed"
    /\ \A k, m \in 1..Len(r) : \E i, j \in 1..Len(s) :
          r[k] = s[i] /\ r[m] = s[j] /\ (i = j => k = m)

LEMMA NotClosedOK == ASSUME NEW list, IsList(list) PROVE KeptOf(NotClosed(list), list)
<1> DEFINE kept == {i \in DOMAIN list : list[i].st # "Closed"}
           n == Cardinality(kept)
           s == [k \in 1..n |-> list[Nth(kept, k)]]
<1>1. NotClosed(list) = s BY DEF NotClosed
<1>2. DOMAIN list = 1..Len(list) /\ Len(list) \in Nat BY ListIs DEF IsList
<1>3. kept \subseteq 1..Len(list) /\ \A i \in kept : list[i].st # "Closed" BY <1>2
<1> HIDE DEF kept
<1>4. /\ n \in Nat /\ \A k \in 1..n : Nth(kept, k) \in kept
      /\ \A k, m \in 1..n : Nth(kept, k) = Nth(kept, m) => k = m
  BY <1>2, <1>3, NthIs
<1> HIDE DEF n
<1>5. DOMAIN s = 1..n /\ s = [k \in 1..n |-> s[k]] /\ \A k \in 1..n : s[k] = list[Nth(kept, k)]
  OBVIOUS
<1> HIDE DEF s
<1>6. IsList(s) /\ Len(s) = n BY <1>4, <1>5, ListOf
<1>7. ASSUME NEW k \in 1..n
      PROVE  \E i \in 1..Len(list) : s[k] = list[i] /\ list[i].st # "Closed"
  BY <1>3, <1>4, <1>5
<1>8. ASSUME NEW k \in 1..n, NEW m \in 1..n
      PROVE  \E i, j \in 1..Len(list) : s[k] = list[i] /\ s[m] = list[j] /\ (i = j => k = m)
  <2>1. Nth(kept, k) \in 1..Len(list) /\ Nth(kept, m) \in 1..Len(list) BY <1>3, <1>4
  <2>2. Nth(kept, k) = Nth(kept, m) => k = m BY <1>4
  <2>3. s[k] = list[Nth(kept, k)] /\ s[m] = list[Nth(kept, m)] BY <1>5
  <2> QED BY <2>1, <2>2, <2>3
<1> DEFINE t == NotClosed(list)
<1>9. t = s BY <1>1
<1> HIDE DEF t
<1>10. /\ IsList(t)
       /\ \A k \in 1..Len(t) : \E i \in 1..Len(list) : t[k] = list[i] /\ list[i].st # "Closed"
  BY <1>6, <1>7, <1>9
<1>11. \A k, m \in 1..Len(t) : \E i, j \in 1..Len(list) :
          t[k] = list[i] /\ t[m] = list[j] /\ (i = j => k = m)
  <2> SUFFICES ASSUME NEW k \in 1..Len(t), NEW m \in 1..Len(t)
               PROVE  \E i, j \in 1..Len(list) :
                         t[k] = list[i] /\ t[m] = list[j] /\ (i = j => k = m)
    OBVIOUS
  <2>1. k \in 1..n /\ m \in 1..n BY <1>6, <1>9
  <2> QED BY <1>8, <1>9, <2>1
<1>12. KeptOf(t, list) BY <1>10, <1>11 DEF KeptOf
<1> QED BY <1>12 DEF t

LEMMA DropAllOK ==
    ASSUME NEW xs, ExchangeOK(xs), NEW ids, ids \subseteq 1..Len(xs.orders)
    PROVE  LET ys == DropAll(xs, ids)
           IN  ExchangeOK(ys) /\ Grows(xs.orders, ys.orders)
<1> DEFINE n == Len(xs.orders)
           c == Cardinality(ids)
           os == [i \in DOMAIN xs.orders |->
                    IF i \in ids THEN [xs.orders[i] EXCEPT !.live = FALSE] ELSE xs.orders[i]]
           ms == [k \in 1..c |-> Update(Nth(ids, k), "Closed", xs.orders[Nth(ids, k)].filled)]
           ws == xs.ws \o ms
           ys == DropAll(xs, ids)
<1>1. /\ IsList(xs.orders) /\ (\A i \in 1..n : OrderOK(xs.orders[i])) /\ n \in Nat
      /\ IsList(xs.ws) /\ (\A k \in 1..Len(xs.ws) : UpdateOK(xs.ws[k], xs.orders))
  BY DEF ExchangeOK, IsList
<1>2. ys = [orders |-> os, ws |-> ws, faults |-> xs.faults] BY DEF DropAll
<1>3. c \in Nat /\ \A k \in 1..c : Nth(ids, k) \in ids BY <1>1, NthIs
<1> HIDE DEF c
<1>4. /\ DOMAIN ms = 1..c /\ ms = [k \in 1..c |-> ms[k]]
      /\ \A k \in 1..c :
            ms[k] = [id |-> Nth(ids, k), status |-> "Closed",
                     filled |-> xs.orders[Nth(ids, k)].filled]
  BY DEF Update
<1> HIDE DEF ms
<1>5. IsList(ms) /\ Len(ms) = c BY <1>3, <1>4, ListOf
<1>6. DOMAIN xs.orders = 1..n BY <1>1, ListIs
<1>7. ASSUME NEW i \in 1..n
      PROVE  /\ OrderOK(os[i]) /\ os[i].filled = xs.orders[i].filled
             /\ i \in ids => os[i].live = FALSE
             /\ i \notin ids => os[i] = xs.orders[i]
  <2>1. OrderOK(xs.orders[i]) BY <1>1
  <2>2. CASE i \in ids
    <3>1. os[i] = [xs.orders[i] EXCEPT !.live = FALSE] BY <1>6, <2>2
    <3> QED BY <2>1, <2>2, <3>1, OrderEnds
  <2>3. CASE i \notin ids
    <3>1. os[i] = xs.orders[i] BY <1>6, <2>3
    <3> QED BY <2>1, <2>3, <3>1
  <2> QED BY <2>2, <2>3
<1>8. DOMAIN os = 1..n /\ os = [i \in 1..n |-> os[i]] BY <1>6
<1> HIDE DEF os, n
<1>9. IsList(os) /\ Len(os) = n BY <1>1, <1>8, ListOf
<1>10. /\ IsList(ws) /\ Len(ws) = Len(xs.ws) + c /\ Len(xs.ws) \in Nat
       /\ \A k \in 1..Len(xs.ws) : ws[k] = xs.ws[k]
       /\ \A k \in 1..c : ws[Len(xs.ws) + k] = ms[k]
  <2>1. /\ IsList(ws) /\ Len(ws) = Len(xs.ws) + Len(ms)
        /\ \A i \in 1..Len(xs.ws) : ws[i] = xs.ws[i]
        /\ \A i \in 1..Len(ms) : ws[Len(xs.ws) + i] = ms[i]
    <3>1. IsList(xs.ws) /\ IsList(ms) BY <1>1, <1>5
    <3>2. Joined(xs.ws, ms, ws) BY <3>1, ListConcat
    <3> HIDE DEF ws
    <3> QED BY <3>2 DEF Joined
  <2>2. Len(xs.ws) \in Nat BY <1>1 DEF IsList
  <2> HIDE DEF ws
  <2> QED BY <1>5, <2>1, <2>2
<1> HIDE DEF ws, ys
<1>11. ASSUME NEW k \in 1..Len(ws) PROVE UpdateOK(ws[k], os)
  <2>1. k \in 1..Len(xs.ws) \/ k - Len(xs.ws) \in 1..c BY <1>3, <1>10
  <2>2. CASE k \in 1..Len(xs.ws)
    <3>1. UpdateOK(xs.ws[k], xs.orders) BY <1>1, <2>2
    <3>2. n = Len(xs.orders) BY DEF n
    <3>3. \A i \in 1..Len(xs.orders) : /\ os[i].live => xs.orders[i].live
                                      /\ os[i].filled = xs.orders[i].filled
      BY <1>7, <3>2
    <3> QED BY <1>9, <1>10, <2>2, <3>1, <3>2, <3>3, LaterOK
  <2>3. CASE k - Len(xs.ws) \in 1..c
    <3> DEFINE m == k - Len(xs.ws)
               i == Nth(ids, m)
    <3>1. m \in 1..c /\ Len(xs.ws) + m = k BY <1>10, <2>3
    <3> HIDE DEF m
    <3>2. ws[k] = [id |-> i, status |-> "Closed", filled |-> xs.orders[i].filled]
      BY <1>4, <1>10, <3>1
    <3>3. i \in ids /\ i \in 1..n BY <1>3, <3>1 DEF n
    <3> HIDE DEF i
    <3>4. os[i].live = FALSE /\ os[i].filled = xs.orders[i].filled BY <1>7, <3>3
    <3>5. UpdateShape(ws[k]) /\ ws[k].id = i /\ ws[k].status = "Closed"
          /\ ws[k].filled = xs.orders[i].filled
      BY <3>2 DEF UpdateShape
    <3> QED BY <1>9, <3>3, <3>4, <3>5 DEF UpdateOK
  <2> QED BY <2>1, <2>2, <2>3
<1>12. ExchangeOK(ys) BY <1>2, <1>7, <1>9, <1>10, <1>11 DEF ExchangeOK
<1>13. Grows(xs.orders, os)
  <2>1. n = Len(xs.orders) BY DEF n
  <2>2. \A i \in 1..n : xs.orders[i].filled # 0 => os[i].filled # 0 BY <1>7
  <2> QED BY <1>1, <1>9, <2>1, <2>2 DEF Grows
<1> QED BY <1>2, <1>12, <1>13 DEF ys

-----------------------------------------------------------------------------
(* What becomes of a trade. *)

\* v is the trade t with the state, the orders and the fills given.
Edited(t, v, st, entry, stop, tp1, exec) ==
    /\ TradeShape(v) /\ v.uid = t.uid
    /\ v.st = st /\ v.entry = entry /\ v.stop = stop /\ v.tp1 = tp1 /\ v.exec = exec

LEMMA Edit ==
    ASSUME NEW t, TradeShape(t), NEW a
    PROVE  /\ Edited(t, [t EXCEPT !.stop = a], t.st, t.entry, a, t.tp1, t.exec)
           /\ Edited(t, [t EXCEPT !.tp1 = a], t.st, t.entry, t.stop, a, t.exec)
           /\ Edited(t, [t EXCEPT !.entry = a], t.st, a, t.stop, t.tp1, t.exec)
           /\ Edited(t, [t EXCEPT !.exec = a], t.st, t.entry, t.stop, t.tp1, a)
           /\ Edited(t, [t EXCEPT !.st = a], a, t.entry, t.stop, t.tp1, t.exec)
           /\ Edited(t, [t EXCEPT !.fix = a], t.st, t.entry, t.stop, t.tp1, t.exec)
           /\ Edited(t, [t EXCEPT !.tp1_filled = a], t.st, t.entry, t.stop, t.tp1, t.exec)
           /\ Edited(t, [t EXCEPT !.old = a], t.st, t.entry, t.stop, t.tp1, t.exec)
<1>1. t = [uid |-> t.uid, st |-> t.st, entry |-> t.entry, stop |-> t.stop, tp1 |-> t.tp1,
           exec |-> t.exec, fix |-> t.fix, tp1_filled |-> t.tp1_filled, old |-> t.old]
  BY DEF TradeShape
<1>2. Edited(t, [t EXCEPT !.stop = a], t.st, t.entry, a, t.tp1, t.exec)
  <2> DEFINE v == [t EXCEPT !.stop = a]
  <2>1. v = [uid |-> t.uid, st |-> t.st, entry |-> t.entry, stop |-> a, tp1 |-> t.tp1,
             exec |-> t.exec, fix |-> t.fix, tp1_filled |-> t.tp1_filled, old |-> t.old]
    BY <1>1
  <2> HIDE DEF v
  <2>2. Edited(t, v, t.st, t.entry, a, t.tp1, t.exec) BY <2>1 DEF Edited, TradeShape
  <2> QED BY <2>2 DEF v
<1>3. Edited(t, [t EXCEPT !.tp1 = a], t.st, t.entry, t.stop, a, t.exec)
  <2> DEFINE v == [t EXCEPT !.tp1 = a]
  <2>1. v = [uid |-> t.uid, st |-> t.st, entry |-> t.entry, stop |-> t.stop, tp1 |-> a,
             exec |-> t.exec, fix |-> t.fix, tp1_filled |-> t.tp1_filled, old |-> t.old]
    BY <1>1
  <2> HIDE DEF v
  <2>2. Edited(t, v, t.st, t.entry, t.stop, a, t.exec) BY <2>1 DEF Edited, TradeShape
  <2> QED BY <2>2 DEF v
<1>4. Edited(t, [t EXCEPT !.entry = a], t.st, a, t.stop, t.tp1, t.exec)
  <2> DEFINE v == [t EXCEPT !.entry = a]
  <2>1. v = [uid |-> t.uid, st |-> t.st, entry |-> a, stop |-> t.stop, tp1 |-> t.tp1,
             exec |-> t.exec, fix |-> t.fix, tp1_filled |-> t.tp1_filled, old |-> t.old]
    BY <1>1
  <2> HIDE DEF v
  <2>2. Edited(t, v, t.st, a, t.stop, t.tp1, t.exec) BY <2>1 DEF Edited, TradeShape
  <2> QED BY <2>2 DEF v
<1>5. Edited(t, [t EXCEPT !.exec = a], t.st, t.entry, t.stop, t.tp1, a)
  <2> DEFINE v == [t EXCEPT !.exec = a]
  <2>1. v = [uid |-> t.uid, st |-> t.st, entry |-> t.entry, stop |-> t.stop, tp1 |-> t.tp1,
             exec |-> a, fix |-> t.fix, tp1_filled |-> t.tp1_filled, old |-> t.old]
    BY <1>1
  <2> HIDE DEF v
  <2>2. Edited(t, v, t.st, t.entry, t.stop, t.tp1, a) BY <2>1 DEF Edited, TradeShape
  <2> QED BY <2>2 DEF v
<1>6. Edited(t, [t EXCEPT !.st = a], a, t.entry, t.stop, t.tp1, t.exec)
  <2> DEFINE v == [t EXCEPT !.st = a]
  <2>1. v = [uid |-> t.uid, st |-> a, entry |-> t.entry, stop |-> t.stop, tp1 |-> t.tp1,
             exec |-> t.exec, fix |-> t.fix, tp1_filled |-> t.tp1_filled, old |-> t.old]
    BY <1>1
  <2> HIDE DEF v
  <2>2. Edited(t, v, a, t.entry, t.stop, t.tp1, t.exec) BY <2>1 DEF Edited, TradeShape
  <2> QED BY <2>2 DEF v
<1>7. Edited(t, [t EXCEPT !.fix = a], t.st, t.entry, t.stop, t.tp1, t.exec)
  <2> DEFINE v == [t EXCEPT !.fix = a]
  <2>1. v = [uid |-> t.uid, st |-> t.st, entry |-> t.entry, stop |-> t.stop, tp1 |-> t.tp1,
             exec |-> t.exec, fix |-> a, tp1_filled |-> t.tp1_filled, old |-> t.old]
    BY <1>1
  <2> HIDE DEF v
  <2>2. Edited(t, v, t.st, t.entry, t.stop, t.tp1, t.exec) BY <2>1 DEF Edited, TradeShape
  <2> QED BY <2>2 DEF v
<1>8. Edited(t, [t EXCEPT !.tp1_filled = a], t.st, t.entry, t.stop, t.tp1, t.exec)
  <2> DEFINE v == [t EXCEPT !.tp1_filled = a]
  <2>1. v = [uid |-> t.uid, st |-> t.st, entry |-> t.entry, stop |-> t.stop, tp1 |-> t.tp1,
             exec |-> t.exec, fix |-> t.fix, tp1_filled |-> a, old |-> t.old]
    BY <1>1
  <2> HIDE DEF v
  <2>2. Edited(t, v, t.st, t.entry, t.stop, t.tp1, t.exec) BY <2>1 DEF Edited, TradeShape
  <2> QED BY <2>2 DEF v
<1>9. Edited(t, [t EXCEPT !.old = a], t.st, t.entry, t.stop, t.tp1, t.exec)
  <2> DEFINE v == [t EXCEPT !.old = a]
  <2>1. v = [uid |-> t.uid, st |-> t.st, entry |-> t.entry, stop |-> t.stop, tp1 |-> t.tp1,
             exec |-> t.exec, fix |-> t.fix, tp1_filled |-> t.tp1_filled, old |-> a]
    BY <1>1
  <2> HIDE DEF v
  <2>2. Edited(t, v, t.st, t.entry, t.stop, t.tp1, t.exec) BY <2>1 DEF Edited, TradeShape
  <2> QED BY <2>2 DEF v
<1> QED BY <1>2, <1>3, <1>4, <1>5, <1>6, <1>7, <1>8, <1>9

LEMMA Edits ==
    ASSUME NEW t, TradeShape(t), NEW a, NEW b, NEW c
    PROVE  /\ Edited(t, [t EXCEPT !.stop = a, !.tp1 = b], t.st, t.entry, a, b, t.exec)
           /\ Edited(t, [t EXCEPT !.stop = a, !.tp1 = b, !.st = c], c, t.entry, a, b, t.exec)
           /\ Edited(t, [t EXCEPT !.entry = a, !.st = b], b, a, t.stop, t.tp1, t.exec)
           /\ Edited(t, [t EXCEPT !.st = a, !.old = b], a, t.entry, t.stop, t.tp1, t.exec)
           /\ Edited(t, [t EXCEPT !.st = a, !.exec = c, !.old = b], a, t.entry, t.stop, t.tp1, c)
           /\ Edited(t, [t EXCEPT !.tp1_filled = a, !.stop = b], t.st, t.entry, b, t.tp1, t.exec)
<1>1. Edited(t, [t EXCEPT !.stop = a, !.tp1 = b], t.st, t.entry, a, b, t.exec)
  <2> DEFINE w1 == [t EXCEPT !.stop = a]
             w2 == [w1 EXCEPT !.tp1 = b]
  <2>1. [t EXCEPT !.stop = a, !.tp1 = b] = w2 OBVIOUS
  <2>2. Edited(t, w1, t.st, t.entry, a, t.tp1, t.exec) BY Edit
  <2> HIDE DEF w1
  <2>3. TradeShape(w1) BY <2>2 DEF Edited
  <2>4. Edited(t, w2, t.st, t.entry, a, b, t.exec)
    <3>1. Edited(w1, w2, w1.st, w1.entry, w1.stop, b, w1.exec) BY <2>3, Edit
    <3> QED BY <2>2, <3>1 DEF Edited
  <2> QED BY <2>1, <2>4
<1>2. Edited(t, [t EXCEPT !.stop = a, !.tp1 = b, !.st = c], c, t.entry, a, b, t.exec)
  <2> DEFINE w1 == [t EXCEPT !.stop = a]
             w2 == [w1 EXCEPT !.tp1 = b]
             w3 == [w2 EXCEPT !.st = c]
  <2>1. [t EXCEPT !.stop = a, !.tp1 = b, !.st = c] = w3 OBVIOUS
  <2>2. Edited(t, w1, t.st, t.entry, a, t.tp1, t.exec) BY Edit
  <2> HIDE DEF w1
  <2>3. TradeShape(w1) BY <2>2 DEF Edited
  <2>4. Edited(t, w2, t.st, t.entry, a, b, t.exec)
    <3>1. Edited(w1, w2, w1.st, w1.entry, w1.stop, b, w1.exec) BY <2>3, Edit
    <3> QED BY <2>2, <3>1 DEF Edited
  <2> HIDE DEF w2
  <2>5. TradeShape(w2) BY <2>4 DEF Edited
  <2>6. Edited(t, w3, c, t.entry, a, b, t.exec)
    <3>1. Edited(w2, w3, c, w2.entry, w2.stop, w2.tp1, w2.exec) BY <2>5, Edit
    <3> QED BY <2>4, <3>1 DEF Edited
  <2> QED BY <2>1, <2>6
<1>3. Edited(t, [t EXCEPT !.entry = a, !.st = b], b, a, t.stop, t.tp1, t.exec)
  <2> DEFINE w1 == [t EXCEPT !.entry = a]
             w2 == [w1 EXCEPT !.st = b]
  <2>1. [t EXCEPT !.entry = a, !.st = b] = w2 OBVIOUS
  <2>2. Edited(t, w1, t.st, a, t.stop, t.tp1, t.exec) BY Edit
  <2> HIDE DEF w1
  <2>3. TradeShape(w1) BY <2>2 DEF Edited
  <2>4. Edited(t, w2, b, a, t.stop, t.tp1, t.exec)
    <3>1. Edited(w1, w2, b, w1.entry, w1.stop, w1.tp1, w1.exec) BY <2>3, Edit
    <3> QED BY <2>2, <3>1 DEF Edited
  <2> QED BY <2>1, <2>4
<1>4. Edited(t, [t EXCEPT !.st = a, !.old = b], a, t.entry, t.stop, t.tp1, t.exec)
  <2> DEFINE w1 == [t EXCEPT !.st = a]
             w2 == [w1 EXCEPT !.old = b]
  <2>1. [t EXCEPT !.st = a, !.old = b] = w2 OBVIOUS
  <2>2. Edited(t, w1, a, t.entry, t.stop, t.tp1, t.exec) BY Edit
  <2> HIDE DEF w1
  <2>3. TradeShape(w1) BY <2>2 DEF Edited
  <2>4. Edited(t, w2, a, t.entry, t.stop, t.tp1, t.exec)
    <3>1. Edited(w1, w2, w1.st, w1.entry, w1.stop, w1.tp1, w1.exec) BY <2>3, Edit
    <3> QED BY <2>2, <3>1 DEF Edited
  <2> QED BY <2>1, <2>4
<1>5. Edited(t, [t EXCEPT !.st = a, !.exec = c, !.old = b], a, t.entry, t.stop, t.tp1, c)
  <2> DEFINE w1 == [t EXCEPT !.st = a]
             w2 == [w1 EXCEPT !.exec = c]
             w3 == [w2 EXCEPT !.old = b]
  <2>1. [t EXCEPT !.st = a, !.exec = c, !.old = b] = w3 OBVIOUS
  <2>2. Edited(t, w1, a, t.entry, t.stop, t.tp1, t.exec) BY Edit
  <2> HIDE DEF w1
  <2>3. TradeShape(w1) BY <2>2 DEF Edited
  <2>4. Edited(t, w2, a, t.entry, t.stop, t.tp1, c)
    <3>1. Edited(w1, w2, w1.st, w1.entry, w1.stop, w1.tp1, c) BY <2>3, Edit
    <3> QED BY <2>2, <3>1 DEF Edited
  <2> HIDE DEF w2
  <2>5. TradeShape(w2) BY <2>4 DEF Edited
  <2>6. Edited(t, w3, a, t.entry, t.stop, t.tp1, c)
    <3>1. Edited(w2, w3, w2.st, w2.entry, w2.stop, w2.tp1, w2.exec) BY <2>5, Edit
    <3> QED BY <2>4, <3>1 DEF Edited
  <2> QED BY <2>1, <2>6
<1>6. Edited(t, [t EXCEPT !.tp1_filled = a, !.stop = b], t.st, t.entry, b, t.tp1, t.exec)
  <2> DEFINE w1 == [t EXCEPT !.tp1_filled = a]
             w2 == [w1 EXCEPT !.stop = b]
  <2>1. [t EXCEPT !.tp1_filled = a, !.stop = b] = w2 OBVIOUS
  <2>2. Edited(t, w1, t.st, t.entry, t.stop, t.tp1, t.exec) BY Edit
  <2> HIDE DEF w1
  <2>3. TradeShape(w1) BY <2>2 DEF Edited
  <2>4. Edited(t, w2, t.st, t.entry, b, t.tp1, t.exec)
    <3>1. Edited(w1, w2, w1.st, w1.entry, b, w1.tp1, w1.exec) BY <2>3, Edit
    <3> QED BY <2>2, <3>1 DEF Edited
  <2> QED BY <2>1, <2>4
<1> QED BY <1>1, <1>2, <1>3, <1>4, <1>5, <1>6

\* The trade keeps its fills; only its stops may have changed.
Same(t, v) == v.uid = t.uid /\ v.st = t.st /\ v.entry = t.entry /\ v.exec = t.exec

LEMMA TradeStops ==
    ASSUME NEW orders, NEW t, TradeOK(t, orders),
           NEW a, a # 0 => a \in 1..Len(orders), NEW b, b # 0 => b \in 1..Len(orders)
    PROVE  /\ TradeOK([t EXCEPT !.stop = a], orders) /\ Same(t, [t EXCEPT !.stop = a])
           /\ TradeOK([t EXCEPT !.tp1 = a], orders) /\ Same(t, [t EXCEPT !.tp1 = a])
           /\ TradeOK([t EXCEPT !.stop = a, !.tp1 = b], orders)
           /\ Same(t, [t EXCEPT !.stop = a, !.tp1 = b])
<1> DEFINE v1 == [t EXCEPT !.stop = a]
           v2 == [t EXCEPT !.tp1 = a]
           v3 == [t EXCEPT !.stop = a, !.tp1 = b]
<1>1. TradeShape(t) BY DEF TradeOK
<1>2. /\ Edited(t, v1, t.st, t.entry, a, t.tp1, t.exec)
      /\ Edited(t, v2, t.st, t.entry, t.stop, a, t.exec)
  BY <1>1, Edit, Zenon
<1>3. Edited(t, v3, t.st, t.entry, a, b, t.exec) BY <1>1, Edits, Zenon
<1> HIDE DEF v1, v2, v3
<1>4. TradeOK(v1, orders) /\ Same(t, v1) BY <1>2 DEF TradeOK, Edited, Same
<1>5. TradeOK(v2, orders) /\ Same(t, v2) BY <1>2 DEF TradeOK, Edited, Same
<1>6. TradeOK(v3, orders) /\ Same(t, v3) BY <1>3 DEF TradeOK, Edited, Same
<1> QED BY <1>4, <1>5, <1>6 DEF v1, v2, v3

\* Through several gateway calls.
LEMMA GrowsThrough ==
    ASSUME NEW xs, NEW ys, NEW zs, ExchangeOK(xs), ExchangeOK(ys), ExchangeOK(zs),
           Grows(xs.orders, ys.orders), Grows(ys.orders, zs.orders)
    PROVE  Grows(xs.orders, zs.orders)
<1>1. IsList(xs.orders) /\ IsList(ys.orders) /\ IsList(zs.orders) BY DEF ExchangeOK
<1> QED BY <1>1, GrowsOn

LEMMA TradeThrough ==
    ASSUME NEW xs, NEW ys, ExchangeOK(xs), ExchangeOK(ys), Grows(xs.orders, ys.orders),
           NEW t, TradeOK(t, xs.orders)
    PROVE  TradeOK(t, ys.orders)
<1>1. IsList(xs.orders) /\ IsList(ys.orders) BY DEF ExchangeOK
<1> QED BY <1>1, TradeGrows

LEMMA NoCalls == ASSUME NEW xs, ExchangeOK(xs) PROVE Grows(xs.orders, xs.orders)
<1>1. IsList(xs.orders) BY DEF ExchangeOK
<1> QED BY <1>1, GrowsSame

-----------------------------------------------------------------------------
(* The handlers. *)

OutcomeShape(o) == o = [t |-> o.t, x |-> o.x, rec |-> o.rec, bad |-> o.bad]

\* After the stops of t were placed, or not.
StopsOK(o, t, xs) ==
    /\ OutcomeShape(o) /\ ExchangeOK(o.x) /\ Grows(xs.orders, o.x.orders)
    /\ TradeOK(o.t, o.x.orders) /\ Same(t, o.t) /\ o.rec = <<>> /\ ~o.bad

LEMMA OutcomeStops ==
    ASSUME NEW xs, NEW ys, ExchangeOK(ys), Grows(xs.orders, ys.orders),
           NEW t, NEW v, TradeOK(v, ys.orders), Same(t, v)
    PROVE  StopsOK(Outcome(v, ys), t, xs)
<1> DEFINE o == Outcome(v, ys)
<1>1. o = [t |-> v, x |-> ys, rec |-> <<>>, bad |-> FALSE] BY DEF Outcome
<1> HIDE DEF o
<1>2. o.t = v /\ o.x = ys /\ o.rec = <<>> /\ OutcomeShape(o) BY <1>1 DEF OutcomeShape
<1>4. ~o.bad BY <1>1
<1>3. StopsOK(o, t, xs) BY <1>2, <1>4 DEF StopsOK
<1> QED BY <1>3 DEF o

LEMMA ArmStopsOK ==
    ASSUME NEW xs, ExchangeOK(xs), NEW t, TradeOK(t, xs.orders), NEW tpCancelled,
           NEW o \in ArmStops(t, xs, tpCancelled)
    PROVE  StopsOK(o, t, xs)
<1> DEFINE T1(sl) == IF sl.ok THEN [t EXCEPT !.stop = sl.id] ELSE t
           Tp(sl) == {Outcome(IF tp.ok THEN [T1(sl) EXCEPT !.tp1 = tp.id] ELSE T1(sl), tp.x) :
                        tp \in Place(sl.x, t.uid, "tp1", TpSize(t.exec))}
<1>1. PICK sl \in Place(xs, t.uid, "stop", StopSize(t)) :
           o \in Tp(sl) \/ o = Outcome(T1(sl), sl.x)
  BY DEF ArmStops
<1> DEFINE t1 == T1(sl)
<1>2. t.uid \in Uids BY DEF TradeOK
<1>3. AnswerOK(sl, xs) /\ (sl.id # 0 => sl.id \in 1..Len(sl.x.orders)) BY <1>2, PlaceOK
<1>4. sl.ok \in BOOLEAN /\ ExchangeOK(sl.x) /\ Grows(xs.orders, sl.x.orders)
  BY <1>3 DEF AnswerOK
<1>5. TradeOK(t, sl.x.orders) BY <1>4, TradeThrough
<1>6. TradeOK(t1, sl.x.orders) /\ Same(t, t1)
  <2>1. CASE sl.ok BY <1>3, <1>5, <2>1, TradeStops, Zenon
  <2>2. CASE ~sl.ok BY <1>5, <2>2 DEF Same
  <2> QED BY <2>1, <2>2
<1> HIDE DEF T1, t1
<1>7. CASE o = Outcome(t1, sl.x) BY <1>4, <1>6, <1>7, OutcomeStops
<1>8. CASE o \in Tp(sl)
  <2>1. PICK tp \in Place(sl.x, t.uid, "tp1", TpSize(t.exec)) :
             o = Outcome(IF tp.ok THEN [t1 EXCEPT !.tp1 = tp.id] ELSE t1, tp.x)
    BY <1>8 DEF t1
  <2> DEFINE t2 == IF tp.ok THEN [t1 EXCEPT !.tp1 = tp.id] ELSE t1
  <2>2. AnswerOK(tp, sl.x) /\ (tp.id # 0 => tp.id \in 1..Len(tp.x.orders))
    BY <1>2, <1>4, PlaceOK
  <2>3. tp.ok \in BOOLEAN /\ ExchangeOK(tp.x) /\ Grows(sl.x.orders, tp.x.orders)
    BY <2>2 DEF AnswerOK
  <2>4. TradeOK(t1, tp.x.orders) BY <1>4, <1>6, <2>3, TradeThrough
  <2>5. TradeOK(t2, tp.x.orders) /\ Same(t1, t2)
    <3>1. CASE tp.ok BY <2>2, <2>4, <3>1, TradeStops, Zenon
    <3>2. CASE ~tp.ok BY <2>4, <3>2 DEF Same
    <3> QED BY <3>1, <3>2
  <2>6. Same(t, t2) BY <1>6, <2>5 DEF Same
  <2>7. Grows(xs.orders, tp.x.orders) BY <1>4, <2>3, GrowsThrough
  <2> HIDE DEF t2
  <2>8. o = Outcome(t2, tp.x) BY <2>1 DEF t2
  <2> QED BY <2>3, <2>5, <2>6, <2>7, <2>8, OutcomeStops
<1> QED BY <1>1, <1>7, <1>8 DEF t1

LEMMA PlaceStopsOK ==
    ASSUME NEW xs, ExchangeOK(xs), NEW t, TradeOK(t, xs.orders), NEW o \in PlaceStops(t, xs)
    PROVE  StopsOK(o, t, xs)
<1> DEFINE Tp(c) == UNION {ArmStops([t EXCEPT !.stop = 0, !.tp1 = IF d.ok THEN 0 ELSE @],
                                    d.x, d.ok) : d \in CancelIfAny(c.x, t.tp1)}
<1>1. /\ TradeShape(t)
      /\ t.stop # 0 => t.stop \in 1..Len(xs.orders)
      /\ t.tp1 # 0 => t.tp1 \in 1..Len(xs.orders)
  BY DEF TradeOK
<1>2. Same(t, t) BY DEF Same
<1>3. CASE t.st # "Open" \/ t.exec = 0
  <2>1. o = Outcome(t, xs) BY <1>3, Zenon DEF PlaceStops
  <2> QED BY <1>2, <2>1, NoCalls, OutcomeStops
<1>4. CASE ~(t.st # "Open" \/ t.exec = 0)
  <2>1. PICK c \in CancelIfAny(xs, t.stop) :
             o \in IF ~c.ok THEN {Outcome(t, c.x)} ELSE Tp(c)
    BY <1>4, Zenon DEF PlaceStops
  <2>2. AnswerOK(c, xs) BY <1>1, CancelOK
  <2>3. c.ok \in BOOLEAN /\ ExchangeOK(c.x) /\ Grows(xs.orders, c.x.orders)
    BY <2>2 DEF AnswerOK
  <2>4. TradeOK(t, c.x.orders) BY <2>3, TradeThrough
  <2>5. CASE ~c.ok
    <3>1. o = Outcome(t, c.x) BY <2>1, <2>5
    <3> QED BY <1>2, <2>3, <2>4, <3>1, OutcomeStops
  <2>6. CASE c.ok
    <3>1. o \in Tp(c) BY <2>1, <2>6, Zenon
    <3>2. PICK d \in CancelIfAny(c.x, t.tp1) :
               o \in ArmStops([t EXCEPT !.stop = 0, !.tp1 = IF d.ok THEN 0 ELSE @], d.x, d.ok)
      BY <3>1, Zenon
    <3> HIDE DEF Tp
    <3>3. t.tp1 # 0 => t.tp1 \in 1..Len(c.x.orders) BY <2>4 DEF TradeOK
    <3>4. AnswerOK(d, c.x) BY <2>3, <3>3, CancelOK
    <3>5. d.ok \in BOOLEAN /\ ExchangeOK(d.x) /\ Grows(c.x.orders, d.x.orders)
      BY <3>4 DEF AnswerOK
    <3>6. TradeOK(t, d.x.orders) BY <2>3, <2>4, <3>5, TradeThrough
    <3> DEFINE b == IF d.ok THEN 0 ELSE t.tp1
               v == [t EXCEPT !.stop = 0, !.tp1 = b]
    <3>7. o \in ArmStops(v, d.x, d.ok) BY <3>2
    <3>8. b # 0 => b \in 1..Len(d.x.orders) BY <3>6 DEF TradeOK
    <3> HIDE DEF b
    <3>9. TradeOK(v, d.x.orders) /\ Same(t, v)
      <4>1. PICK a : a = 0 OBVIOUS
      <4>2. /\ TradeOK([t EXCEPT !.stop = a, !.tp1 = b], d.x.orders)
            /\ Same(t, [t EXCEPT !.stop = a, !.tp1 = b])
        BY <3>6, <3>8, <4>1, TradeStops, Zenon
      <4> QED BY <4>1, <4>2
    <3> HIDE DEF v
    <3>10. StopsOK(o, v, d.x) BY <3>5, <3>7, <3>9, ArmStopsOK
    <3>11. Grows(xs.orders, d.x.orders) BY <2>3, <3>5, GrowsThrough
    <3>12. /\ OutcomeShape(o) /\ ExchangeOK(o.x) /\ Grows(d.x.orders, o.x.orders)
           /\ TradeOK(o.t, o.x.orders) /\ Same(v, o.t) /\ o.rec = <<>> /\ ~o.bad
      BY <3>10 DEF StopsOK
    <3>13. Grows(xs.orders, o.x.orders) BY <3>5, <3>11, <3>12, GrowsThrough
    <3>14. Same(t, o.t) BY <3>9, <3>12 DEF Same
    <3> QED BY <3>12, <3>13, <3>14 DEF StopsOK
  <2> QED BY <2>3, <2>5, <2>6
<1> QED BY <1>3, <1>4

\* What a handler makes of a trade that is not Closed: it may record it once,
\* as it closes it or when a market close throws; it closes nothing that has
\* executed something without a record.
HandlerOK(o, t, xs) ==
    /\ ExchangeOK(o.x) /\ Grows(xs.orders, o.x.orders)
    /\ TradeOK(o.t, o.x.orders) /\ o.t.uid = t.uid
    /\ \/ o.rec = <<>> /\ (o.t.st = "Closed" => o.t.exec = 0)
       \/ o.rec = <<t.uid>> /\ (o.bad \/ o.t.st = "Closed")

LEMMA StopsHandle ==
    ASSUME NEW xs, NEW t, t.st # "Closed", NEW v, Same(v, t), NEW o, StopsOK(o, v, xs)
    PROVE  HandlerOK(o, t, xs)
BY DEF StopsOK, HandlerOK, Same

LEMMA OutcomeHandles ==
    ASSUME NEW xs, NEW ys, ExchangeOK(ys), Grows(xs.orders, ys.orders),
           NEW t, NEW v, TradeOK(v, ys.orders), v.uid = t.uid, v.st = "Closed" => v.exec = 0
    PROVE  HandlerOK(Outcome(v, ys), t, xs)
<1> DEFINE o == Outcome(v, ys)
<1>1. o = [t |-> v, x |-> ys, rec |-> <<>>, bad |-> FALSE] BY DEF Outcome
<1> HIDE DEF o
<1>2. o.t = v /\ o.x = ys /\ o.rec = <<>> BY <1>1
<1>3. HandlerOK(o, t, xs) BY <1>2 DEF HandlerOK
<1> QED BY <1>3 DEF o

LEMMA EmergencyCloseOK ==
    ASSUME NEW xs, ExchangeOK(xs), NEW t, TradeOK(t, xs.orders),
           NEW o \in EmergencyClose(t, xs)
    PROVE  HandlerOK(o, t, xs)
<1> DEFINE Ended(m) == [t |-> [t EXCEPT !.stop = 0, !.tp1 = 0,
                                        !.st = IF m.ok THEN "Closed" ELSE @],
                        x |-> m.x, rec |-> <<t.uid>>, bad |-> ~m.ok]
           Market(d) == {Ended(m) : m \in Place(d.x, t.uid, "close", t.exec)}
           Second(c) == UNION {Market(d) : d \in CancelIfAny(c.x, t.tp1)}
<1>0. o \in UNION {Second(c) : c \in CancelIfAny(xs, t.stop)} BY Zenon DEF EmergencyClose
<1> HIDE DEF Second
<1>1. PICK c \in CancelIfAny(xs, t.stop) : o \in Second(c) BY <1>0
<1> HIDE DEF Market
<1>2. PICK d \in CancelIfAny(c.x, t.tp1) : o \in Market(d) BY <1>1 DEF Second
<1>3. PICK m \in Place(d.x, t.uid, "close", t.exec) : o = Ended(m) BY <1>2, Zenon DEF Market
<1>4. /\ t.uid \in Uids /\ TradeShape(t)
      /\ t.stop # 0 => t.stop \in 1..Len(xs.orders)
  BY DEF TradeOK
<1>5. AnswerOK(c, xs) BY <1>4, CancelOK
<1>6. ExchangeOK(c.x) /\ Grows(xs.orders, c.x.orders) BY <1>5 DEF AnswerOK
<1>7. TradeOK(t, c.x.orders) BY <1>6, TradeThrough
<1>8. t.tp1 # 0 => t.tp1 \in 1..Len(c.x.orders) BY <1>7 DEF TradeOK
<1>9. AnswerOK(d, c.x) BY <1>6, <1>8, CancelOK
<1>10. ExchangeOK(d.x) /\ Grows(c.x.orders, d.x.orders) BY <1>9 DEF AnswerOK
<1>11. TradeOK(t, d.x.orders) BY <1>6, <1>7, <1>10, TradeThrough
<1>12. AnswerOK(m, d.x) BY <1>4, <1>10, PlaceOK
<1>13. m.ok \in BOOLEAN /\ ExchangeOK(m.x) /\ Grows(d.x.orders, m.x.orders)
  BY <1>12 DEF AnswerOK
<1>14. TradeOK(t, m.x.orders) BY <1>10, <1>11, <1>13, TradeThrough
<1>15. Grows(xs.orders, m.x.orders)
  <2>1. Grows(xs.orders, d.x.orders) BY <1>6, <1>10, GrowsThrough
  <2> QED BY <2>1, <1>10, <1>13, GrowsThrough
<1> DEFINE s == IF m.ok THEN "Closed" ELSE t.st
           v == [t EXCEPT !.stop = 0, !.tp1 = 0, !.st = s]
<1>16. o.t = v /\ o.x = m.x /\ o.rec = <<t.uid>> /\ (o.bad \/ m.ok)
  <2>1. o.t = v /\ o.x = m.x /\ o.rec = <<t.uid>> BY <1>3
  <2>2. o.bad = ~m.ok BY <1>3
  <2> QED BY <1>13, <2>1, <2>2, Zenon
<1>17. Edited(t, v, s, t.entry, 0, 0, t.exec)
  <2>1. PICK a : a = 0 OBVIOUS
  <2> HIDE DEF s
  <2>2. Edited(t, [t EXCEPT !.stop = a, !.tp1 = a, !.st = s], s, t.entry, a, a, t.exec)
    BY <1>4, Edits, Zenon
  <2> QED BY <2>1, <2>2
<1>18. s \in States /\ (m.ok => s = "Closed") /\ (s = "SubmitUnknown" => t.exec = 0)
  BY <1>14 DEF TradeOK, States
<1> HIDE DEF s, v, Ended
<1>19. TradeOK(v, m.x.orders) /\ v.uid = t.uid /\ v.st = s
  BY <1>14, <1>17, <1>18 DEF TradeOK, Edited
<1> QED BY <1>13, <1>15, <1>16, <1>18, <1>19 DEF HandlerOK

LEMMA OnOpenUpdateOK ==
    ASSUME NEW xs, ExchangeOK(xs), NEW t, TradeOK(t, xs.orders), t.st # "Closed",
           NEW u, UpdateOK(u, xs.orders), u.status = "Open",
           NEW role, role = "entry" => t.entry = u.id,
           NEW o \in OnOpenUpdate(t, role, u, xs)
    PROVE  HandlerOK(o, t, xs)
<1>1. CASE role # "entry" \/ u.filled = 0
  <2>1. o = Outcome(t, xs) BY <1>1 DEF OnOpenUpdate
  <2> QED BY <2>1, NoCalls, OutcomeHandles
<1>2. CASE ~(role # "entry" \/ u.filled = 0)
  <2> DEFINE w == [t EXCEPT !.st = "Open", !.old = FALSE]
             Add(p) == [p EXCEPT !.t = [p.t EXCEPT !.exec = @ + u.filled]]
  <2>1. PICK p \in IF t.st = "Open" THEN {Outcome(t, xs)} ELSE PlaceStops(w, xs) : o = Add(p)
    BY <1>2 DEF OnOpenUpdate
  <2>2. u.id = t.entry /\ u.id \in 1..Len(xs.orders) /\ xs.orders[u.id].filled # 0
    BY <1>2 DEF UpdateOK
  <2>3. /\ (t.st = "Open" /\ StopsOK(p, t, xs)) \/ StopsOK(p, w, xs)
        /\ w.uid = t.uid /\ w.entry = t.entry
    <3>1. TradeShape(t) BY DEF TradeOK
    <3>2. Edited(t, w, "Open", t.entry, t.stop, t.tp1, t.exec)
      <4>1. PICK b : b = FALSE OBVIOUS
      <4>2. PICK a : a = "Open" OBVIOUS
      <4>3. Edited(t, [t EXCEPT !.st = a, !.old = b], a, t.entry, t.stop, t.tp1, t.exec)
        BY <3>1, Edits, Zenon
      <4> QED BY <4>1, <4>2, <4>3
    <3> HIDE DEF w
    <3>3. TradeOK(w, xs.orders) BY <3>2 DEF TradeOK, Edited, States
    <3>4. w.uid = t.uid /\ w.entry = t.entry BY <3>2 DEF Edited
    <3>5. CASE t.st = "Open"
      <4>1. p = Outcome(t, xs) BY <2>1, <3>5
      <4>2. Same(t, t) BY DEF Same
      <4>3. StopsOK(p, t, xs) BY <4>1, <4>2, NoCalls, OutcomeStops
      <4> QED BY <3>4, <3>5, <4>3
    <3>6. CASE t.st # "Open"
      <4>1. p \in PlaceStops(w, xs) BY <2>1, <3>6
      <4> QED BY <3>3, <3>4, <4>1, PlaceStopsOK
    <3> QED BY <3>5, <3>6
  <2>4. w.st = "Open"
    <3>1. TradeShape(t) BY DEF TradeOK
    <3>2. t = [uid |-> t.uid, st |-> t.st, entry |-> t.entry, stop |-> t.stop, tp1 |-> t.tp1,
               exec |-> t.exec, fix |-> t.fix, tp1_filled |-> t.tp1_filled, old |-> t.old]
      BY <3>1 DEF TradeShape
    <3> QED BY <3>2
  <2> HIDE DEF w
  <2>5. /\ OutcomeShape(p) /\ ExchangeOK(p.x) /\ Grows(xs.orders, p.x.orders)
        /\ TradeOK(p.t, p.x.orders) /\ p.t.uid = t.uid /\ p.t.entry = t.entry
        /\ p.t.st # "Closed" /\ p.rec = <<>>
    BY <2>3, <2>4 DEF StopsOK, Same
  <2> DEFINE n == p.t.exec + u.filled
             v == [p.t EXCEPT !.exec = n]
  <2>6. o = [t |-> v, x |-> p.x, rec |-> p.rec, bad |-> p.bad]
    <3>1. p = [t |-> p.t, x |-> p.x, rec |-> p.rec, bad |-> p.bad] BY <2>5 DEF OutcomeShape
    <3>2. \A a : [p EXCEPT !.t = a] = [t |-> a, x |-> p.x, rec |-> p.rec, bad |-> p.bad]
      BY <3>1
    <3>3. o = [p EXCEPT !.t = v] BY <2>1
    <3> QED BY <3>2, <3>3
  <2>7. Edited(p.t, v, p.t.st, p.t.entry, p.t.stop, p.t.tp1, n)
    <3>1. TradeShape(p.t) BY <2>5 DEF TradeOK
    <3> HIDE DEF n
    <3> QED BY <3>1, Edit
  <2> HIDE DEF n, v, Add
  <2>8. p.t.entry # 0 /\ p.x.orders[p.t.entry].filled # 0
    <3>1. u.id # 0 BY <2>2
    <3> QED BY <2>2, <2>5, <3>1 DEF Grows
  <2>9. p.t.st # "SubmitUnknown"
    <3>1. CASE StopsOK(p, w, xs) BY <2>4, <3>1 DEF StopsOK, Same
    <3>2. CASE StopsOK(p, t, xs) /\ t.st = "Open" BY <3>2 DEF StopsOK, Same
    <3> QED BY <2>3, <3>1, <3>2
  <2>10. TradeOK(v, p.x.orders) /\ v.uid = t.uid /\ v.st # "Closed"
    BY <2>5, <2>7, <2>8, <2>9 DEF TradeOK, Edited
  <2>11. o.t = v /\ o.x = p.x /\ o.rec = <<>> BY <2>5, <2>6
  <2> QED BY <2>5, <2>10, <2>11 DEF HandlerOK
<1> QED BY <1>1, <1>2

LEMMA OnEntryFilledOK ==
    ASSUME NEW xs, ExchangeOK(xs), NEW t, TradeOK(t, xs.orders),
           NEW u, UpdateOK(u, xs.orders), u.status = "Closed", u.filled # 0, t.entry = u.id,
           NEW slipped, NEW o \in OnEntryFilled(t, u, slipped, xs)
    PROVE  HandlerOK(o, t, xs)
<1> DEFINE w == [t EXCEPT !.st = "Open", !.exec = u.filled, !.old = FALSE]
<1>1. TradeShape(t) BY DEF TradeOK
<1>2. u.id \in 1..Len(xs.orders) /\ u.id # 0 /\ xs.orders[u.id].filled # 0
  <2>1. u.id \in 1..Len(xs.orders) /\ u.filled = xs.orders[u.id].filled BY DEF UpdateOK
  <2> QED BY <2>1
<1>3. Edited(t, w, "Open", t.entry, t.stop, t.tp1, u.filled)
  <2>1. PICK b : b = FALSE OBVIOUS
  <2>2. PICK a : a = "Open" OBVIOUS
  <2>3. Edited(t, [t EXCEPT !.st = a, !.exec = u.filled, !.old = b],
               a, t.entry, t.stop, t.tp1, u.filled)
    BY <1>1, Edits, Zenon
  <2> QED BY <2>1, <2>2, <2>3
<1> HIDE DEF w
<1>4. TradeOK(w, xs.orders) /\ w.uid = t.uid /\ w.st = "Open"
  BY <1>2, <1>3 DEF TradeOK, Edited, States
<1>5. CASE slipped
  <2> DEFINE End(m) == IF m.ok THEN [w EXCEPT !.st = "EmergencyClosing"] ELSE w
             Out(m) == [Outcome(End(m), m.x) EXCEPT !.bad = ~m.ok]
  <2>1. PICK m \in Place(xs, t.uid, "close", u.filled) : o = Out(m)
    BY <1>5 DEF OnEntryFilled, w
  <2>2. t.uid \in Uids BY DEF TradeOK
  <2>3. AnswerOK(m, xs) BY <2>2, PlaceOK
  <2>4. m.ok \in BOOLEAN /\ ExchangeOK(m.x) /\ Grows(xs.orders, m.x.orders)
    BY <2>3 DEF AnswerOK
  <2>5. TradeOK(w, m.x.orders) BY <1>4, <2>4, TradeThrough
  <2> DEFINE v == End(m)
             q == Outcome(v, m.x)
  <2>6. TradeOK(v, m.x.orders) /\ v.uid = t.uid /\ v.st # "Closed"
    <3>1. CASE m.ok
      <4>1. v = [w EXCEPT !.st = "EmergencyClosing"] BY <3>1
      <4>2. PICK a : a = "EmergencyClosing" OBVIOUS
      <4>3. Edited(w, [w EXCEPT !.st = a], a, w.entry, w.stop, w.tp1, w.exec)
        <5>1. TradeShape(w) BY <1>3 DEF Edited
        <5> QED BY <5>1, Edit
      <4> HIDE DEF v
      <4>4. Edited(w, v, "EmergencyClosing", w.entry, w.stop, w.tp1, w.exec)
        BY <4>1, <4>2, <4>3
      <4> QED BY <1>4, <2>5, <4>4 DEF Edited, TradeOK, States
    <3>2. CASE ~m.ok BY <1>4, <2>5, <3>2
    <3> QED BY <3>1, <3>2
  <2> HIDE DEF v
  <2>7. o.t = v /\ o.x = m.x /\ o.rec = <<>>
    <3>1. q = [t |-> v, x |-> m.x, rec |-> <<>>, bad |-> FALSE] BY DEF Outcome
    <3>2. \A b : [q EXCEPT !.bad = b] = [t |-> v, x |-> m.x, rec |-> <<>>, bad |-> b]
      BY <3>1
    <3>3. o = [q EXCEPT !.bad = ~m.ok] BY <2>1 DEF v
    <3> HIDE DEF q
    <3>4. PICK b : b = ~m.ok OBVIOUS
    <3>5. o = [t |-> v, x |-> m.x, rec |-> <<>>, bad |-> b] BY <3>2, <3>3, <3>4
    <3> QED BY <3>5
  <2> QED BY <2>4, <2>6, <2>7 DEF HandlerOK
<1>6. CASE ~slipped
  <2>1. o \in PlaceStops(w, xs) BY <1>6 DEF OnEntryFilled, w
  <2>2. StopsOK(o, w, xs) BY <1>4, <2>1, PlaceStopsOK
  <2> QED BY <1>4, <2>2 DEF StopsOK, HandlerOK, Same
<1> QED BY <1>5, <1>6

LEMMA OnTp1FilledOK ==
    ASSUME NEW xs, ExchangeOK(xs), NEW t, TradeOK(t, xs.orders), t.st # "Closed",
           NEW u, NEW o \in OnTp1Filled(t, u, xs)
    PROVE  HandlerOK(o, t, xs)
<1> DEFINE w == [t EXCEPT !.tp1_filled = TRUE, !.stop = 0]
           rest == IF t.exec > u.filled THEN t.exec - u.filled ELSE 0
           Even(c) == UNION {IF be.ok THEN {Outcome(w, be.x)} ELSE EmergencyClose(w, be.x) :
                             be \in Place(c.x, t.uid, "be", rest)}
<1>1. /\ t.uid \in Uids /\ TradeShape(t)
      /\ t.stop # 0 => t.stop \in 1..Len(xs.orders)
  BY DEF TradeOK
<1>2. PICK c \in CancelIfAny(xs, t.stop) :
           o \in IF rest = 0 \/ ~t.fix THEN {Outcome(w, c.x)} ELSE Even(c)
  BY DEF OnTp1Filled
<1>3. AnswerOK(c, xs) BY <1>1, CancelOK
<1>4. ExchangeOK(c.x) /\ Grows(xs.orders, c.x.orders) BY <1>3 DEF AnswerOK
<1>5. Edited(t, w, t.st, t.entry, 0, t.tp1, t.exec)
  <2>1. PICK b : b = TRUE OBVIOUS
  <2>2. PICK a : a = 0 OBVIOUS
  <2>3. Edited(t, [t EXCEPT !.tp1_filled = b, !.stop = a], t.st, t.entry, a, t.tp1, t.exec)
    BY <1>1, Edits, Zenon
  <2> QED BY <2>1, <2>2, <2>3
<1> HIDE DEF w, rest
<1>6. TradeOK(w, xs.orders) /\ w.uid = t.uid /\ w.st # "Closed"
  BY <1>5 DEF TradeOK, Edited
<1>7. TradeOK(w, c.x.orders) BY <1>4, <1>6, TradeThrough
<1>8. CASE o = Outcome(w, c.x) BY <1>4, <1>6, <1>7, <1>8, OutcomeHandles
<1>9. CASE o \in Even(c)
  <2>1. PICK be \in Place(c.x, t.uid, "be", rest) :
             o \in IF be.ok THEN {Outcome(w, be.x)} ELSE EmergencyClose(w, be.x)
    BY <1>9
  <2> HIDE DEF Even
  <2>2. AnswerOK(be, c.x) BY <1>1, <1>4, PlaceOK
  <2>3. be.ok \in BOOLEAN /\ ExchangeOK(be.x) /\ Grows(c.x.orders, be.x.orders)
    BY <2>2 DEF AnswerOK
  <2>4. TradeOK(w, be.x.orders) BY <1>4, <1>7, <2>3, TradeThrough
  <2>5. Grows(xs.orders, be.x.orders) BY <1>4, <2>3, GrowsThrough
  <2>6. CASE be.ok
    <3>1. o = Outcome(w, be.x) BY <2>1, <2>6
    <3> QED BY <1>6, <2>3, <2>4, <2>5, <3>1, OutcomeHandles
  <2>7. CASE ~be.ok
    <3>1. o \in EmergencyClose(w, be.x) BY <2>1, <2>7
    <3>2. HandlerOK(o, w, be.x) BY <2>3, <2>4, <3>1, EmergencyCloseOK
    <3>3. ExchangeOK(o.x) /\ Grows(be.x.orders, o.x.orders) BY <3>2 DEF HandlerOK
    <3>4. Grows(xs.orders, o.x.orders) BY <2>3, <2>5, <3>3, GrowsThrough
    <3> QED BY <1>6, <3>2, <3>4 DEF HandlerOK
  <2> QED BY <2>3, <2>6, <2>7
<1> QED BY <1>2, <1>8, <1>9

LEMMA OnClosedUpdateOK ==
    ASSUME NEW xs, ExchangeOK(xs), NEW t, TradeOK(t, xs.orders), t.st # "Closed",
           NEW u, UpdateOK(u, xs.orders), u.status = "Closed",
           NEW role, role = "entry" => t.entry = u.id,
           NEW slipped, NEW o \in OnClosedUpdate(t, role, u, slipped, xs)
    PROVE  HandlerOK(o, t, xs)
<1> DEFINE w == [t EXCEPT !.st = "Closed"]
<1>1. TradeShape(t) BY DEF TradeOK
<1>2. Edited(t, w, "Closed", t.entry, t.stop, t.tp1, t.exec)
  <2>1. PICK a : a = "Closed" OBVIOUS
  <2>2. Edited(t, [t EXCEPT !.st = a], a, t.entry, t.stop, t.tp1, t.exec) BY <1>1, Edit
  <2> QED BY <2>1, <2>2
<1> HIDE DEF w
<1>3. TradeOK(w, xs.orders) /\ w.uid = t.uid /\ w.st = "Closed" /\ w.exec = t.exec
  BY <1>2 DEF TradeOK, Edited, States
<1>4. CASE u.filled = 0
  <2>1. o = Outcome(OnZeroFill(t, role), xs) BY <1>4 DEF OnClosedUpdate
  <2>2. CASE role = "entry"
    <3>1. o = Outcome(w, xs) BY <2>1, <2>2 DEF OnZeroFill, w
    <3>2. u.id = t.entry /\ xs.orders[u.id].filled = 0 BY <1>4, <2>2 DEF UpdateOK
    <3>3. t.exec = 0 BY <3>2 DEF TradeOK
    <3> QED BY <1>3, <3>1, <3>3, NoCalls, OutcomeHandles
  <2>3. CASE role # "entry"
    <3>1. o = Outcome(t, xs) BY <2>1, <2>3 DEF OnZeroFill
    <3> QED BY <3>1, NoCalls, OutcomeHandles
  <2> QED BY <2>2, <2>3
<1>5. CASE u.filled # 0 /\ role = "entry"
  <2>1. o \in OnEntryFilled(t, u, slipped, xs) BY <1>5 DEF OnClosedUpdate
  <2> QED BY <1>5, <2>1, OnEntryFilledOK
<1>6. CASE u.filled # 0 /\ role = "tp1" /\ ~t.tp1_filled
  <2>1. o \in OnTp1Filled(t, u, xs) BY <1>6 DEF OnClosedUpdate
  <2> QED BY <2>1, OnTp1FilledOK
<1>7. CASE u.filled # 0 /\ role # "entry" /\ ~(role = "tp1" /\ ~t.tp1_filled)
  <2>1. o = [t |-> w, x |-> xs, rec |-> <<t.uid>>, bad |-> FALSE]
    BY <1>7 DEF OnClosedUpdate, w
  <2>2. o.t = w /\ o.x = xs /\ o.rec = <<t.uid>> BY <2>1
  <2> QED BY <1>3, <2>2, NoCalls DEF HandlerOK
<1> QED BY <1>4, <1>5, <1>6, <1>7

-----------------------------------------------------------------------------
(* The books, when handlers have dealt with the trades. *)

\* t becomes v, with n records of it.
Changed(t, v, n, wild) ==
    /\ v.uid = t.uid /\ n \in {0, 1}
    /\ t.st = "Closed" => v = t
    /\ v.st = "Closed" /\ v.exec # 0 => n = 1 \/ t.st = "Closed"
    /\ t.uid \notin wild => /\ n = 1 => t.st \notin Done /\ v.st \in Done
                            /\ v.st \notin Done => t.st \notin Done

ListChanged(list, later, ns, wild) ==
    /\ IsList(later) /\ Len(later) = Len(list)
    /\ \A i \in 1..Len(list) : Changed(list[i], later[i], ns[list[i].uid], wild)

TradesChanged(ts, later, ns, wild) ==
    \A tk \in Tickers : ListChanged(ts[tk], later[tk], ns, wild)

\* ns is how often each plan is recorded as c becomes c2: once at most, for
\* one of the trades.
Recorded(ts, c, c2, ns) ==
    /\ ns \in [Uids -> {0, 1}]
    /\ IsList(c2) /\ \A i \in 1..Len(c2) : c2[i] \in Uids
    /\ \A u \in Uids : Times(u, c2) = Times(u, c) + ns[u]
    /\ \A u \in Uids : ns[u] = 1 =>
          \E tk \in Tickers : \E i \in 1..Len(ts[tk]) : ts[tk][i].uid = u

LEMMA DueIs ==
    ASSUME NEW j \in [Uids -> Nat], NEW c, IsList(c), NEW todo, NEW u \in Uids
    PROVE  j[u] \in Nat /\ Times(u, c) \in Nat /\ Due(u, j, c, todo) \in Nat
<1>1. j[u] \in Nat OBVIOUS
<1>2. Times(u, c) \in Nat BY TimesIs
<1>3. ActTimes(u, todo) \in {0, 1} BY DEF ActTimes
<1> DEFINE a == j[u]
           b == Times(u, c)
           d == ActTimes(u, todo)
<1>4. Due(u, j, c, todo) = a + b + d BY DEF Due
<1>5. a \in Nat /\ b \in Nat /\ d \in {0, 1} BY <1>1, <1>2, <1>3
<1> HIDE DEF a, b, d
<1>6. a + b + d \in Nat BY <1>5
<1> QED BY <1>1, <1>2, <1>4, <1>6

LEMMA DueGrows ==
    ASSUME NEW j \in [Uids -> Nat], NEW c, IsList(c), NEW c2, NEW todo, NEW u \in Uids,
           NEW n \in {0, 1}, Times(u, c2) = Times(u, c) + n
    PROVE  Due(u, j, c2, todo) = Due(u, j, c, todo) + n
<1>1. j[u] \in Nat OBVIOUS
<1>2. Times(u, c) \in Nat BY TimesIs
<1>3. ActTimes(u, todo) \in {0, 1} BY DEF ActTimes
<1> DEFINE a == j[u]
           b == Times(u, c)
           d == ActTimes(u, todo)
<1>4. Due(u, j, c, todo) = a + b + d /\ Due(u, j, c2, todo) = a + (b + n) + d BY DEF Due
<1>5. a \in Nat /\ b \in Nat /\ d \in {0, 1} BY <1>1, <1>2, <1>3
<1> HIDE DEF a, b, d
<1>6. a + (b + n) + d = (a + b + d) + n BY <1>5
<1> QED BY <1>4, <1>6

\* A plan has one trade.
LEMMA OneTrade ==
    ASSUME NEW ts, NEW orders, TradesOK(ts, orders),
           NEW a \in Tickers, NEW i \in 1..Len(ts[a]),
           NEW b \in Tickers, NEW k \in 1..Len(ts[b]), ts[a][i].uid = ts[b][k].uid
    PROVE  a = b /\ i = k
<1>1. a = Plans[ts[a][i].uid].ticker /\ b = Plans[ts[b][k].uid].ticker BY DEF ListOK, TradesOK
<1>2. a = b BY <1>1
<1> QED BY <1>2 DEF ListOK, TradesOK

LEMMA BooksChange ==
    ASSUME NEW ts, NEW ts2, NEW sub, NEW inf, NEW j, NEW c, NEW c2, NEW todo, NEW wild,
           NEW wild2, wild \subseteq wild2, NEW orders, NEW ns,
           BooksOK(ts, sub \ DOMAIN inf, j, c, todo, wild), LandedOK(ts, sub, inf),
           TradesOK(ts, orders),
           TradesChanged(ts, ts2, ns, wild2), Recorded(ts, c, c2, ns)
    PROVE  BooksOK(ts2, sub \ DOMAIN inf, j, c2, todo, wild2)
<1> DEFINE pushed == sub \ DOMAIN inf
<1>1. IsList(c) /\ j \in [Uids -> Nat] BY DEF BooksOK
<1>0. /\ ns \in [Uids -> {0, 1}]
      /\ IsList(c2) /\ (\A i \in 1..Len(c2) : c2[i] \in Uids)
      /\ \A u \in Uids : Times(u, c2) = Times(u, c) + ns[u]
      /\ \A u \in Uids : ns[u] = 1 =>
            \E tk \in Tickers : \E i \in 1..Len(ts[tk]) : ts[tk][i].uid = u
  BY DEF Recorded
<1>2. ASSUME NEW tk \in Tickers, NEW i \in 1..Len(ts2[tk])
      PROVE  /\ i \in 1..Len(ts[tk]) /\ ts[tk][i].uid \in Uids /\ ts[tk][i].uid \in pushed
             /\ Changed(ts[tk][i], ts2[tk][i], ns[ts[tk][i].uid], wild2)
             /\ ts2[tk][i].uid = ts[tk][i].uid
  <2>1. i \in 1..Len(ts[tk]) BY DEF ListChanged, TradesChanged
  <2>2. Changed(ts[tk][i], ts2[tk][i], ns[ts[tk][i].uid], wild2)
    BY <2>1 DEF ListChanged, TradesChanged
  <2>3. TradeOK(ts[tk][i], orders) BY <2>1 DEF ListOK, TradesOK
  <2>4. ts[tk][i].uid \in pushed BY <2>1 DEF LandedOK
  <2> QED BY <2>1, <2>2, <2>3, <2>4 DEF TradeOK, Changed
<1>3. ASSUME NEW u \in Uids \ wild2
      PROVE  /\ Due(u, j, c2, todo) <= 1
             /\ u \notin pushed => Due(u, j, c2, todo) = 0
             /\ \A tk \in Tickers : \A i \in 1..Len(ts2[tk]) :
                   ts2[tk][i].uid = u /\ ts2[tk][i].st \notin Done => Due(u, j, c2, todo) = 0
  <2>1. u \in Uids /\ u \notin wild2 /\ u \notin wild OBVIOUS
  <2>2. /\ Due(u, j, c, todo) <= 1
        /\ u \notin pushed => Due(u, j, c, todo) = 0
        /\ \A tk \in Tickers : \A i \in 1..Len(ts[tk]) :
              ts[tk][i].uid = u /\ ts[tk][i].st \notin Done => Due(u, j, c, todo) = 0
    BY <2>1 DEF BooksOK
  <2>3. /\ Due(u, j, c2, todo) = Due(u, j, c, todo) + ns[u]
        /\ Due(u, j, c, todo) \in Nat /\ ns[u] \in {0, 1}
    <3>1. Times(u, c2) = Times(u, c) + ns[u] BY <1>0, <2>1
    <3>2. ns[u] \in {0, 1} BY <1>0, <2>1
    <3> DEFINE n == ns[u]
    <3>3. n \in {0, 1} /\ Times(u, c2) = Times(u, c) + n BY <3>1, <3>2
    <3> HIDE DEF n
    <3>4. Due(u, j, c2, todo) = Due(u, j, c, todo) + n BY <1>1, <2>1, <3>3, DueGrows
    <3>5. Due(u, j, c, todo) \in Nat BY <1>1, <2>1, DueIs
    <3> QED BY <3>2, <3>4, <3>5 DEF n
  <2>4. CASE ns[u] = 0
    <3> DEFINE d == Due(u, j, c, todo)
    <3>1. Due(u, j, c2, todo) = d
      <4>1. Due(u, j, c2, todo) = d + 0 /\ d \in Nat BY <2>3, <2>4
      <4> HIDE DEF d
      <4>2. d + 0 = d BY <4>1
      <4> QED BY <4>1, <4>2
    <3>2. ASSUME NEW tk \in Tickers, NEW i \in 1..Len(ts2[tk]),
                 ts2[tk][i].uid = u, ts2[tk][i].st \notin Done
          PROVE  Due(u, j, c, todo) = 0
      <4>1. /\ i \in 1..Len(ts[tk]) /\ ts[tk][i].uid = u
            /\ Changed(ts[tk][i], ts2[tk][i], ns[ts[tk][i].uid], wild2)
        BY <1>2, <3>2
      <4>2. ts[tk][i].st \notin Done BY <2>1, <3>2, <4>1 DEF Changed
      <4> QED BY <2>2, <4>1, <4>2
    <3> QED BY <2>2, <3>1, <3>2
  <2>5. CASE ns[u] = 1
    <3>1. PICK a \in Tickers : \E k \in 1..Len(ts[a]) : ts[a][k].uid = u BY <1>0, <2>1, <2>5
    <3>2. PICK k \in 1..Len(ts[a]) : ts[a][k].uid = u BY <3>1
    <3>3. k \in 1..Len(ts2[a]) BY DEF ListChanged, TradesChanged
    <3>4. Changed(ts[a][k], ts2[a][k], 1, wild2) /\ u \in pushed
      <4>1. /\ Changed(ts[a][k], ts2[a][k], ns[ts[a][k].uid], wild2)
            /\ ts[a][k].uid \in pushed
        BY <1>2, <3>3
      <4> QED BY <2>5, <3>2, <4>1
    <3>5. ts[a][k].st \notin Done /\ ts2[a][k].st \in Done BY <2>1, <3>2, <3>4 DEF Changed
    <3>6. Due(u, j, c2, todo) = 1
      <4>1. Due(u, j, c, todo) = 0 BY <2>2, <3>2, <3>5
      <4> QED BY <2>3, <2>5, <4>1
    <3>7. ASSUME NEW tk \in Tickers, NEW i \in 1..Len(ts2[tk]), ts2[tk][i].uid = u
          PROVE  ts2[tk][i].st \in Done
      <4>1. i \in 1..Len(ts[tk]) /\ ts[tk][i].uid = u BY <1>2, <3>7
      <4>2. tk = a /\ i = k
        <5>1. ts[tk][i].uid = ts[a][k].uid BY <3>2, <4>1
        <5> QED BY <4>1, <5>1, OneTrade
      <4> QED BY <3>5, <4>2
    <3> QED BY <3>4, <3>6, <3>7
  <2> QED BY <2>3, <2>4, <2>5
<1>4. ASSUME NEW tk \in Tickers, NEW i \in 1..Len(ts2[tk]),
             ts2[tk][i].st = "Closed", ts2[tk][i].exec # 0
      PROVE  j[ts2[tk][i].uid] + Times(ts2[tk][i].uid, c2) >= 1
  <2> DEFINE u == ts[tk][i].uid
  <2>1. /\ i \in 1..Len(ts[tk]) /\ u \in Uids /\ ts2[tk][i].uid = u
        /\ Changed(ts[tk][i], ts2[tk][i], ns[u], wild2)
    BY <1>2
  <2>2. Times(u, c2) = Times(u, c) + ns[u] /\ ns[u] \in {0, 1} BY <1>0, <2>1
  <2>3. j[u] \in Nat /\ Times(u, c) \in Nat BY <1>1, <2>1, DueIs
  <2>4. CASE ns[u] = 1
    <3> HIDE DEF u
    <3> QED BY <2>1, <2>2, <2>3, <2>4
  <2>5. CASE ns[u] = 0
    <3>1. ts[tk][i].st = "Closed" /\ ts2[tk][i] = ts[tk][i] BY <1>4, <2>1, <2>5 DEF Changed
    <3>2. j[u] + Times(u, c) >= 1 BY <1>4, <2>1, <3>1 DEF BooksOK
    <3> HIDE DEF u
    <3> QED BY <2>1, <2>2, <2>3, <2>5, <3>2
  <2> QED BY <2>2, <2>4, <2>5
<1> HIDE DEF pushed
<1>5. BooksOK(ts2, pushed, j, c2, todo, wild2) BY <1>0, <1>1, <1>3, <1>4 DEF BooksOK
<1> QED BY <1>5 DEF pushed

-----------------------------------------------------------------------------
(* Steps that deal with trades one by one. *)

\* A trade of the next state is a trade of this one, as it was if Closed, or
\* its submit was still in flight.
NoRevival ==
    \A tk \in Tickers : \A i \in 1..Len(trades'[tk]) :
        trades'[tk][i].uid \in submitted \ DOMAIN inflight =>
            \E k \in 1..Len(trades[tk]) :
                /\ trades[tk][k].uid = trades'[tk][i].uid
                /\ trades[tk][k].st = "Closed" => trades'[tk][i] = trades[tk][k]

\* The trades, the exchange and the records after such a step.
Dealt(ns) ==
    /\ trades' = [tk \in Tickers |-> trades'[tk]]
    /\ TradesChanged(trades, trades', ns, swept' \union badClose')
    /\ \A tk \in Tickers : \A i \in 1..Len(trades'[tk]) : TradeOK(trades'[tk][i], x'.orders)
    /\ ExchangeOK(x') /\ Grows(x.orders, x'.orders)
    /\ Recorded(trades, closed, closed', ns)
    /\ swept \union badClose \subseteq swept' \union badClose'

\* The rest of the state.
Elsewhere ==
    /\ DOMAIN inflight' \subseteq submitted' /\ submitted' \subseteq Uids
    /\ submitted' \ DOMAIN inflight' = submitted \ DOMAIN inflight
    /\ UNCHANGED <<acts, journal>>
    /\ ResultOK(result', x'.orders)

LEMMA ActsGrow ==
    ASSUME NEW todo, NEW s, NEW r, IsList(s), IsList(r), ActsOK(todo, s), Grows(s, r)
    PROVE  ActsOK(todo, r)
<1>1. Len(s) \in Nat /\ Len(r) \in Nat /\ Len(s) <= Len(r) BY DEF IsList, Grows
<1>2. 1..Len(s) \subseteq 1..Len(r) BY <1>1
<1> QED BY <1>2 DEF ActsOK

LEMMA ResultGrows ==
    ASSUME NEW v, NEW s, NEW r, IsList(s), IsList(r), ResultOK(v, s), Grows(s, r)
    PROVE  ResultOK(v, r)
<1>1. Len(s) \in Nat /\ Len(r) \in Nat /\ Len(s) <= Len(r) BY DEF IsList, Grows
<1>2. 1..Len(s) \subseteq 1..Len(r) BY <1>1
<1> QED BY <1>2 DEF ResultOK

LEMMA Dealing ==
    ASSUME ExecInv, NEW ns, Dealt(ns), Elsewhere
    PROVE  ExecInv' /\ NoRevival
<1> DEFINE wild == swept \union badClose
           wild2 == swept' \union badClose'
<1>1. /\ ExchangeOK(x) /\ TradesOK(trades, x.orders) /\ LandedOK(trades, submitted, inflight)
      /\ BooksOK(trades, submitted \ DOMAIN inflight, journal, closed, acts, wild)
      /\ ActsOK(acts, x.orders)
  BY DEF ExecInv
<1>2. /\ wild \subseteq wild2 /\ Recorded(trades, closed, closed', ns)
      /\ TradesChanged(trades, trades', ns, wild2)
  BY DEF Dealt
<1>3. ExchangeOK(x') /\ Grows(x.orders, x'.orders) BY DEF Dealt
<1>4. IsList(x.orders) /\ IsList(x'.orders) BY <1>1, <1>3 DEF ExchangeOK
<1>5. ASSUME NEW tk \in Tickers
      PROVE  /\ IsList(trades'[tk]) /\ Len(trades'[tk]) = Len(trades[tk])
             /\ \A i \in 1..Len(trades[tk]) :
                   /\ trades'[tk][i].uid = trades[tk][i].uid
                   /\ trades[tk][i].st = "Closed" => trades'[tk][i] = trades[tk][i]
  BY <1>2 DEF TradesChanged, ListChanged, Changed
<1>6. TradesOK(trades', x'.orders)
  <2> SUFFICES ASSUME NEW tk \in Tickers PROVE ListOK(trades'[tk], tk, x'.orders)
    BY DEF TradesOK
  <2>1. ListOK(trades[tk], tk, x.orders) BY <1>1 DEF TradesOK
  <2>2. \A i \in 1..Len(trades'[tk]) : TradeOK(trades'[tk][i], x'.orders) BY DEF Dealt
  <2> QED BY <1>5, <2>1, <2>2 DEF ListOK
<1>7. LandedOK(trades', submitted', inflight')
  <2>1. ASSUME NEW tk \in Tickers, NEW i \in 1..Len(trades'[tk])
        PROVE  trades'[tk][i].uid \in submitted' \ DOMAIN inflight'
    <3>1. i \in 1..Len(trades[tk]) /\ trades'[tk][i].uid = trades[tk][i].uid BY <1>5
    <3> QED BY <1>1, <3>1 DEF LandedOK, Elsewhere
  <2> QED BY <2>1 DEF LandedOK, Elsewhere
<1>8. BooksOK(trades', submitted' \ DOMAIN inflight', journal', closed', acts', wild2)
  <2>1. BooksOK(trades', submitted \ DOMAIN inflight, journal, closed', acts, wild2)
    <3> HIDE DEF wild, wild2
    <3> QED BY <1>1, <1>2, BooksChange
  <2>2. /\ submitted' \ DOMAIN inflight' = submitted \ DOMAIN inflight
        /\ journal' = journal /\ acts' = acts
    BY DEF Elsewhere
  <2> QED BY <2>1, <2>2
<1>9. ActsOK(acts', x'.orders)
  <2>1. acts' = acts BY DEF Elsewhere
  <2> QED BY <1>1, <1>3, <1>4, <2>1, ActsGrow
<1>10. ExecInv'
  <2>1. trades' = [tk \in Tickers |-> trades'[tk]] BY DEF Dealt
  <2>2. ResultOK(result', x'.orders) BY DEF Elsewhere
  <2> QED BY <1>3, <1>6, <1>7, <1>8, <1>9, <2>1, <2>2 DEF ExecInv
<1>11. NoRevival
  <2> SUFFICES ASSUME NEW tk \in Tickers, NEW i \in 1..Len(trades'[tk])
               PROVE  \E k \in 1..Len(trades[tk]) :
                         /\ trades[tk][k].uid = trades'[tk][i].uid
                         /\ trades[tk][k].st = "Closed" => trades'[tk][i] = trades[tk][k]
    BY DEF NoRevival
  <2>1. i \in 1..Len(trades[tk]) BY <1>5
  <2> QED BY <1>5, <2>1
<1> QED BY <1>10, <1>11

NoRecords == [u \in Uids |-> 0]

\* What closes no trade and records nothing.
Light(t, v, wild) ==
    /\ v.uid = t.uid
    /\ t.st = "Closed" => v = t
    /\ v.st = "Closed" => t.st = "Closed"
    /\ t.uid \notin wild /\ v.st \notin Done => t.st \notin Done

LEMMA LightChange ==
    ASSUME NEW t, t.uid \in Uids, NEW v, NEW wild, Light(t, v, wild)
    PROVE  Changed(t, v, NoRecords[t.uid], wild)
<1>1. NoRecords[t.uid] = 0 BY DEF NoRecords
<1>2. Changed(t, v, 0, wild) BY DEF Changed, Light
<1> QED BY <1>1, <1>2

LEMMA SameLight == ASSUME NEW t, NEW wild PROVE Light(t, t, wild)
BY DEF Light

\* A step that records nothing.
LEMMA LightDealing ==
    ASSUME ExecInv, Elsewhere, UNCHANGED closed,
           trades' = [tk \in Tickers |-> trades'[tk]],
           \A tk \in Tickers :
              /\ IsList(trades'[tk]) /\ Len(trades'[tk]) = Len(trades[tk])
              /\ \A i \in 1..Len(trades[tk]) :
                    /\ Light(trades[tk][i], trades'[tk][i], swept' \union badClose')
                    /\ TradeOK(trades'[tk][i], x'.orders),
           ExchangeOK(x'), Grows(x.orders, x'.orders),
           swept \union badClose \subseteq swept' \union badClose'
    PROVE  ExecInv' /\ NoRevival
<1> DEFINE wild2 == swept' \union badClose'
<1>1. TradesOK(trades, x.orders) BY DEF ExecInv
<1>2. IsList(closed) /\ \A i \in 1..Len(closed) : closed[i] \in Uids BY DEF ExecInv, BooksOK
<1>3. NoRecords \in [Uids -> {0, 1}] /\ \A u \in Uids : NoRecords[u] = 0 BY DEF NoRecords
<1>4. ASSUME NEW u \in Uids PROVE Times(u, closed') = Times(u, closed) + NoRecords[u]
  <2> DEFINE n == Times(u, closed)
  <2>1. n \in Nat /\ NoRecords[u] = 0 BY <1>2, <1>3, TimesIs
  <2>2. Times(u, closed') = n OBVIOUS
  <2> HIDE DEF n
  <2>3. n + 0 = n BY <2>1
  <2> QED BY <2>1, <2>2, <2>3 DEF n
<1>5. ASSUME NEW tk \in Tickers PROVE ListChanged(trades[tk], trades'[tk], NoRecords, wild2)
  <2>1. ASSUME NEW i \in 1..Len(trades[tk])
        PROVE  Changed(trades[tk][i], trades'[tk][i], NoRecords[trades[tk][i].uid], wild2)
    <3>1. trades[tk][i].uid \in Uids BY <1>1 DEF TradesOK, ListOK, TradeOK
    <3> QED BY <3>1, LightChange
  <2> QED BY <2>1 DEF ListChanged
<1> HIDE DEF wild2
<1>6. Recorded(trades, closed, closed', NoRecords) BY <1>2, <1>3, <1>4 DEF Recorded
<1>7. TradesChanged(trades, trades', NoRecords, wild2) BY <1>5 DEF TradesChanged
<1>8. \A tk \in Tickers : \A i \in 1..Len(trades'[tk]) : TradeOK(trades'[tk][i], x'.orders)
  OBVIOUS
<1>9. Dealt(NoRecords) BY <1>6, <1>7, <1>8 DEF Dealt, wild2
<1> QED BY <1>9, Dealing

\* A step that leaves the trades alone.
LEMMA IdleDealing ==
    ASSUME ExecInv, Elsewhere, UNCHANGED <<trades, closed>>,
           ExchangeOK(x'), Grows(x.orders, x'.orders),
           swept \union badClose \subseteq swept' \union badClose'
    PROVE  ExecInv' /\ NoRevival
<1>1. /\ ExchangeOK(x) /\ TradesOK(trades, x.orders) /\ trades = [tk \in Tickers |-> trades[tk]]
  BY DEF ExecInv
<1>2. ASSUME NEW tk \in Tickers
      PROVE  /\ IsList(trades'[tk]) /\ Len(trades'[tk]) = Len(trades[tk])
             /\ \A i \in 1..Len(trades[tk]) :
                   /\ Light(trades[tk][i], trades'[tk][i], swept' \union badClose')
                   /\ TradeOK(trades'[tk][i], x'.orders)
  <2>1. ListOK(trades[tk], tk, x.orders) BY <1>1 DEF TradesOK
  <2>2. ASSUME NEW i \in 1..Len(trades[tk])
        PROVE  /\ Light(trades[tk][i], trades[tk][i], swept' \union badClose')
               /\ TradeOK(trades[tk][i], x'.orders)
    <3>1. TradeOK(trades[tk][i], x.orders) BY <2>1 DEF ListOK
    <3> QED BY <1>1, <3>1, SameLight, TradeThrough
  <2> QED BY <2>1, <2>2 DEF ListOK
<1> QED BY <1>1, <1>2, LightDealing

\* A step that deals with one trade.
LEMMA OneDealing ==
    ASSUME ExecInv, Elsewhere, ExchangeOK(x'), Grows(x.orders, x'.orders),
           swept \union badClose \subseteq swept' \union badClose',
           NEW a \in Tickers, NEW k \in 1..Len(trades[a]), NEW v,
           trades' = [trades EXCEPT ![a] = [@ EXCEPT ![k] = v]],
           trades[a][k].st \notin Done, v.uid = trades[a][k].uid, TradeOK(v, x'.orders),
           \/ closed' = closed /\ (v.st = "Closed" => v.exec = 0)
           \/ /\ closed' = Append(closed, v.uid)
              /\ v.uid \in swept' \union badClose' \/ v.st = "Closed"
    PROVE  ExecInv' /\ NoRevival
<1> DEFINE t == trades[a][k]
           wild2 == swept' \union badClose'
           n == IF closed' = closed THEN 0 ELSE 1
           ns == [u \in Uids |-> IF u = v.uid THEN n ELSE 0]
<1>1. /\ ExchangeOK(x) /\ TradesOK(trades, x.orders)
      /\ trades = [tk \in Tickers |-> trades[tk]]
      /\ IsList(closed) /\ \A i \in 1..Len(closed) : closed[i] \in Uids
  BY DEF ExecInv, BooksOK
<1>2. /\ trades' = [tk \in Tickers |-> trades'[tk]]
      /\ trades'[a] = [trades[a] EXCEPT ![k] = v]
      /\ \A tk \in Tickers : tk # a => trades'[tk] = trades[tk]
  BY <1>1
<1>3. /\ IsList(trades[a])
      /\ \A i, j \in 1..Len(trades[a]) : trades[a][i].uid = trades[a][j].uid => i = j
  BY <1>1 DEF TradesOK, ListOK
<1>4. /\ IsList(trades'[a]) /\ Len(trades'[a]) = Len(trades[a])
      /\ trades'[a][k] = v /\ \A i \in 1..Len(trades[a]) : i # k => trades'[a][i] = trades[a][i]
  <2> DEFINE s == trades[a]
             r == [s EXCEPT ![k] = v]
  <2>1. s = [i \in 1..Len(s) |-> s[i]] /\ DOMAIN s = 1..Len(s) /\ Len(s) \in Nat
    BY <1>3, ListIs DEF IsList
  <2> HIDE DEF s
  <2>2. k \in 1..Len(s) BY DEF s
  <2>3. /\ DOMAIN r = 1..Len(s) /\ r = [i \in 1..Len(s) |-> r[i]] /\ r[k] = v
        /\ \A i \in 1..Len(s) : i # k => r[i] = s[i]
    BY <2>1, <2>2
  <2> HIDE DEF r
  <2>4. IsList(r) /\ Len(r) = Len(s) BY <2>1, <2>3, ListOf
  <2>5. trades'[a] = r BY <1>2 DEF r, s
  <2> QED BY <2>3, <2>4, <2>5 DEF s
<1>5. v.uid \in Uids BY DEF TradeOK
<1>6. \/ closed' = closed /\ n = 0
      \/ closed' = Append(closed, v.uid) /\ n = 1
  <2>1. ASSUME closed' = Append(closed, v.uid) PROVE closed' # closed
    <3>1. Len(Append(closed, v.uid)) = Len(closed) + 1 /\ Len(closed) \in Nat
      BY <1>1, ListAppend DEF IsList
    <3> QED BY <2>1, <3>1
  <2>2. CASE closed' = closed
    <3>1. n = 0 BY <2>2
    <3> HIDE DEF n
    <3> QED BY <2>2, <3>1
  <2>3. CASE closed' = Append(closed, v.uid)
    <3>1. n = 1 BY <2>1, <2>3
    <3> HIDE DEF n
    <3> QED BY <2>3, <3>1
  <2> QED BY <2>2, <2>3
<1>7. /\ n = 0 => (v.st = "Closed" => v.exec = 0)
      /\ n = 1 => v.uid \in wild2 \/ v.st = "Closed"
  BY <1>6
<1>8. ns \in [Uids -> {0, 1}] /\ ns[v.uid] = n /\ \A u \in Uids : u # v.uid => ns[u] = 0
  BY <1>5
<1> HIDE DEF n, ns, wild2
<1>9. Recorded(trades, closed, closed', ns)
  <2>1. IsList(closed') /\ \A i \in 1..Len(closed') : closed'[i] \in Uids
    <3>1. CASE closed' = closed BY <1>1, <3>1
    <3>2. CASE closed' = Append(closed, v.uid)
      <4> DEFINE c == Append(closed, v.uid)
      <4>1. /\ IsList(c) /\ Len(c) = Len(closed) + 1 /\ c[Len(closed) + 1] = v.uid
            /\ \A i \in 1..Len(closed) : c[i] = closed[i]
        BY <1>1, ListAppend
      <4>2. Len(closed) \in Nat BY <1>1 DEF IsList
      <4> HIDE DEF c
      <4>3. \A i \in 1..Len(c) : i \in 1..Len(closed) \/ i = Len(closed) + 1 BY <4>1, <4>2
      <4>4. \A i \in 1..Len(c) : c[i] \in Uids BY <1>1, <1>5, <4>1, <4>3
      <4> QED BY <3>2, <4>1, <4>4 DEF c
    <3> QED BY <1>6, <3>1, <3>2
  <2>2. ASSUME NEW u \in Uids PROVE Times(u, closed') = Times(u, closed) + ns[u]
    <3> DEFINE q == Times(u, closed)
    <3>1. q \in Nat BY <1>1, TimesIs
    <3>2. CASE closed' = closed /\ n = 0
      <4>1. ns[u] = 0 BY <1>8, <3>2
      <4>2. Times(u, closed') = q BY <3>2
      <4> HIDE DEF q
      <4>3. q = q + 0 BY <3>1
      <4> QED BY <4>1, <4>2, <4>3 DEF q
    <3>3. CASE closed' = Append(closed, v.uid) /\ n = 1
      <4>1. Times(u, closed') = q + (IF u = v.uid THEN 1 ELSE 0) BY <1>1, <3>3, TimesAppend
      <4>2. ns[u] = IF u = v.uid THEN 1 ELSE 0 BY <1>8, <3>3
      <4> QED BY <4>1, <4>2
    <3> QED BY <1>6, <3>2, <3>3
  <2>3. ASSUME NEW u \in Uids, ns[u] = 1
        PROVE  \E tk \in Tickers : \E i \in 1..Len(trades[tk]) : trades[tk][i].uid = u
    <3>1. u = v.uid BY <1>8, <2>3
    <3> QED BY <3>1
  <2> QED BY <1>8, <2>1, <2>2, <2>3 DEF Recorded
<1>10. ASSUME NEW tk \in Tickers
       PROVE  /\ ListChanged(trades[tk], trades'[tk], ns, wild2)
              /\ \A i \in 1..Len(trades'[tk]) : TradeOK(trades'[tk][i], x'.orders)
  <2>1. ListOK(trades[tk], tk, x.orders) BY <1>1 DEF TradesOK
  <2>2. ASSUME NEW i \in 1..Len(trades[tk]), trades[tk][i].uid # v.uid
        PROVE  Changed(trades[tk][i], trades[tk][i], ns[trades[tk][i].uid], wild2)
    <3>1. trades[tk][i].uid \in Uids BY <2>1 DEF ListOK, TradeOK
    <3>2. ns[trades[tk][i].uid] = 0 BY <1>8, <2>2, <3>1
    <3> QED BY <3>2 DEF Changed
  <2>3. \A i \in 1..Len(trades[tk]) : TradeOK(trades[tk][i], x'.orders)
    <3>1. \A i \in 1..Len(trades[tk]) : TradeOK(trades[tk][i], x.orders) BY <2>1 DEF ListOK
    <3> QED BY <1>1, <3>1, TradeThrough
  <2>4. CASE tk # a
    <3>1. trades'[tk] = trades[tk] BY <1>2, <2>4
    <3>2. ASSUME NEW i \in 1..Len(trades[tk]) PROVE trades[tk][i].uid # v.uid
      BY <1>1, <2>4, OneTrade
    <3>3. IsList(trades[tk]) BY <2>1 DEF ListOK
    <3> QED BY <2>2, <2>3, <3>1, <3>2, <3>3 DEF ListChanged
  <2>5. CASE tk = a
    <3>1. ASSUME NEW i \in 1..Len(trades[a])
          PROVE  /\ Changed(trades[a][i], trades'[a][i], ns[trades[a][i].uid], wild2)
                 /\ TradeOK(trades'[a][i], x'.orders)
      <4>1. CASE i = k
        <5>1. Changed(trades[a][k], v, n, wild2)
          BY <1>6, <1>7 DEF Changed, Done
        <5> QED BY <1>4, <1>8, <4>1, <5>1
      <4>2. CASE i # k
        <5>1. trades[a][i].uid # v.uid BY <1>3, <4>2
        <5> QED BY <1>4, <2>2, <2>3, <2>5, <4>2, <5>1
      <4> QED BY <4>1, <4>2
    <3> QED BY <1>4, <2>5, <3>1 DEF ListChanged
  <2> QED BY <2>4, <2>5
<1>11. Dealt(ns) BY <1>2, <1>9, <1>10 DEF Dealt, TradesChanged, wild2
<1> QED BY <1>11, Dealing


-----------------------------------------------------------------------------
(* The steps that leave the trades alone. *)

LEMMA PlanIs == ASSUME NEW u \in Uids PROVE Plans[u] \in PlanType /\ Plans[u].size \in Nat \ {0}
<1>1. Plans[u] \in PlanType BY InstanceAssumption DEF Uids
<1> QED BY <1>1 DEF PlanType

LEMMA ResultKept ==
    ASSUME ExecInv, UNCHANGED result, ExchangeOK(x'), Grows(x.orders, x'.orders)
    PROVE  ResultOK(result', x'.orders)
<1>1. ResultOK(result, x.orders) /\ IsList(x.orders) BY DEF ExecInv, ExchangeOK
<1>2. IsList(x'.orders) BY DEF ExchangeOK
<1>3. ResultOK(result, x'.orders) BY <1>1, <1>2, ResultGrows
<1> QED BY <1>3

\* The submits, the tick and the journal are left alone.
LEMMA ElsewhereKept ==
    ASSUME ExecInv, UNCHANGED <<inflight, submitted, acts, journal>>, ResultOK(result', x'.orders)
    PROVE  Elsewhere
BY DEF Elsewhere, ExecInv, LandedOK

LEMMA ExchangeMoves ==
    ASSUME ExecInv, ExchangeOK(x'), Grows(x.orders, x'.orders),
           UNCHANGED <<trades, inflight, submitted, result, acts, closed, journal, swept,
                       badClose>>
    PROVE  ExecInv' /\ NoRevival
<1>1. Elsewhere BY ResultKept, ElsewhereKept
<1> QED BY <1>1, IdleDealing

LEMMA ExchangeStays ==
    ASSUME ExecInv, UNCHANGED x PROVE ExchangeOK(x') /\ Grows(x.orders, x'.orders)
<1>1. ExchangeOK(x) BY DEF ExecInv
<1>2. Grows(x.orders, x.orders) BY <1>1, NoCalls
<1> QED BY <1>1, <1>2

LEMMA SubmitBeginStep ==
    ASSUME ExecInv, NEW u \in Uids, SubmitBegin(u) PROVE ExecInv' /\ NoRevival
<1>1. ExchangeOK(x') /\ Grows(x.orders, x'.orders) BY ExchangeStays DEF SubmitBegin
<1>2. ResultOK(result', x'.orders) BY <1>1, ResultKept DEF SubmitBegin
<1>3. DOMAIN inflight' = DOMAIN inflight \union {u} BY DEF SubmitBegin
<1>4. DOMAIN inflight \subseteq submitted /\ submitted \subseteq Uids BY DEF ExecInv, LandedOK
<1>5. Elsewhere BY <1>2, <1>3, <1>4 DEF Elsewhere, SubmitBegin
<1> QED BY <1>1, <1>5, IdleDealing DEF SubmitBegin

LEMMA PostArrivesStep ==
    ASSUME ExecInv, NEW u \in Uids, PostArrives(u) PROVE ExecInv' /\ NoRevival
<1>1. ExchangeOK(x') /\ Grows(x.orders, x'.orders)
  <2>1. ExchangeOK(x) BY DEF ExecInv
  <2>2. x' = Accept(x, u, "entry", Plans[u].size) BY DEF PostArrives
  <2>3. Plans[u].size \in Nat \ {0} BY PlanIs
  <2> QED BY <2>1, <2>2, <2>3, AcceptOK
<1>2. ResultOK(result', x'.orders) BY <1>1, ResultKept DEF PostArrives
<1>3. DOMAIN inflight' = DOMAIN inflight BY DEF PostArrives
<1>4. DOMAIN inflight \subseteq submitted /\ submitted \subseteq Uids BY DEF ExecInv, LandedOK
<1>5. Elsewhere BY <1>2, <1>3, <1>4 DEF Elsewhere, PostArrives
<1> QED BY <1>1, <1>5, IdleDealing DEF PostArrives

LEMMA PollResolvesStep == ASSUME ExecInv, PollResolves PROVE ExecInv' /\ NoRevival
<1>1. ExchangeOK(x') /\ Grows(x.orders, x'.orders) BY ExchangeStays DEF PollResolves
<1>2. ResultOK(result', x'.orders)
  <2>1. PICK i \in Candidates :
           result' = [outcome |-> "Resolved", intent |-> unknown, id |-> i]
    BY DEF PollResolves
  <2>2. i \in DOMAIN x.orders BY DEF Candidates
  <2>3. DOMAIN x.orders = 1..Len(x.orders) BY ListIs DEF ExecInv, ExchangeOK
  <2>4. x' = x BY DEF PollResolves
  <2> QED BY <2>1, <2>2, <2>3, <2>4 DEF ResultOK
<1>3. Elsewhere BY <1>2, ElsewhereKept DEF PollResolves
<1> QED BY <1>1, <1>3, IdleDealing DEF PollResolves

LEMMA PollTimesOutStep == ASSUME ExecInv, PollTimesOut PROVE ExecInv' /\ NoRevival
<1>1. ExchangeOK(x') /\ Grows(x.orders, x'.orders)
  <2>1. ExchangeOK(x) BY DEF ExecInv
  <2>2. CASE UNCHANGED x BY <2>2, ExchangeStays
  <2>3. CASE x.faults > 0 /\ x' = Faulted(x)
    <3>1. ExchangeOK(x') /\ x'.orders = x.orders BY <2>1, <2>3, FaultedOK
    <3>2. Grows(x.orders, x.orders) BY <2>1, GrowsSame DEF ExchangeOK
    <3> QED BY <3>1, <3>2
  <2> QED BY <2>2, <2>3 DEF PollTimesOut
<1>2. result'.outcome = "NotFoundTimeout" BY DEF PollTimesOut
<1>3. ResultOK(result', x'.orders) BY <1>2 DEF ResultOK
<1>4. Elsewhere BY <1>3, ElsewhereKept DEF PollTimesOut
<1> QED BY <1>1, <1>4, IdleDealing DEF PollTimesOut

LEMMA OrderEndsStep ==
    ASSUME ExecInv, NEW xs, ExchangeOK(xs), Grows(x.orders, xs.orders),
           NEW id \in 1..Len(xs.orders), x' = Drop(xs, id),
           UNCHANGED <<trades, inflight, submitted, result, acts, closed, journal, swept,
                       badClose>>
    PROVE  ExecInv' /\ NoRevival
<1>1. ExchangeOK(x') /\ Grows(xs.orders, x'.orders) BY DropOK
<1>2. ExchangeOK(x) BY DEF ExecInv
<1>3. Grows(x.orders, x'.orders) BY <1>1, <1>2, GrowsThrough
<1> QED BY <1>1, <1>3, ExchangeMoves

LEMMA EntryFillsStep ==
    ASSUME ExecInv, NEW id \in DOMAIN x.orders, NEW n \in 1..x.orders[id].size,
           EntryFills(id, n)
    PROVE  ExecInv' /\ NoRevival
<1> DEFINE o == x.orders[id]
           part == Filled(x, id, o.filled + n)
           full == Filled(x, id, o.size)
<1>1. ExchangeOK(x) /\ id \in 1..Len(x.orders) BY ListIs DEF ExecInv, ExchangeOK
<1>2. OrderOK(o) /\ o.live /\ o.role = "entry" BY <1>1 DEF ExchangeOK, EntryFills
<1>3. o.filled \in Nat /\ o.size \in Nat \ {0} BY <1>2 DEF OrderOK
<1>4. n \in Nat \ {0} BY <1>3
<1>5. o.filled + n \in Nat \ {0} BY <1>3, <1>4
<1>6. /\ ExchangeOK(full) /\ Grows(x.orders, full.orders)
      /\ Len(full.orders) = Len(x.orders)
  <2> DEFINE k == o.size
  <2>1. k # 0 /\ k \in Nat BY <1>3
  <2> HIDE DEF k
  <2>2. LET ys == Filled(x, id, k)
        IN  /\ ExchangeOK(ys) /\ Grows(x.orders, ys.orders)
            /\ Len(ys.orders) = Len(x.orders)
    BY <1>1, <1>2, <2>1, FilledOK
  <2> QED BY <2>2 DEF k
<1>7. /\ ExchangeOK(part) /\ Grows(x.orders, part.orders)
      /\ Len(part.orders) = Len(x.orders) /\ part.orders[id].filled = o.filled + n
  <2> DEFINE k == o.filled + n
  <2>1. k # 0 /\ k \in Nat BY <1>5
  <2> HIDE DEF k
  <2>2. LET ys == Filled(x, id, k)
        IN  /\ ExchangeOK(ys) /\ Grows(x.orders, ys.orders)
            /\ Len(ys.orders) = Len(x.orders) /\ ys.orders[id].filled = k
    BY <1>1, <1>2, <2>1, FilledOK
  <2> QED BY <2>2 DEF k
<1> DEFINE told == [part EXCEPT !.ws = Append(@, Update(id, "Open", n))]
<1>8. ExchangeOK(told) /\ Grows(x.orders, told.orders)
  <2> HIDE DEF o, part
  <2>1. /\ part = [orders |-> part.orders, ws |-> part.ws, faults |-> part.faults]
        /\ IsList(part.ws) /\ \A k \in 1..Len(part.ws) : UpdateOK(part.ws[k], part.orders)
    BY <1>7 DEF ExchangeOK
  <2> DEFINE m == Update(id, "Open", n)
             ws == Append(part.ws, m)
  <2>2. told = [orders |-> part.orders, ws |-> ws, faults |-> part.faults] BY <2>1
  <2>3. UpdateOK(m, part.orders)
    BY <1>1, <1>5, <1>7 DEF UpdateOK, UpdateShape, Update
  <2> HIDE DEF m, told
  <2>4. IsList(ws) /\ \A k \in 1..Len(ws) : UpdateOK(ws[k], part.orders)
    <3>1. /\ IsList(ws) /\ Len(ws) = Len(part.ws) + 1 /\ ws[Len(part.ws) + 1] = m
          /\ \A k \in 1..Len(part.ws) : ws[k] = part.ws[k]
      BY <2>1, ListAppend
    <3>2. Len(part.ws) \in Nat BY <2>1 DEF IsList
    <3> HIDE DEF ws
    <3>3. \A k \in 1..Len(ws) : k \in 1..Len(part.ws) \/ k = Len(part.ws) + 1
      BY <3>1, <3>2
    <3> QED BY <2>1, <2>3, <3>1, <3>3
  <2> HIDE DEF ws
  <2> QED BY <1>7, <2>2, <2>4 DEF ExchangeOK
<1>9. CASE o.filled + n < o.size
  <2>1. x' = told BY <1>9 DEF EntryFills
  <2> QED BY <1>8, <2>1, ExchangeMoves DEF EntryFills
<1>10. CASE ~(o.filled + n < o.size)
  <2>1. x' = Drop(full, id) BY <1>10 DEF EntryFills
  <2>2. id \in 1..Len(full.orders) BY <1>1, <1>6
  <2> HIDE DEF full
  <2> QED BY <1>6, <2>1, <2>2, OrderEndsStep DEF EntryFills
<1> QED BY <1>9, <1>10

LEMMA ExitFillsStep ==
    ASSUME ExecInv, NEW id \in DOMAIN x.orders, ExitFills(id) PROVE ExecInv' /\ NoRevival
<1> DEFINE o == x.orders[id]
           n == Least(o.size, Exposure(x.orders, OrderTicker(o), Plans[o.by].side))
           full == Filled(x, id, n)
<1>1. ExchangeOK(x) /\ id \in 1..Len(x.orders) BY ListIs DEF ExecInv, ExchangeOK
<1>2. o.live /\ o.role # "entry" /\ n > 0 /\ x' = Drop(full, id) BY DEF ExitFills
<1>3. n # 0
  <2> HIDE DEF n
  <2> QED BY <1>2
<1> HIDE DEF n
<1>4. /\ ExchangeOK(full) /\ Grows(x.orders, full.orders)
      /\ Len(full.orders) = Len(x.orders)
  BY <1>1, <1>2, <1>3, FilledOK
<1>5. id \in 1..Len(full.orders) BY <1>1, <1>4
<1> HIDE DEF full
<1> QED BY <1>2, <1>4, <1>5, OrderEndsStep DEF ExitFills

LEMMA ExchangeCancelsStep ==
    ASSUME ExecInv, NEW id \in DOMAIN x.orders, ExchangeCancels(id)
    PROVE  ExecInv' /\ NoRevival
<1>1. ExchangeOK(x) /\ id \in 1..Len(x.orders) BY ListIs DEF ExecInv, ExchangeOK
<1>2. Grows(x.orders, x.orders) BY <1>1, NoCalls
<1> QED BY <1>1, <1>2, OrderEndsStep DEF ExchangeCancels

-----------------------------------------------------------------------------
(* The steps that close no trade. *)

\* A step that changes the trades of one ticker, and records nothing.
LEMMA LightList ==
    ASSUME ExecInv, Elsewhere, UNCHANGED closed,
           NEW a \in Tickers, NEW list, trades' = [trades EXCEPT ![a] = list],
           IsList(list), Len(list) = Len(trades[a]),
           \A i \in 1..Len(list) :
              /\ Light(trades[a][i], list[i], swept' \union badClose')
              /\ TradeOK(list[i], x'.orders),
           ExchangeOK(x'), Grows(x.orders, x'.orders),
           swept \union badClose \subseteq swept' \union badClose'
    PROVE  ExecInv' /\ NoRevival
<1>1. /\ ExchangeOK(x) /\ TradesOK(trades, x.orders) /\ trades = [tk \in Tickers |-> trades[tk]]
  BY DEF ExecInv
<1>2. /\ trades' = [tk \in Tickers |-> trades'[tk]] /\ trades'[a] = list
      /\ \A tk \in Tickers : tk # a => trades'[tk] = trades[tk]
  BY <1>1
<1>3. ASSUME NEW tk \in Tickers
      PROVE  /\ IsList(trades'[tk]) /\ Len(trades'[tk]) = Len(trades[tk])
             /\ \A i \in 1..Len(trades[tk]) :
                   /\ Light(trades[tk][i], trades'[tk][i], swept' \union badClose')
                   /\ TradeOK(trades'[tk][i], x'.orders)
  <2>1. CASE tk = a BY <1>2, <2>1
  <2>2. CASE tk # a
    <3>1. ListOK(trades[tk], tk, x.orders) /\ trades'[tk] = trades[tk]
      BY <1>1, <1>2, <2>2 DEF TradesOK
    <3>2. ASSUME NEW i \in 1..Len(trades[tk])
          PROVE  /\ Light(trades[tk][i], trades[tk][i], swept' \union badClose')
                 /\ TradeOK(trades[tk][i], x'.orders)
      <4>1. TradeOK(trades[tk][i], x.orders) BY <3>1 DEF ListOK
      <4> QED BY <1>1, <4>1, SameLight, TradeThrough
    <3> QED BY <3>1, <3>2 DEF ListOK
  <2> QED BY <2>1, <2>2
<1> QED BY <1>2, <1>3, LightDealing

\* The list of a ticker, each trade changed by V.
LEMMA ListMapped ==
    ASSUME NEW s, IsList(s), NEW r, r = [i \in DOMAIN s |-> r[i]]
    PROVE  IsList(r) /\ Len(r) = Len(s)
<1>1. DOMAIN s = 1..Len(s) /\ Len(s) \in Nat BY ListIs DEF IsList
<1>2. r = [i \in 1..Len(s) |-> r[i]] /\ DOMAIN r = 1..Len(s) BY <1>1
<1> QED BY <1>1, <1>2, ListOf

LEMMA FixTold ==
    ASSUME NEW orders, NEW t, TradeOK(t, orders), t.st # "Closed", NEW v, NEW wild
    PROVE  /\ Light(t, [t EXCEPT !.fix = v], wild) /\ TradeOK([t EXCEPT !.fix = v], orders)
<1> DEFINE w == [t EXCEPT !.fix = v]
<1>1. Edited(t, w, t.st, t.entry, t.stop, t.tp1, t.exec) BY Edit DEF TradeOK
<1> HIDE DEF w
<1>2. Light(t, w, wild) /\ TradeOK(w, orders) BY <1>1 DEF Edited, Light, TradeOK
<1> QED BY <1>2 DEF w

LEMMA AgeTold ==
    ASSUME NEW orders, NEW t, TradeOK(t, orders), t.st # "Closed", NEW v, NEW wild
    PROVE  /\ Light(t, [t EXCEPT !.old = v], wild) /\ TradeOK([t EXCEPT !.old = v], orders)
<1> DEFINE w == [t EXCEPT !.old = v]
<1>1. Edited(t, w, t.st, t.entry, t.stop, t.tp1, t.exec) BY Edit DEF TradeOK
<1> HIDE DEF w
<1>2. Light(t, w, wild) /\ TradeOK(w, orders) BY <1>1 DEF Edited, Light, TradeOK
<1> QED BY <1>2 DEF w

LEMMA OnPositionUpdateStep ==
    ASSUME ExecInv, NEW tk \in Tickers, NEW side, OnPositionUpdate(tk, side)
    PROVE  ExecInv' /\ NoRevival
<1> DEFINE s == trades[tk]
           e == Exposure(x.orders, tk, side) > 0
           list == [i \in DOMAIN s |-> IF s[i].st # "Closed" /\ Plans[s[i].uid].side = side
                                       THEN [s[i] EXCEPT !.fix = e] ELSE s[i]]
<1>1. trades' = [trades EXCEPT ![tk] = list] BY DEF OnPositionUpdate
<1>2. ListOK(s, tk, x.orders) BY DEF ExecInv, TradesOK
<1>3. DOMAIN s = 1..Len(s) /\ IsList(s) BY <1>2, ListIs DEF ListOK
<1>4. IsList(list) /\ Len(list) = Len(s)
  <2>1. list = [i \in DOMAIN s |-> list[i]] OBVIOUS
  <2> HIDE DEF s, list
  <2> QED BY <1>3, <2>1, ListMapped
<1>5. x' = x BY DEF OnPositionUpdate
<1>6. ExchangeOK(x') /\ Grows(x.orders, x'.orders) BY <1>5, ExchangeStays
<1>7. ASSUME NEW i \in 1..Len(list)
      PROVE  Light(s[i], list[i], swept' \union badClose') /\ TradeOK(list[i], x'.orders)
  <2> DEFINE t == s[i]
  <2>1. i \in DOMAIN s /\ TradeOK(t, x.orders) BY <1>2, <1>3, <1>4 DEF ListOK
  <2>2. CASE s[i].st # "Closed" /\ Plans[s[i].uid].side = side
    <3>1. list[i] = [t EXCEPT !.fix = e] BY <2>1, <2>2
    <3>2. t.st # "Closed" BY <2>2
    <3> HIDE DEF t, e, list
    <3>3. Light(t, [t EXCEPT !.fix = e], swept' \union badClose')
          /\ TradeOK([t EXCEPT !.fix = e], x.orders)
      BY <2>1, <3>2, FixTold
    <3> QED BY <1>5, <3>1, <3>3 DEF t
  <2>3. CASE ~(s[i].st # "Closed" /\ Plans[s[i].uid].side = side)
    <3>1. list[i] = t BY <2>1, <2>3
    <3> HIDE DEF list
    <3> QED BY <1>5, <2>1, <3>1, SameLight
  <2> QED BY <2>2, <2>3
<1>8. ResultOK(result', x'.orders) BY <1>6, ResultKept DEF OnPositionUpdate
<1>9. Elsewhere BY <1>8, ElsewhereKept DEF OnPositionUpdate
<1> HIDE DEF list
<1> QED BY <1>1, <1>4, <1>6, <1>7, <1>9, LightList DEF OnPositionUpdate

LEMMA TimePassesStep ==
    ASSUME ExecInv, NEW tk \in Tickers, TimePasses(tk) PROVE ExecInv' /\ NoRevival
<1> DEFINE s == trades[tk]
           list == [i \in DOMAIN s |-> IF s[i].st = "Open" THEN [s[i] EXCEPT !.old = TRUE]
                                       ELSE s[i]]
<1>1. trades' = [trades EXCEPT ![tk] = list] BY DEF TimePasses
<1>2. ListOK(s, tk, x.orders) BY DEF ExecInv, TradesOK
<1>3. DOMAIN s = 1..Len(s) /\ IsList(s) BY <1>2, ListIs DEF ListOK
<1>4. IsList(list) /\ Len(list) = Len(s)
  <2>1. list = [i \in DOMAIN s |-> list[i]] OBVIOUS
  <2> HIDE DEF s, list
  <2> QED BY <1>3, <2>1, ListMapped
<1>5. x' = x BY DEF TimePasses
<1>6. ExchangeOK(x') /\ Grows(x.orders, x'.orders) BY <1>5, ExchangeStays
<1>7. ASSUME NEW i \in 1..Len(list)
      PROVE  Light(s[i], list[i], swept' \union badClose') /\ TradeOK(list[i], x'.orders)
  <2> DEFINE t == s[i]
  <2>1. i \in DOMAIN s /\ TradeOK(t, x.orders) BY <1>2, <1>3, <1>4 DEF ListOK
  <2>2. CASE s[i].st = "Open"
    <3>1. list[i] = [t EXCEPT !.old = TRUE] BY <2>1, <2>2
    <3>2. t.st # "Closed" BY <2>2
    <3>3. PICK v : v = TRUE OBVIOUS
    <3> HIDE DEF t, list
    <3>4. Light(t, [t EXCEPT !.old = v], swept' \union badClose')
          /\ TradeOK([t EXCEPT !.old = v], x.orders)
      BY <2>1, <3>2, AgeTold
    <3> QED BY <1>5, <3>1, <3>3, <3>4 DEF t
  <2>3. CASE s[i].st # "Open"
    <3>1. list[i] = t BY <2>1, <2>3
    <3> HIDE DEF list
    <3> QED BY <1>5, <2>1, <3>1, SameLight
  <2> QED BY <2>2, <2>3
<1>8. ResultOK(result', x'.orders) BY <1>6, ResultKept DEF TimePasses
<1>9. Elsewhere BY <1>8, ElsewhereKept DEF TimePasses
<1> HIDE DEF list
<1> QED BY <1>1, <1>4, <1>6, <1>7, <1>9, LightList DEF TimePasses

-----------------------------------------------------------------------------
(* The loops over a ticker's trades. *)

Wild(o, t) == IF o.bad THEN {t.uid} ELSE {}

\* What a turn of a loop does to a trade.
TurnOK(o, t, xs, loop) ==
    /\ ExchangeOK(o.x) /\ Grows(xs.orders, o.x.orders)
    /\ TradeOK(o.t, o.x.orders) /\ o.t.uid = t.uid
    /\ \/ o.rec = <<>> /\ Changed(t, o.t, 0, Wild(o, t))
       \/ o.rec = <<t.uid>> /\ Changed(t, o.t, 1, Wild(o, t))
    /\ loop = "rearm" => o.rec = <<>> /\ Wild(o, t) = {}

LEMMA OutcomeIs ==
    ASSUME NEW t, NEW xs
    PROVE  LET o == Outcome(t, xs) IN o.t = t /\ o.x = xs /\ o.rec = <<>> /\ ~o.bad
BY DEF Outcome

LEMMA HandledOK ==
    ASSUME NEW loop \in {"rearm", "close"}, NEW xs, ExchangeOK(xs),
           NEW t, TradeOK(t, xs.orders), NEW o \in Handled(loop, t, xs)
    PROVE  TurnOK(o, t, xs, loop)
<1>1. CASE loop = "rearm" /\ NeedsStop(t)
  <2>1. o \in PlaceStops(t, xs) BY <1>1 DEF Handled
  <2>2. StopsOK(o, t, xs) BY <2>1, PlaceStopsOK
  <2>3. Wild(o, t) = {} /\ o.rec = <<>>
    <3>1. ~o.bad /\ o.rec = <<>> BY <2>2 DEF StopsOK
    <3> QED BY <3>1 DEF Wild
  <2>4. t.st = "Open" BY <1>1 DEF NeedsStop
  <2>5. Changed(t, o.t, 0, {}) BY <2>2, <2>4 DEF StopsOK, Same, Changed, Done
  <2> QED BY <2>2, <2>3, <2>5 DEF TurnOK, StopsOK, Same
<1>2. CASE loop = "close" /\ t.st = "Open" /\ t.exec > 0
  <2>1. o \in EmergencyClose(t, xs) BY <1>2 DEF Handled
  <2>2. HandlerOK(o, t, xs) BY <2>1, EmergencyCloseOK
  <2>3. CASE o.rec = <<>> /\ (o.t.st = "Closed" => o.t.exec = 0)
    <3>1. Changed(t, o.t, 0, Wild(o, t)) BY <1>2, <2>2, <2>3 DEF HandlerOK, Changed, Done
    <3> QED BY <1>2, <2>2, <2>3, <3>1 DEF TurnOK, HandlerOK
  <2>4. CASE o.rec = <<t.uid>> /\ (o.bad \/ o.t.st = "Closed")
    <3>1. Changed(t, o.t, 1, Wild(o, t))
      BY <1>2, <2>2, <2>4 DEF HandlerOK, Changed, Done, Wild
    <3> QED BY <1>2, <2>2, <2>4, <3>1 DEF TurnOK, HandlerOK
  <2> QED BY <2>2, <2>3, <2>4 DEF HandlerOK
<1>3. CASE ~(loop = "rearm" /\ NeedsStop(t)) /\ ~(loop = "close" /\ t.st = "Open" /\ t.exec > 0)
  <2>1. o = Outcome(t, xs) BY <1>3 DEF Handled
  <2>2. o.t = t /\ o.x = xs /\ o.rec = <<>> /\ Wild(o, t) = {}
    BY <2>1, OutcomeIs DEF Wild
  <2>3. Changed(t, t, 0, {}) BY DEF Changed
  <2>4. Grows(xs.orders, xs.orders) BY NoCalls
  <2> QED BY <2>2, <2>3, <2>4 DEF TurnOK
<1> QED BY <1>1, <1>2, <1>3

\* After n turns: the trades, the exchange, the records, each trade recorded
\* once at most, and whose market close threw.
AfterOK(a, n, loop, list, xs) ==
    /\ ExchangeOK(a.x) /\ Grows(xs.orders, a.x.orders)
    /\ IsList(a.list) /\ Len(a.list) = n
    /\ IsList(a.rec) /\ \A k \in 1..Len(a.rec) : a.rec[k] \in Uids
    /\ \A u \in Uids : /\ Times(u, a.rec) \in {0, 1}
                       /\ Times(u, a.rec) = 1 => \E i \in 1..n : list[i].uid = u
    /\ \A i \in 1..n : /\ TradeOK(a.list[i], a.x.orders)
                       /\ Changed(list[i], a.list[i], Times(list[i].uid, a.rec), a.bad)
    /\ loop = "rearm" => a.rec = <<>> /\ a.bad = {}

LEMMA WilderChange ==
    ASSUME NEW t, NEW v, NEW n, NEW w, NEW w2, w \subseteq w2, Changed(t, v, n, w)
    PROVE  Changed(t, v, n, w2)
BY DEF Changed

TurnOf(a, o, t) ==
    [list |-> Append(a.list, o.t), x |-> o.x, rec |-> a.rec \o o.rec,
     bad |-> a.bad \union Wild(o, t)]

LEMMA TurnsOK ==
    ASSUME NEW loop \in {"rearm", "close"}, NEW xs, ExchangeOK(xs), NEW tk, NEW list,
           ListOK(list, tk, xs.orders), NEW n \in Nat, n + 1 <= Len(list),
           NEW a, AfterOK(a, n, loop, list, xs), NEW o \in Handled(loop, list[n + 1], a.x)
    PROVE  AfterOK(TurnOf(a, o, list[n + 1]), n + 1, loop, list, xs)
<1> DEFINE t == list[n + 1]
           b == TurnOf(a, o, t)
<1>1. Len(list) \in Nat /\ n + 1 \in 1..Len(list) BY DEF ListOK, IsList
<1>2. /\ ExchangeOK(a.x) /\ Grows(xs.orders, a.x.orders) /\ IsList(a.list) /\ Len(a.list) = n
      /\ IsList(a.rec) /\ \A k \in 1..Len(a.rec) : a.rec[k] \in Uids
  BY DEF AfterOK
<1>3. TradeOK(t, xs.orders) BY <1>1 DEF ListOK
<1>4. TradeOK(t, a.x.orders) BY <1>2, <1>3, TradeThrough
<1>5. TurnOK(o, t, a.x, loop) BY <1>2, <1>4, HandledOK
<1>6. t.uid \in Uids BY <1>3 DEF TradeOK
<1>7. ASSUME NEW i \in 1..n PROVE list[i].uid # t.uid /\ list[i].uid \in Uids
  <2>1. i \in 1..Len(list) /\ i # n + 1 BY <1>1
  <2>2. TradeOK(list[i], xs.orders) BY <2>1 DEF ListOK
  <2> QED BY <1>1, <2>1, <2>2 DEF ListOK, TradeOK
<1>8. /\ b.list = Append(a.list, o.t) /\ b.x = o.x /\ b.rec = a.rec \o o.rec
      /\ b.bad = a.bad \union Wild(o, t)
  BY DEF TurnOf
<1> HIDE DEF b
<1>9. /\ IsList(b.list) /\ Len(b.list) = n + 1 /\ b.list[n + 1] = o.t
      /\ \A i \in 1..n : b.list[i] = a.list[i]
  BY <1>2, <1>8, ListAppend
<1>10. ExchangeOK(b.x) /\ Grows(xs.orders, b.x.orders) /\ Grows(a.x.orders, b.x.orders)
  BY <1>2, <1>5, <1>8, GrowsThrough DEF TurnOK
<1>11. PICK k \in {0, 1} :
          /\ Changed(t, o.t, k, Wild(o, t))
          /\ IsList(b.rec) /\ \A j \in 1..Len(b.rec) : b.rec[j] \in Uids
          /\ \A u \in Uids : Times(u, b.rec) = IF u = t.uid THEN Times(u, a.rec) + k
                                               ELSE Times(u, a.rec)
  <2>1. CASE o.rec = <<>> /\ Changed(t, o.t, 0, Wild(o, t))
    <3>1. b.rec = a.rec BY <1>2, <1>8, <2>1, ListConcatEmpty
    <3>2. \A u \in Uids : Times(u, a.rec) + 0 = Times(u, a.rec)
      <4> SUFFICES ASSUME NEW u \in Uids PROVE Times(u, a.rec) + 0 = Times(u, a.rec) OBVIOUS
      <4> DEFINE q == Times(u, a.rec)
      <4>1. q \in Nat BY <1>2, TimesIs
      <4> HIDE DEF q
      <4>2. q + 0 = q BY <4>1
      <4> QED BY <4>2 DEF q
    <3> QED BY <1>2, <2>1, <3>1, <3>2
  <2>2. CASE o.rec = <<t.uid>> /\ Changed(t, o.t, 1, Wild(o, t))
    <3>1. b.rec = Append(a.rec, t.uid) BY <1>2, <1>8, <2>2, ListConcatOne
    <3>2. /\ IsList(b.rec) /\ Len(b.rec) = Len(a.rec) + 1 /\ b.rec[Len(a.rec) + 1] = t.uid
          /\ \A j \in 1..Len(a.rec) : b.rec[j] = a.rec[j]
      BY <1>2, <3>1, ListAppend
    <3>3. \A j \in 1..Len(b.rec) : j \in 1..Len(a.rec) \/ j = Len(a.rec) + 1
      BY <1>2, <3>2 DEF IsList
    <3>4. \A j \in 1..Len(b.rec) : b.rec[j] \in Uids BY <1>2, <1>6, <3>2, <3>3
    <3>5. ASSUME NEW u \in Uids
          PROVE  Times(u, b.rec) = IF u = t.uid THEN Times(u, a.rec) + 1 ELSE Times(u, a.rec)
      <4> DEFINE q == Times(u, a.rec)
      <4>1. q \in Nat BY <1>2, TimesIs
      <4>2. Times(u, b.rec) = q + (IF u = t.uid THEN 1 ELSE 0)
        BY <1>2, <3>1, TimesAppend
      <4> HIDE DEF q
      <4>3. q + 0 = q BY <4>1
      <4>4. Times(u, b.rec) = IF u = t.uid THEN q + 1 ELSE q BY <4>2, <4>3
      <4> QED BY <4>4 DEF q
    <3> QED BY <2>2, <3>2, <3>4, <3>5
  <2> QED BY <1>5, <2>1, <2>2 DEF TurnOK
<1>12. Times(t.uid, a.rec) = 0
  <2>1. Times(t.uid, a.rec) \in {0, 1} BY <1>6 DEF AfterOK
  <2>2. Times(t.uid, a.rec) # 1 BY <1>6, <1>7 DEF AfterOK
  <2> QED BY <2>1, <2>2
<1>13. Times(t.uid, b.rec) = k
  <2>1. Times(t.uid, b.rec) = Times(t.uid, a.rec) + k BY <1>6, <1>11
  <2> QED BY <1>12, <2>1
<1>14. ASSUME NEW u \in Uids
       PROVE  /\ Times(u, b.rec) \in {0, 1}
              /\ Times(u, b.rec) = 1 => \E i \in 1..n + 1 : list[i].uid = u
  <2>1. CASE u = t.uid
    <3>1. n + 1 \in 1..n + 1 OBVIOUS
    <3> QED BY <1>13, <2>1, <3>1
  <2>2. CASE u # t.uid
    <3>1. Times(u, b.rec) = Times(u, a.rec) BY <1>11, <2>2
    <3>2. /\ Times(u, a.rec) \in {0, 1}
          /\ Times(u, a.rec) = 1 => \E i \in 1..n : list[i].uid = u
      BY DEF AfterOK
    <3>3. 1..n \subseteq 1..n + 1 OBVIOUS
    <3> QED BY <3>1, <3>2, <3>3
  <2> QED BY <2>1, <2>2
<1>15. ASSUME NEW i \in 1..n + 1
       PROVE  /\ TradeOK(b.list[i], b.x.orders)
              /\ Changed(list[i], b.list[i], Times(list[i].uid, b.rec), b.bad)
  <2>1. CASE i \in 1..n
    <3>1. /\ TradeOK(a.list[i], a.x.orders)
          /\ Changed(list[i], a.list[i], Times(list[i].uid, a.rec), a.bad)
      BY <2>1 DEF AfterOK
    <3>2. Times(list[i].uid, b.rec) = Times(list[i].uid, a.rec) BY <1>7, <1>11, <2>1
    <3>3. TradeOK(a.list[i], b.x.orders) BY <1>2, <1>10, <3>1, TradeThrough
    <3>4. Changed(list[i], a.list[i], Times(list[i].uid, a.rec), b.bad)
      BY <1>8, <3>1, WilderChange
    <3> QED BY <1>9, <2>1, <3>2, <3>3, <3>4
  <2>2. CASE i = n + 1
    <3>1. TradeOK(o.t, b.x.orders) BY <1>5, <1>8 DEF TurnOK
    <3>2. Changed(t, o.t, k, b.bad) BY <1>8, <1>11, WilderChange
    <3> QED BY <1>9, <1>13, <2>2, <3>1, <3>2
  <2> QED BY <2>1, <2>2
<1>16. loop = "rearm" => b.rec = <<>> /\ b.bad = {}
  <2> SUFFICES ASSUME loop = "rearm" PROVE b.rec = <<>> /\ b.bad = {} OBVIOUS
  <2>1. a.rec = <<>> /\ a.bad = {} BY DEF AfterOK
  <2>2. o.rec = <<>> /\ Wild(o, t) = {} BY <1>5 DEF TurnOK
  <2>3. b.rec = a.rec BY <1>2, <1>8, <2>2, ListConcatEmpty
  <2> QED BY <1>8, <2>1, <2>2, <2>3
<1>17. AfterOK(b, n + 1, loop, list, xs)
  BY <1>9, <1>10, <1>11, <1>14, <1>15, <1>16 DEF AfterOK
<1> QED BY <1>17 DEF b

\* The outcomes of the loop after its first m turns.
Turns(f, n, loop, list, xs) ==
    f = [m \in 0..n |-> IF m = 0 THEN {[list |-> <<>>, x |-> xs, rec |-> <<>>, bad |-> {}]}
                        ELSE Turn(loop, list[m], f[m - 1])]

LEMMA TurnsExist ==
    ASSUME NEW loop, NEW list, NEW xs, NEW n \in Nat
    PROVE  \E f : Turns(f, n, loop, list, xs)
<1> DEFINE P == {k \in Nat : \E f : Turns(f, k, loop, list, xs)}
           first == {[list |-> <<>>, x |-> xs, rec |-> <<>>, bad |-> {}]}
<1>1. 0 \in P
  <2> DEFINE f == [m \in 0..0 |-> first]
  <2>1. f = [m \in 0..0 |-> IF m = 0 THEN first ELSE Turn(loop, list[m], f[m - 1])]
    <3> HIDE DEF first
    <3>1. \A m \in 0..0 : m = 0 OBVIOUS
    <3> QED BY <3>1
  <2>2. Turns(f, 0, loop, list, xs) BY <2>1 DEF Turns
  <2> QED BY <2>2
<1>2. ASSUME NEW k \in Nat, k \in P PROVE k + 1 \in P
  <2>1. PICK f : Turns(f, k, loop, list, xs) BY <1>2
  <2> DEFINE last == Turn(loop, list[k + 1], f[k])
             g == [m \in 0..(k + 1) |-> IF m = k + 1 THEN last ELSE f[m]]
  <2>2. f = [m \in 0..k |-> IF m = 0 THEN first ELSE Turn(loop, list[m], f[m - 1])]
    BY <2>1 DEF Turns
  <2> HIDE DEF first
  <2>3. ASSUME NEW m \in 0..(k + 1)
        PROVE  g[m] = IF m = 0 THEN first ELSE Turn(loop, list[m], g[m - 1])
    <3>1. CASE m = 0
      <4>1. g[m] = f[m] /\ 0 \in 0..k BY <3>1
      <4>2. f[0] = first BY <2>2, <4>1
      <4> QED BY <3>1, <4>1, <4>2
    <3>2. CASE m = k + 1
      <4>1. m # 0 /\ m - 1 = k /\ k \in 0..(k + 1) /\ k # k + 1 BY <3>2
      <4>2. g[k] = f[k] BY <4>1
      <4>3. g[m] = last BY <3>2
      <4> HIDE DEF g
      <4> QED BY <3>2, <4>1, <4>2, <4>3
    <3>3. CASE m # 0 /\ m # k + 1
      <4>1. m \in 0..k /\ m - 1 \in 0..(k + 1) /\ m - 1 # k + 1 BY <3>3
      <4>2. g[m] = f[m] /\ g[m - 1] = f[m - 1] BY <3>3, <4>1
      <4>3. f[m] = Turn(loop, list[m], f[m - 1]) BY <2>2, <3>3, <4>1
      <4> HIDE DEF g
      <4> QED BY <3>3, <4>2, <4>3
    <3> QED BY <3>1, <3>2, <3>3
  <2>4. g = [m \in 0..(k + 1) |-> IF m = 0 THEN first ELSE Turn(loop, list[m], g[m - 1])]
    BY <2>3
  <2>5. Turns(g, k + 1, loop, list, xs)
    <3> HIDE DEF g
    <3> QED BY <2>4 DEF Turns, first
  <2> QED BY <2>5
<1> HIDE DEF P
<1>3. n \in P BY <1>1, <1>2, SetInduction
<1> QED BY <1>3 DEF P

LEMMA ForEachIs ==
    ASSUME NEW loop, NEW list, NEW xs, Len(list) \in Nat
    PROVE  \E f : /\ Turns(f, Len(list), loop, list, xs)
                  /\ ForEach(loop, list, xs) = f[Len(list)]
<1> DEFINE f == CHOOSE f : Turns(f, Len(list), loop, list, xs)
<1>1. Turns(f, Len(list), loop, list, xs) BY TurnsExist
<1>2. ForEach(loop, list, xs) = f[Len(list)] BY DEF ForEach, Turns
<1> QED BY <1>1, <1>2

LEMMA ForEachOK ==
    ASSUME NEW loop \in {"rearm", "close"}, NEW xs, ExchangeOK(xs), NEW tk, NEW list,
           ListOK(list, tk, xs.orders), NEW a \in ForEach(loop, list, xs)
    PROVE  AfterOK(a, Len(list), loop, list, xs)
<1>1. IsList(list) /\ Len(list) \in Nat BY DEF ListOK, IsList
<1> DEFINE N == Len(list)
           first == [list |-> <<>>, x |-> xs, rec |-> <<>>, bad |-> {}]
<1>2. PICK f : Turns(f, N, loop, list, xs) /\ ForEach(loop, list, xs) = f[N]
  BY <1>1, ForEachIs
<1>3. f = [m \in 0..N |-> IF m = 0 THEN {first} ELSE Turn(loop, list[m], f[m - 1])]
  BY <1>2 DEF Turns
<1>4. AfterOK(first, 0, loop, list, xs)
  <2>1. /\ first.list = <<>> /\ first.x = xs /\ first.rec = <<>> /\ first.bad = {} OBVIOUS
  <2> HIDE DEF first
  <2>2. Grows(xs.orders, xs.orders) BY NoCalls
  <2>3. \A u \in Uids : Times(u, <<>>) = 0 BY TimesEmpty
  <2>4. 1..0 = {} OBVIOUS
  <2>5. IsList(<<>>) /\ Len(<<>>) = 0 BY ListEmpty
  <2>6. ExchangeOK(first.x) /\ Grows(xs.orders, first.x.orders) BY <2>1, <2>2
  <2>7. /\ IsList(first.list) /\ Len(first.list) = 0 /\ IsList(first.rec)
        /\ \A k \in 1..Len(first.rec) : first.rec[k] \in Uids
    BY <2>1, <2>4, <2>5
  <2>8. \A u \in Uids : Times(u, first.rec) = 0 BY <2>1, <2>3
  <2> QED BY <2>1, <2>4, <2>6, <2>7, <2>8 DEF AfterOK
<1> DEFINE P == {n \in Nat : n <= N => \A b \in f[n] : AfterOK(b, n, loop, list, xs)}
<1>5. 0 \in P
  <2>1. f[0] = {first}
    <3> HIDE DEF first
    <3>1. 0 \in 0..N BY <1>1
    <3> QED BY <1>3, <3>1
  <2> HIDE DEF first
  <2>2. \A b \in f[0] : AfterOK(b, 0, loop, list, xs) BY <1>4, <2>1
  <2> QED BY <2>2
<1>6. ASSUME NEW n \in Nat, n \in P PROVE n + 1 \in P
  <2> SUFFICES ASSUME n + 1 <= N, NEW b \in f[n + 1] PROVE AfterOK(b, n + 1, loop, list, xs)
    OBVIOUS
  <2>1. n <= N /\ n + 1 \in 0..N /\ n + 1 # 0 /\ (n + 1) - 1 = n
    <3> DEFINE L == Len(list)
    <3>1. L \in Nat /\ n + 1 <= L BY <1>1
    <3> HIDE DEF L
    <3>2. n <= L /\ n + 1 \in 0..L /\ n + 1 # 0 /\ (n + 1) - 1 = n BY <3>1
    <3> QED BY <3>2 DEF L
  <2>2. \A a2 \in f[n] : AfterOK(a2, n, loop, list, xs) BY <1>6, <2>1
  <2>3. f[n + 1] = Turn(loop, list[n + 1], f[n])
    <3> HIDE DEF N, first
    <3> QED BY <1>3, <2>1
  <2> DEFINE t == list[n + 1]
  <2>4. b \in Turn(loop, t, f[n]) BY <2>3
  <2>5. PICK a1 \in f[n] : b \in {[list |-> Append(a1.list, o.t), x |-> o.x,
                                  rec |-> a1.rec \o o.rec,
                                  bad |-> a1.bad \union (IF o.bad THEN {t.uid} ELSE {})] :
                                    o \in Handled(loop, t, a1.x)}
    <3> HIDE DEF t
    <3> QED BY <2>4 DEF Turn
  <2>6. PICK o \in Handled(loop, t, a1.x) : b = TurnOf(a1, o, t)
    <3> HIDE DEF t
    <3> QED BY <2>5 DEF TurnOf, Wild
  <2>7. AfterOK(a1, n, loop, list, xs) BY <2>2
  <2> QED BY <2>6, <2>7, TurnsOK
<1> HIDE DEF P
<1>7. Nat \subseteq P BY <1>5, <1>6, SetInduction
<1>8. N \in P BY <1>1, <1>7
<1> QED BY <1>1, <1>2, <1>8 DEF P

\* The records of two lists add up.
LEMMA TimesConcat ==
    ASSUME NEW s, IsList(s), NEW r, IsList(r), NEW u
    PROVE  Times(u, s \o r) = Times(u, s) + Times(u, r)
<1> DEFINE q == s \o r
           n == Len(s)
           m == Len(r)
           A == {i \in 1..n : s[i] = u}
           B == {i \in 1..m : r[i] = u}
           C == {i \in 1..(n + m) : q[i] = u}
           D == {i \in (n + 1)..(n + m) : q[i] = u}
<1>1. Joined(s, r, q) BY ListConcat
<1>2. /\ IsList(q) /\ Len(q) = n + m /\ n \in Nat /\ m \in Nat
      /\ \A i \in 1..n : q[i] = s[i]
      /\ \A i \in 1..m : q[n + i] = r[i]
  BY <1>1 DEF Joined, IsList
<1>3. DOMAIN s = 1..n /\ DOMAIN r = 1..m /\ DOMAIN q = 1..(n + m) BY <1>2, ListIs
<1>4. /\ Times(u, s) = Cardinality(A) /\ Times(u, r) = Cardinality(B)
      /\ Times(u, q) = Cardinality(C)
  <2> HIDE DEF n, m, q
  <2> QED BY <1>3 DEF Times
<1> HIDE DEF q, n, m
<1>5. C = A \union D
  <2>1. ASSUME NEW i \in C PROVE i \in A \union D
    <3>1. CASE i <= n BY <1>2, <3>1
    <3>2. CASE i > n BY <1>2, <3>2
    <3> QED BY <1>2, <3>1, <3>2
  <2>2. A \subseteq C BY <1>2
  <2>3. D \subseteq C BY <1>2
  <2> QED BY <2>1, <2>2, <2>3
<1>6. A \intersect D = {} BY <1>2
<1>7. IsFiniteSet(A) /\ IsFiniteSet(B) /\ IsFiniteSet(D)
  <2>1. IsFiniteSet(1..n) /\ IsFiniteSet(1..m) /\ IsFiniteSet((n + 1)..(n + m))
    BY <1>2, FS_Interval
  <2> QED BY <2>1, FS_Subset
<1>8. Cardinality(D) = Cardinality(B)
  <2> DEFINE f == [i \in B |-> n + i]
  <2>1. f \in Bijection(B, D)
    <3>1. ASSUME NEW i \in B PROVE f[i] \in D BY <1>2
    <3>2. ASSUME NEW i \in B, NEW j \in B, f[i] = f[j] PROVE i = j BY <1>2, <3>2
    <3>3. ASSUME NEW d \in D PROVE \E i \in B : f[i] = d
      <4>1. d - n \in 1..m /\ n + (d - n) = d BY <1>2
      <4>2. r[d - n] = u BY <1>2, <4>1
      <4>3. d - n \in B BY <4>1, <4>2
      <4> QED BY <4>1, <4>3
    <3>4. f \in [B -> D] BY <3>1
    <3> HIDE DEF f
    <3> QED BY <3>2, <3>3, <3>4 DEF Bijection, Injection, Surjection, IsInjective
  <2>2. ExistsBijection(B, D) BY <2>1 DEF ExistsBijection
  <2> QED BY <1>7, <2>2, FS_Bijection
<1>9. Cardinality(C) = Cardinality(A) + Cardinality(D)
  <2>1. Cardinality(A \union D) = Cardinality(A) + Cardinality(D) - Cardinality({})
    BY <1>6, <1>7, FS_Union
  <2>2. Cardinality({}) = 0 BY FS_EmptySet
  <2>3. Cardinality(A) \in Nat /\ Cardinality(D) \in Nat BY <1>7, FS_CardinalityType
  <2> HIDE DEF A, D, C
  <2> QED BY <1>5, <2>1, <2>2, <2>3
<1> QED BY <1>4, <1>8, <1>9 DEF q

\* A loop of a handler over the trades of a ticker.
LEMMA LoopDealing ==
    ASSUME ExecInv, Elsewhere, NEW tk \in Tickers, NEW loop \in {"rearm", "close"},
           NEW o \in ForEach(loop, trades[tk], x),
           trades' = [trades EXCEPT ![tk] = o.list], x' = o.x, closed' = closed \o o.rec,
           badClose' = badClose \union o.bad, UNCHANGED swept
    PROVE  ExecInv' /\ NoRevival
<1> DEFINE s == trades[tk]
           rec == o.rec
           ns == [u \in Uids |-> Times(u, rec)]
           wild2 == swept' \union badClose'
<1>1. /\ ExchangeOK(x) /\ TradesOK(trades, x.orders) /\ trades = [t \in Tickers |-> trades[t]]
      /\ IsList(closed) /\ \A i \in 1..Len(closed) : closed[i] \in Uids
  BY DEF ExecInv, BooksOK
<1>2. ListOK(s, tk, x.orders) BY <1>1 DEF TradesOK
<1>3. AfterOK(o, Len(s), loop, s, x)
  <2> HIDE DEF s
  <2> QED BY <1>1, <1>2, ForEachOK DEF s
<1>4. /\ ExchangeOK(x') /\ Grows(x.orders, x'.orders) /\ IsList(o.list) /\ Len(o.list) = Len(s)
      /\ IsList(rec) /\ \A i \in 1..Len(rec) : rec[i] \in Uids
  BY <1>3 DEF AfterOK
<1>5. /\ trades' = [t \in Tickers |-> trades'[t]] /\ trades'[tk] = o.list
      /\ \A t \in Tickers : t # tk => trades'[t] = trades[t]
  BY <1>1
<1>6. \A u \in Uids : /\ ns[u] = Times(u, rec) /\ ns[u] \in {0, 1}
                      /\ ns[u] = 1 => \E i \in 1..Len(s) : s[i].uid = u
  BY <1>3 DEF AfterOK
<1>7. ns \in [Uids -> {0, 1}] BY <1>6
<1> HIDE DEF ns, wild2
<1>8. Recorded(trades, closed, closed', ns)
  <2> DEFINE c == closed \o rec
  <2>1. Joined(closed, rec, c) BY <1>1, <1>4, ListConcat
  <2>2. /\ IsList(c) /\ Len(c) = Len(closed) + Len(rec)
        /\ \A i \in 1..Len(closed) : c[i] = closed[i]
        /\ \A i \in 1..Len(rec) : c[Len(closed) + i] = rec[i]
    BY <2>1 DEF Joined
  <2>3. Len(closed) \in Nat /\ Len(rec) \in Nat BY <1>1, <1>4 DEF IsList
  <2>4. ASSUME NEW u \in Uids PROVE Times(u, c) = Times(u, closed) + ns[u]
    BY <1>1, <1>4, <1>6, TimesConcat
  <2> HIDE DEF c, rec
  <2>5. ASSUME NEW i \in 1..Len(c) PROVE c[i] \in Uids
    <3>1. CASE i <= Len(closed) BY <1>1, <2>2, <2>3, <3>1
    <3>2. CASE i > Len(closed)
      <4>1. i - Len(closed) \in 1..Len(rec) /\ Len(closed) + (i - Len(closed)) = i
        BY <2>2, <2>3, <3>2
      <4>2. c[i] = rec[i - Len(closed)] BY <2>2, <4>1
      <4> QED BY <1>4, <4>1, <4>2
    <3> QED BY <2>2, <2>3, <3>1, <3>2
  <2>6. closed' = c BY DEF c, rec
  <2> QED BY <1>6, <1>7, <2>2, <2>4, <2>5, <2>6 DEF Recorded
<1>9. ASSUME NEW t \in Tickers
      PROVE  /\ ListChanged(trades[t], trades'[t], ns, wild2)
             /\ \A i \in 1..Len(trades'[t]) : TradeOK(trades'[t][i], x'.orders)
  <2>1. ListOK(trades[t], t, x.orders) BY <1>1 DEF TradesOK
  <2>2. CASE t # tk
    <3>1. trades'[t] = trades[t] BY <1>5, <2>2
    <3>2. ASSUME NEW i \in 1..Len(trades[t])
          PROVE  /\ Changed(trades[t][i], trades[t][i], ns[trades[t][i].uid], wild2)
                 /\ TradeOK(trades[t][i], x'.orders)
      <4>1. TradeOK(trades[t][i], x.orders) BY <2>1 DEF ListOK
      <4>2. trades[t][i].uid \in Uids BY <4>1 DEF TradeOK
      <4>3. \A k \in 1..Len(s) : s[k].uid # trades[t][i].uid BY <1>1, <2>2, OneTrade
      <4>4. ns[trades[t][i].uid] = 0 BY <1>6, <4>2, <4>3
      <4>5. Changed(trades[t][i], trades[t][i], 0, wild2) BY DEF Changed
      <4>6. TradeOK(trades[t][i], x'.orders) BY <1>1, <1>4, <4>1, TradeThrough
      <4> QED BY <4>4, <4>5, <4>6
    <3>3. IsList(trades[t]) BY <2>1 DEF ListOK
    <3> QED BY <3>1, <3>2, <3>3 DEF ListChanged
  <2>3. CASE t = tk
    <3>1. ASSUME NEW i \in 1..Len(s)
          PROVE  /\ Changed(s[i], o.list[i], ns[s[i].uid], wild2)
                 /\ TradeOK(o.list[i], x'.orders)
      <4>1. /\ TradeOK(o.list[i], o.x.orders)
            /\ Changed(s[i], o.list[i], Times(s[i].uid, rec), o.bad)
        BY <1>3 DEF AfterOK
      <4>2. s[i].uid \in Uids BY <1>2 DEF ListOK, TradeOK
      <4>3. o.bad \subseteq wild2 BY DEF wild2
      <4>4. ns[s[i].uid] = Times(s[i].uid, rec) BY <1>6, <4>2
      <4> HIDE DEF rec
      <4> QED BY <4>1, <4>3, <4>4, WilderChange
    <3> QED BY <1>4, <1>5, <2>3, <3>1 DEF ListChanged
  <2> QED BY <2>2, <2>3
<1>10. Dealt(ns) BY <1>4, <1>5, <1>8, <1>9 DEF Dealt, TradesChanged, wild2
<1> QED BY <1>10, Dealing

LEMMA LoopExchange ==
    ASSUME ExecInv, NEW tk \in Tickers, NEW loop \in {"rearm", "close"},
           NEW o \in ForEach(loop, trades[tk], x), x' = o.x
    PROVE  /\ ExchangeOK(x') /\ Grows(x.orders, x'.orders)
           /\ loop = "rearm" => o.rec = <<>> /\ o.bad = {}
<1>1. ExchangeOK(x) /\ ListOK(trades[tk], tk, x.orders) BY DEF ExecInv, TradesOK
<1>2. AfterOK(o, Len(trades[tk]), loop, trades[tk], x) BY <1>1, ForEachOK
<1> QED BY <1>2 DEF AfterOK

LEMMA TickRearmStep ==
    ASSUME ExecInv, NEW tk \in Tickers, TickRearm(tk) PROVE ExecInv' /\ NoRevival
<1>1. PICK o \in ForEach("rearm", trades[tk], x) :
         trades' = [trades EXCEPT ![tk] = o.list] /\ x' = o.x
  BY DEF TickRearm
<1>2. ExchangeOK(x') /\ Grows(x.orders, x'.orders) /\ o.rec = <<>> /\ o.bad = {}
  BY <1>1, LoopExchange
<1>3. closed' = closed \o o.rec
  <2>1. IsList(closed) BY DEF ExecInv, BooksOK
  <2> QED BY <1>2, <2>1, ListConcatEmpty DEF TickRearm
<1>4. badClose' = badClose \union o.bad BY <1>2 DEF TickRearm
<1>5. ResultOK(result', x'.orders) BY <1>2, ResultKept DEF TickRearm
<1>6. Elsewhere BY <1>5, ElsewhereKept DEF TickRearm
<1>7. UNCHANGED swept BY DEF TickRearm
<1> QED BY <1>1, <1>3, <1>4, <1>6, <1>7, LoopDealing

LEMMA CloseTradeStep ==
    ASSUME ExecInv, NEW tk \in Tickers, CloseTrade(tk) PROVE ExecInv' /\ NoRevival
<1>1. PICK o \in ForEach("close", trades[tk], x) :
         /\ trades' = [trades EXCEPT ![tk] = o.list] /\ x' = o.x
         /\ closed' = closed \o o.rec /\ badClose' = badClose \union o.bad
  BY DEF CloseTrade
<1>2. ExchangeOK(x') /\ Grows(x.orders, x'.orders) BY <1>1, LoopExchange
<1>3. ResultOK(result', x'.orders) BY <1>2, ResultKept DEF CloseTrade
<1>4. Elsewhere BY <1>3, ElsewhereKept DEF CloseTrade
<1>5. UNCHANGED swept BY DEF CloseTrade
<1> QED BY <1>1, <1>4, <1>5, LoopDealing

-----------------------------------------------------------------------------
(* The dashboard, the stream and the reconciliation. *)

LEMMA Cancelled ==
    ASSUME NEW orders, NEW t, TradeOK(t, orders), t.st # "Closed", NEW wild, t.uid \in wild
    PROVE  LET v == [t EXCEPT !.st = "Cancelling"] IN Light(t, v, wild) /\ TradeOK(v, orders)
<1>1. PICK c : c = "Cancelling" OBVIOUS
<1> DEFINE v == [t EXCEPT !.st = c]
<1>2. Edited(t, v, c, t.entry, t.stop, t.tp1, t.exec) BY Edit DEF TradeOK
<1> HIDE DEF v
<1>3. c \in States /\ c # "Closed" /\ c # "SubmitUnknown" BY <1>1 DEF States
<1>4. Light(t, v, wild) /\ TradeOK(v, orders) BY <1>2, <1>3 DEF Edited, Light, TradeOK
<1> QED BY <1>1, <1>4 DEF v

LEMMA CancelAllStep ==
    ASSUME ExecInv, NEW tk \in Tickers, CancelAll(tk) PROVE ExecInv' /\ NoRevival
<1> DEFINE live == {i \in DOMAIN x.orders : x.orders[i].live /\ OrderTicker(x.orders[i]) = tk}
           gone == DropAll(x, live)
           s == trades[tk]
           hit == {i \in DOMAIN s : s[i].st # "Closed"}
           list == [i \in DOMAIN s |-> IF i \in hit THEN [s[i] EXCEPT !.st = "Cancelling"]
                                       ELSE s[i]]
<1>1. ExchangeOK(x) /\ ListOK(s, tk, x.orders) BY DEF ExecInv, TradesOK
<1>2. live \subseteq 1..Len(x.orders) BY <1>1, ListIs DEF ExchangeOK
<1> HIDE DEF live
<1>3. ExchangeOK(gone) /\ Grows(x.orders, gone.orders) BY <1>1, <1>2, DropAllOK
<1> HIDE DEF gone
<1>4. UNCHANGED <<inflight, submitted, unknown, result, acts, closed, journal, badClose>>
  BY DEF CancelAll
<1>5. CASE /\ x' = gone /\ trades' = [trades EXCEPT ![tk] = list]
           /\ swept' = swept \union {s[i].uid : i \in hit}
  <2>1. DOMAIN s = 1..Len(s) /\ IsList(s) BY <1>1, ListIs DEF ListOK
  <2>2. IsList(list) /\ Len(list) = Len(s)
    <3>1. list = [i \in DOMAIN s |-> list[i]] OBVIOUS
    <3> HIDE DEF s, list
    <3> QED BY <2>1, <3>1, ListMapped
  <2>3. ExchangeOK(x') /\ Grows(x.orders, x'.orders) BY <1>3, <1>5
  <2>4. ASSUME NEW i \in 1..Len(list)
        PROVE  Light(s[i], list[i], swept' \union badClose') /\ TradeOK(list[i], x'.orders)
    <3> DEFINE t == s[i]
    <3>1. i \in DOMAIN s /\ TradeOK(t, x.orders) BY <1>1, <2>1, <2>2 DEF ListOK
    <3>2. TradeOK(t, x'.orders) BY <1>1, <2>3, <3>1, TradeThrough
    <3>3. CASE i \in hit
      <4>1. list[i] = [t EXCEPT !.st = "Cancelling"] BY <3>1, <3>3
      <4>2. t.st # "Closed" BY <3>3
      <4>3. t.uid \in swept' \union badClose' BY <1>5, <3>3
      <4> HIDE DEF t, list, hit
      <4>4. LET v == [t EXCEPT !.st = "Cancelling"]
            IN  Light(t, v, swept' \union badClose') /\ TradeOK(v, x'.orders)
        BY <3>2, <4>2, <4>3, Cancelled
      <4> QED BY <4>1, <4>4 DEF t
    <3>4. CASE i \notin hit
      <4>1. list[i] = t BY <3>1, <3>4
      <4> HIDE DEF list
      <4> QED BY <3>2, <4>1, SameLight
    <3> QED BY <3>3, <3>4
  <2>5. ResultOK(result', x'.orders) BY <1>4, <2>3, ResultKept
  <2>6. Elsewhere BY <1>4, <2>5, ElsewhereKept
  <2>7. swept \union badClose \subseteq swept' \union badClose' BY <1>4, <1>5
  <2> HIDE DEF list, hit
  <2> QED BY <1>4, <1>5, <2>2, <2>3, <2>4, <2>6, <2>7, LightList
<1>6. CASE x' \in {Faulted(x), Faulted(gone)} /\ UNCHANGED <<trades, reserved, swept>>
  <2>1. ExchangeOK(x') /\ Grows(x.orders, x'.orders)
    <3>1. CASE x' = Faulted(x) BY <1>1, <3>1, FaultedOK, NoCalls
    <3>2. CASE x' = Faulted(gone) BY <1>3, <3>2, FaultedOK
    <3> QED BY <1>6, <3>1, <3>2
  <2> QED BY <1>4, <1>6, <2>1, ExchangeMoves
<1> QED BY <1>5, <1>6 DEF CancelAll, live, gone

\* An update's order becomes the trade's in the role it was matched with.
LEMMA CapturedOK ==
    ASSUME ExchangeOK(x), NEW t, TradeOK(t, x.orders), NEW u, UpdateOK(u, x.orders),
           Role(t, u) # "none"
    PROVE  LET v == Captured(t, Role(t, u), u.id)
           IN  /\ TradeOK(v, x.orders) /\ v.uid = t.uid /\ v.st = t.st
               /\ Role(t, u) = "entry" => v.entry = u.id
<1> DEFINE role == Role(t, u)
           v == Captured(t, role, u.id)
<1>1. u.id \in 1..Len(x.orders) /\ u.id # 0 /\ TradeShape(t) BY DEF UpdateOK, TradeOK
<1>2. /\ role \in {"entry", "stop", "tp1"}
      /\ role = "entry" => t.entry \in {0, u.id}
  BY DEF Role
<1> HIDE DEF role
<1>3. CASE role = "entry"
  <2> DEFINE w == [t EXCEPT !.entry = u.id]
  <2>1. v = w BY <1>3 DEF Captured
  <2>2. Edited(t, w, t.st, u.id, t.stop, t.tp1, t.exec) BY <1>1, Edit
  <2> HIDE DEF v, w
  <2>3. t.entry = u.id \/ t.exec = 0 BY <1>2, <1>3, <1>1 DEF TradeOK
  <2>4. TradeOK(w, x.orders) /\ w.uid = t.uid /\ w.st = t.st /\ w.entry = u.id
    BY <1>1, <2>2, <2>3 DEF Edited, TradeOK
  <2> QED BY <2>1, <2>4 DEF role, v
<1>4. CASE role = "stop"
  <2> DEFINE w == [t EXCEPT !.stop = u.id]
  <2>1. v = w BY <1>4 DEF Captured
  <2>2. TradeOK(w, x.orders) /\ Same(t, w) BY <1>1, TradeStops, Zenon
  <2> HIDE DEF v, w
  <2> QED BY <1>4, <2>1, <2>2 DEF Same, role, v
<1>5. CASE role = "tp1"
  <2> DEFINE w == [t EXCEPT !.tp1 = u.id]
  <2>1. v = w BY <1>5 DEF Captured
  <2>2. TradeOK(w, x.orders) /\ Same(t, w) BY <1>1, TradeStops, Zenon
  <2> HIDE DEF v, w
  <2> QED BY <1>5, <2>1, <2>2 DEF Same, role, v
<1> QED BY <1>2, <1>3, <1>4, <1>5

LEMMA HeadTicker ==
    ASSUME ExchangeOK(x), x.ws # <<>>
    PROVE  OrderTicker(x.orders[Head(x.ws).id]) \in Tickers
<1> DEFINE u == Head(x.ws)
<1>1. UpdateOK(u, x.orders) BY RestOK
<1> HIDE DEF u
<1> DEFINE o == x.orders[u.id]
<1>2. OrderOK(o) BY <1>1 DEF ExchangeOK, UpdateOK
<1> HIDE DEF o
<1>3. Plans[o.by] \in PlanType BY <1>2, PlanIs DEF OrderOK
<1>4. OrderTicker(o) \in Tickers BY <1>3 DEF OrderTicker, PlanType
<1> QED BY <1>4 DEF o, u

LEMMA OnOrderUpdateStep == ASSUME ExecInv, OnOrderUpdate PROVE ExecInv' /\ NoRevival
<1> DEFINE u == Head(x.ws)
           tk == OrderTicker(x.orders[u.id])
           list == trades[tk]
           takes == {i \in DOMAIN list : ~Skipped(list[i]) /\ Role(list[i], u) # "none"}
           rest == [x EXCEPT !.ws = Tail(@)]
<1>1. ExchangeOK(x) /\ TradesOK(trades, x.orders) BY DEF ExecInv
<1>2. ExchangeOK(rest) /\ rest.orders = x.orders /\ UpdateOK(u, x.orders)
  BY <1>1, RestOK, Zenon DEF OnOrderUpdate
<1>3. Grows(x.orders, rest.orders) BY <1>1, <1>2, NoCalls
<1>4. UNCHANGED <<inflight, submitted, unknown, result, acts, journal, swept>>
  BY Zenon DEF OnOrderUpdate
<1>5. CASE takes = {}
  <2>1. x' = rest /\ UNCHANGED <<trades, reserved, closed, badClose>>
    BY <1>5, Zenon DEF OnOrderUpdate
  <2> QED BY <1>2, <1>3, <1>4, <2>1, ExchangeMoves
<1>6. CASE takes # {}
  <2> DEFINE Out(t, role, slipped) == IF u.status = "Open" THEN OnOpenUpdate(t, role, u, rest)
                                      ELSE OnClosedUpdate(t, role, u, slipped, rest)
  <2>1. PICK i \in takes : \E slipped \in Slippages :
           \E o \in Out(Captured(list[i], Role(list[i], u), u.id), Role(list[i], u), slipped) :
              /\ trades' = [trades EXCEPT ![tk][i] = o.t]
              /\ x' = o.x
              /\ closed' = closed \o o.rec
              /\ badClose' = badClose \union
                                (IF o.bad THEN {Captured(list[i], Role(list[i], u), u.id).uid}
                                 ELSE {})
    BY <1>6, Zenon DEF OnOrderUpdate
  <2> DEFINE t0 == list[i]
             role == Role(t0, u)
             t == Captured(t0, role, u.id)
  <2> DEFINE Ends(o) == /\ trades' = [trades EXCEPT ![tk][i] = o.t]
                        /\ x' = o.x
                        /\ closed' = closed \o o.rec
                        /\ badClose' = badClose \union (IF o.bad THEN {t.uid} ELSE {})
  <2>02. PICK slipped \in Slippages : \E o \in Out(t, role, slipped) : Ends(o) BY <2>1, Zenon
  <2>2. PICK o \in Out(t, role, slipped) : Ends(o) BY <2>02, Zenon
  <2>3. /\ i \in DOMAIN list /\ t0.st \notin Done /\ role # "none"
    BY DEF Skipped, Done
  <2>4. tk \in Tickers
    <3>1. x.ws # <<>> BY Zenon DEF OnOrderUpdate
    <3> QED BY <1>1, <3>1, HeadTicker, Zenon
  <2> HIDE DEF takes, tk
  <2>5. ListOK(list, tk, x.orders) BY <1>1, <2>4 DEF TradesOK
  <2>6. i \in 1..Len(list)
    <3> HIDE DEF list
    <3> QED BY <2>3, <2>5, ListIs DEF ListOK
  <2>7. TradeOK(t0, x.orders) BY <2>5, <2>6 DEF ListOK
  <2> HIDE DEF u
  <2>8. /\ TradeOK(t, x.orders) /\ t.uid = t0.uid /\ t.st = t0.st
        /\ role = "entry" => t.entry = u.id
    <3> HIDE DEF t0
    <3> QED BY <1>1, <1>2, <2>3, <2>7, CapturedOK
  <2> HIDE DEF t, role, t0, rest
  <2>9. HandlerOK(o, t, rest)
    <3>1. t.st # "Closed" BY <2>3, <2>8 DEF Done
    <3>2. CASE u.status = "Open"
      <4>1. o \in OnOpenUpdate(t, role, u, rest) BY <3>2
      <4> QED BY <1>2, <2>8, <3>1, <3>2, <4>1, OnOpenUpdateOK
    <3>3. CASE u.status # "Open"
      <4>1. o \in OnClosedUpdate(t, role, u, slipped, rest) BY <3>3
      <4>2. u.status = "Closed" BY <1>2, <3>3 DEF UpdateOK
      <4> QED BY <1>2, <2>8, <3>1, <4>1, <4>2, OnClosedUpdateOK
    <3> QED BY <3>2, <3>3
  <2> DEFINE v == o.t
  <2>10. /\ ExchangeOK(x') /\ Grows(x.orders, x'.orders)
         /\ TradeOK(v, x'.orders) /\ v.uid = t0.uid
    BY <1>2, <2>2, <2>8, <2>9 DEF HandlerOK
  <2>11. trades' = [trades EXCEPT ![tk] = [@ EXCEPT ![i] = v]] BY <2>2
  <2>12. IsList(closed) BY DEF ExecInv, BooksOK
  <2>13. swept \union badClose \subseteq swept' \union badClose' BY <1>4, <2>2
  <2>14. \/ closed' = closed /\ (v.st = "Closed" => v.exec = 0)
         \/ /\ closed' = Append(closed, v.uid)
            /\ v.uid \in swept' \union badClose' \/ v.st = "Closed"
    <3>1. CASE o.rec = <<>> /\ (o.t.st = "Closed" => o.t.exec = 0)
      <4>1. closed' = closed BY <2>2, <2>12, <3>1, ListConcatEmpty
      <4> QED BY <3>1, <4>1
    <3>2. CASE o.rec = <<t.uid>> /\ (o.bad \/ o.t.st = "Closed")
      <4>1. closed' = Append(closed, t.uid) BY <2>2, <2>12, <3>2, ListConcatOne
      <4>2. v.uid = t.uid BY <2>8, <2>10
      <4>3. o.bad => t.uid \in badClose' BY <2>2
      <4> QED BY <3>2, <4>1, <4>2, <4>3
    <3> QED BY <2>9, <3>1, <3>2 DEF HandlerOK
  <2>15. ResultOK(result', x'.orders) BY <1>4, <2>10, ResultKept
  <2>16. Elsewhere BY <1>4, <2>15, ElsewhereKept
  <2> HIDE DEF v
  <2>17. t0 = trades[tk][i] /\ i \in 1..Len(trades[tk]) BY <2>6 DEF t0
  <2>18. trades[tk][i].st \notin Done /\ v.uid = trades[tk][i].uid BY <2>3, <2>10, <2>17
  <2> HIDE DEF list
  <2> QED BY <2>4, <2>10, <2>11, <2>13, <2>14, <2>16, <2>17, <2>18, OneDealing, Zenon
<1> QED BY <1>5, <1>6

LEMMA HandleReconciledStep == ASSUME ExecInv, HandleReconciled PROVE ExecInv' /\ NoRevival
<1>1. ExchangeOK(x) /\ TradesOK(trades, x.orders) /\ ResultOK(result, x.orders)
  BY DEF ExecInv
<1>2. /\ UNCHANGED <<inflight, submitted, unknown, acts, journal, x, swept, badClose>>
      /\ result # None /\ result' = None
  BY Zenon DEF HandleReconciled
<1>3. ExchangeOK(x') /\ Grows(x.orders, x'.orders) BY <1>2, ExchangeStays
<1>4. ResultOK(result', x'.orders) BY <1>2 DEF ResultOK
<1>5. Elsewhere BY <1>2, <1>4, ElsewhereKept
<1>6. CASE Reconcilable = {}
  <2>1. UNCHANGED <<trades, reserved, closed>> BY <1>6 DEF HandleReconciled
  <2> QED BY <1>2, <1>3, <1>5, <2>1, IdleDealing
<1>7. CASE Reconcilable # {}
  <2> DEFINE Resolves(p) ==
               /\ result.outcome = "Resolved"
               /\ trades' = [trades EXCEPT ![p[1]][p[2]] =
                                [At(p) EXCEPT !.entry = result.id, !.st = "PendingEntry"]]
               /\ UNCHANGED closed
             Fails(p) ==
               /\ trades' = [trades EXCEPT ![p[1]][p[2]] = [At(p) EXCEPT !.st = "Closed"]]
               /\ closed' = Append(closed, At(p).uid)
  <2>1. PICK p \in Reconcilable : Resolves(p) \/ Fails(p)
    BY <1>7, Zenon DEF HandleReconciled
  <2>2. p \in Places /\ p[2] \in DOMAIN trades[p[1]] /\ At(p).st = "SubmitUnknown"
    BY DEF Reconcilable
  <2> DEFINE tk == p[1]
             k == p[2]
             t == trades[tk][k]
  <2>3. tk \in Tickers BY <2>2 DEF Places
  <2>4. At(p) = t BY DEF At
  <2> HIDE DEF tk
  <2>5. ListOK(trades[tk], tk, x.orders) BY <1>1, <2>3 DEF TradesOK
  <2>6. k \in 1..Len(trades[tk]) BY <2>2, <2>5, ListIs DEF ListOK, tk
  <2> HIDE DEF k
  <2>7. TradeOK(t, x.orders) /\ t.st = "SubmitUnknown" BY <2>2, <2>4, <2>5, <2>6 DEF ListOK
  <2>8. t.exec = 0 /\ t.st \notin Done /\ TradeShape(t) BY <2>7 DEF TradeOK, Done
  <2>9. swept \union badClose \subseteq swept' \union badClose' BY <1>2
  <2>10. CASE Resolves(p)
    <3>1. result.id \in 1..Len(x.orders) BY <1>1, <1>2, <2>10 DEF ResultOK
    <3>2. PICK c : c = "PendingEntry" OBVIOUS
    <3> DEFINE v == [t EXCEPT !.entry = result.id, !.st = c]
    <3>3. trades' = [trades EXCEPT ![tk] = [@ EXCEPT ![k] = v]]
      BY <2>4, <2>10, <3>2 DEF tk, k
    <3> HIDE DEF t
    <3>4. Edited(t, v, c, result.id, t.stop, t.tp1, t.exec) BY <2>8, Edits, Zenon
    <3> HIDE DEF v
    <3>5. c \in States /\ c # "Closed" /\ c # "SubmitUnknown" BY <3>2 DEF States
    <3>6. TradeOK(v, x.orders) /\ v.uid = t.uid /\ v.st # "Closed"
      BY <2>7, <2>8, <3>1, <3>4, <3>5 DEF Edited, TradeOK
    <3>7. TradeOK(v, x'.orders) BY <1>2, <3>6
    <3>8. closed' = closed BY <2>10
    <3> QED BY <1>3, <1>5, <2>3, <2>6, <2>8, <2>9, <3>3, <3>6, <3>7, <3>8, OneDealing DEF t
  <2>11. CASE Fails(p)
    <3>1. PICK c : c = "Closed" OBVIOUS
    <3> DEFINE v == [t EXCEPT !.st = c]
    <3>2. trades' = [trades EXCEPT ![tk] = [@ EXCEPT ![k] = v]] /\ closed' = Append(closed, t.uid)
      BY <2>4, <2>11, <3>1 DEF tk, k
    <3> HIDE DEF t
    <3>3. Edited(t, v, c, t.entry, t.stop, t.tp1, t.exec) BY <2>8, Edit
    <3> HIDE DEF v
    <3>4. c \in States /\ c # "SubmitUnknown" BY <3>1 DEF States
    <3>5. TradeOK(v, x.orders) /\ v.uid = t.uid /\ v.st = "Closed"
      BY <2>7, <3>1, <3>3, <3>4 DEF Edited, TradeOK
    <3>6. TradeOK(v, x'.orders) /\ closed' = Append(closed, v.uid) BY <1>2, <3>2, <3>5
    <3> QED BY <1>3, <1>5, <2>3, <2>6, <2>8, <2>9, <3>2, <3>5, <3>6, OneDealing DEF t
  <2> QED BY <2>1, <2>10, <2>11
<1> QED BY <1>6, <1>7

-----------------------------------------------------------------------------
(* The submits. *)

LEMMA NewTradeOK ==
    ASSUME NEW orders, NEW u \in Uids, NEW st \in {"PendingEntry", "SubmitUnknown"}
    PROVE  LET t == NewTrade(u, st)
           IN  TradeOK(t, orders) /\ t.uid = u /\ t.st \notin Done /\ t.exec = 0
<1> DEFINE t == NewTrade(u, st)
<1>1. t = [uid |-> u, st |-> st, entry |-> 0, stop |-> 0, tp1 |-> 0, exec |-> 0,
           fix |-> FALSE, tp1_filled |-> FALSE, old |-> FALSE]
  BY DEF NewTrade
<1> HIDE DEF t
<1>2. TradeShape(t) BY <1>1 DEF TradeShape
<1>3. /\ t.uid = u /\ t.st = st /\ t.entry = 0 /\ t.stop = 0 /\ t.tp1 = 0 /\ t.exec = 0
  BY <1>1
<1>4. TradeOK(t, orders) BY <1>2, <1>3 DEF TradeOK, States
<1> QED BY <1>3, <1>4 DEF t, Done

LEMMA Pushed ==
    ASSUME ExecInv, NEW u \in DOMAIN inflight, Landed(u),
           NEW st \in {"PendingEntry", "SubmitUnknown"}, Push(u, st),
           UNCHANGED <<submitted, result, acts, closed, journal, swept, badClose>>,
           ExchangeOK(x'), Grows(x.orders, x'.orders)
    PROVE  ExecInv' /\ NoRevival
<1> DEFINE a == Plans[u].ticker
           n == NewTrade(u, st)
           wild == swept \union badClose
           pushed == submitted \ DOMAIN inflight
           pushed2 == submitted' \ DOMAIN inflight'
<1>1. /\ ExchangeOK(x) /\ TradesOK(trades, x.orders) /\ trades = [t \in Tickers |-> trades[t]]
      /\ LandedOK(trades, submitted, inflight) /\ ActsOK(acts, x.orders)
      /\ BooksOK(trades, pushed, journal, closed, acts, wild)
  BY DEF ExecInv
<1>2. u \in submitted /\ u \in Uids /\ u \notin pushed /\ submitted \subseteq Uids
      /\ DOMAIN inflight \subseteq submitted
  BY <1>1 DEF LandedOK
<1>3. DOMAIN inflight' = DOMAIN inflight \ {u} /\ submitted' = submitted BY DEF Landed
<1>4. pushed2 = pushed \union {u} /\ DOMAIN inflight' \subseteq submitted'
  BY <1>2, <1>3
<1> HIDE DEF pushed, pushed2
<1>5. a \in Tickers BY <1>2, PlanIs DEF PlanType
<1>6. /\ trades' = [t \in Tickers |-> trades'[t]] /\ trades'[a] = Append(trades[a], n)
      /\ \A t \in Tickers : t # a => trades'[t] = trades[t]
  BY <1>1, <1>5 DEF Push
<1>7. \A ords : TradeOK(n, ords) BY <1>2, NewTradeOK
<1>8. n.uid = u /\ n.st \notin Done BY <1>2, NewTradeOK
<1> HIDE DEF n, a
<1>9. ASSUME NEW t \in Tickers
      PROVE  /\ IsList(trades'[t])
             /\ \A i \in 1..Len(trades'[t]) :
                   \/ i \in 1..Len(trades[t]) /\ trades'[t][i] = trades[t][i]
                   \/ i = Len(trades[t]) + 1 /\ trades'[t][i] = n /\ t = a
  <2>1. IsList(trades[t]) BY <1>1 DEF TradesOK, ListOK
  <2>2. CASE t # a
    <3>1. trades'[t] = trades[t] BY <1>6, <2>2
    <3> QED BY <2>1, <3>1
  <2>3. CASE t = a
    <3> DEFINE s == trades[a]
               r == trades'[a]
    <3>1. r = Append(s, n) /\ IsList(s) /\ Len(s) \in Nat BY <1>6, <2>1, <2>3 DEF IsList
    <3> HIDE DEF s, r
    <3>2. /\ IsList(r) /\ Len(r) = Len(s) + 1 /\ r[Len(s) + 1] = n
          /\ \A i \in 1..Len(s) : r[i] = s[i]
      BY <3>1, ListAppend
    <3>3. \A i \in 1..Len(r) : i \in 1..Len(s) \/ i = Len(s) + 1 BY <3>1, <3>2
    <3> QED BY <2>3, <3>2, <3>3 DEF s, r
  <2> QED BY <2>2, <2>3
<1>10. ASSUME NEW t \in Tickers, NEW i \in 1..Len(trades[t])
       PROVE  /\ TradeOK(trades[t][i], x'.orders) /\ Plans[trades[t][i].uid].ticker = t
              /\ trades[t][i].uid \in pushed
  <2>1. /\ TradeOK(trades[t][i], x.orders) /\ Plans[trades[t][i].uid].ticker = t
    BY <1>1 DEF TradesOK, ListOK
  <2>2. trades[t][i].uid \in pushed BY <1>1 DEF LandedOK, pushed
  <2> QED BY <1>1, <2>1, <2>2, TradeThrough
<1>11. ASSUME NEW t \in Tickers PROVE ListOK(trades'[t], t, x'.orders)
  <2>1. ASSUME NEW i \in 1..Len(trades'[t])
        PROVE  TradeOK(trades'[t][i], x'.orders) /\ Plans[trades'[t][i].uid].ticker = t
    <3>1. CASE i \in 1..Len(trades[t]) /\ trades'[t][i] = trades[t][i] BY <1>10, <3>1
    <3>2. CASE trades'[t][i] = n /\ t = a BY <1>7, <1>8, <3>2 DEF a
    <3> QED BY <1>9, <3>1, <3>2
  <2>2. ASSUME NEW i \in 1..Len(trades'[t]), NEW j \in 1..Len(trades'[t]),
               trades'[t][i].uid = trades'[t][j].uid
        PROVE  i = j
    <3>1. CASE /\ i \in 1..Len(trades[t]) /\ trades'[t][i] = trades[t][i]
               /\ j \in 1..Len(trades[t]) /\ trades'[t][j] = trades[t][j]
      <4>1. trades[t][i].uid = trades[t][j].uid BY <2>2, <3>1
      <4> QED BY <1>1, <3>1, <4>1, OneTrade
    <3>2. CASE /\ i \in 1..Len(trades[t]) /\ trades'[t][i] = trades[t][i]
               /\ j = Len(trades[t]) + 1 /\ trades'[t][j] = n
      BY <1>2, <1>8, <1>10, <2>2, <3>2
    <3>3. CASE /\ j \in 1..Len(trades[t]) /\ trades'[t][j] = trades[t][j]
               /\ i = Len(trades[t]) + 1 /\ trades'[t][i] = n
      BY <1>2, <1>8, <1>10, <2>2, <3>3
    <3>4. CASE i = Len(trades[t]) + 1 /\ j = Len(trades[t]) + 1 BY <3>4
    <3> QED BY <1>9, <3>1, <3>2, <3>3, <3>4
  <2> QED BY <1>9, <2>1, <2>2 DEF ListOK
<1>12. TradesOK(trades', x'.orders) BY <1>11 DEF TradesOK
<1>13. LandedOK(trades', submitted', inflight')
  <2>1. ASSUME NEW t \in Tickers, NEW i \in 1..Len(trades'[t])
        PROVE  trades'[t][i].uid \in pushed2
    BY <1>4, <1>8, <1>9, <1>10
  <2> QED BY <1>2, <1>3, <1>4, <2>1 DEF LandedOK, pushed2
<1>14. BooksOK(trades', pushed2, journal, closed, acts, wild)
  <2>1. ASSUME NEW v \in Uids \ wild
        PROVE  /\ Due(v, journal, closed, acts) <= 1
               /\ v \notin pushed2 => Due(v, journal, closed, acts) = 0
               /\ \A t \in Tickers : \A i \in 1..Len(trades'[t]) :
                     trades'[t][i].uid = v /\ trades'[t][i].st \notin Done =>
                         Due(v, journal, closed, acts) = 0
    <3>1. /\ Due(v, journal, closed, acts) <= 1
          /\ v \notin pushed => Due(v, journal, closed, acts) = 0
          /\ \A t \in Tickers : \A i \in 1..Len(trades[t]) :
                trades[t][i].uid = v /\ trades[t][i].st \notin Done =>
                    Due(v, journal, closed, acts) = 0
      BY <1>1 DEF BooksOK
    <3>2. ASSUME NEW t \in Tickers, NEW i \in 1..Len(trades'[t]),
                 trades'[t][i].uid = v, trades'[t][i].st \notin Done
          PROVE  Due(v, journal, closed, acts) = 0
      <4>1. CASE i \in 1..Len(trades[t]) /\ trades'[t][i] = trades[t][i]
        BY <3>1, <3>2, <4>1
      <4>2. CASE trades'[t][i] = n BY <1>2, <1>8, <3>1, <3>2, <4>2
      <4> QED BY <1>9, <4>1, <4>2
    <3> QED BY <1>4, <3>1, <3>2
  <2>2. ASSUME NEW t \in Tickers, NEW i \in 1..Len(trades'[t]),
               trades'[t][i].st = "Closed", trades'[t][i].exec # 0
        PROVE  journal[trades'[t][i].uid] + Times(trades'[t][i].uid, closed) >= 1
    <3>1. trades'[t][i] # n BY <1>8, <2>2 DEF Done
    <3>2. i \in 1..Len(trades[t]) /\ trades'[t][i] = trades[t][i] BY <1>9, <3>1
    <3> QED BY <1>1, <2>2, <3>2 DEF BooksOK
  <2>3. IsList(closed) /\ (\A i \in 1..Len(closed) : closed[i] \in Uids)
        /\ journal \in [Uids -> Nat]
    BY <1>1 DEF BooksOK
  <2> QED BY <2>1, <2>2, <2>3 DEF BooksOK
<1>15. ActsOK(acts, x'.orders)
  <2>1. IsList(x.orders) /\ IsList(x'.orders) BY <1>1 DEF ExchangeOK
  <2> QED BY <1>1, <2>1, ActsGrow
<1>16. ResultOK(result', x'.orders) BY ResultKept
<1>17. ExecInv' BY <1>6, <1>12, <1>13, <1>14, <1>15, <1>16 DEF ExecInv, pushed2
<1>18. NoRevival
  <2> SUFFICES ASSUME NEW t \in Tickers, NEW i \in 1..Len(trades'[t]),
                      trades'[t][i].uid \in submitted \ DOMAIN inflight
               PROVE  \E k \in 1..Len(trades[t]) : trades[t][k] = trades'[t][i]
    BY DEF NoRevival
  <2>1. trades'[t][i] # n BY <1>8
  <2> QED BY <1>9, <2>1
<1> QED BY <1>17, <1>18

LEMMA SubmitReturnsStep ==
    ASSUME ExecInv, NEW u \in Uids, SubmitReturns(u) PROVE ExecInv' /\ NoRevival
<1>1. ExchangeOK(x') /\ Grows(x.orders, x'.orders) BY ExchangeStays DEF SubmitReturns
<1>2. "PendingEntry" \in {"PendingEntry", "SubmitUnknown"} OBVIOUS
<1> QED BY <1>1, <1>2, Pushed DEF SubmitReturns

LEMMA SubmitThrowsStep ==
    ASSUME ExecInv, NEW u \in Uids, SubmitThrows(u) PROVE ExecInv' /\ NoRevival
<1>1. ExchangeOK(x') /\ Grows(x.orders, x'.orders)
  <2>1. ExchangeOK(x) BY DEF ExecInv
  <2>2. x' = Faulted(x) BY DEF SubmitThrows
  <2> QED BY <2>1, <2>2, FaultedOK, NoCalls
<1>2. "SubmitUnknown" \in {"PendingEntry", "SubmitUnknown"} OBVIOUS
<1> QED BY <1>1, <1>2, Pushed DEF SubmitThrows

-----------------------------------------------------------------------------
(* The tick and the journal. *)

LEMMA PlacesIs ==
    /\ IsFiniteSet(Places)
    /\ \A p \in Places : p[1] \in Tickers /\ p[2] \in Nat /\ p = <<p[1], p[2]>>
<1>1. NumTickers \in Nat /\ Len(Plans) \in Nat BY InstanceAssumption
<1>2. IsFiniteSet(1..NumTickers) /\ IsFiniteSet(1..Len(Plans)) BY <1>1, FS_Interval
<1>3. IsFiniteSet((1..NumTickers) \X (1..Len(Plans))) BY <1>2, FS_Product
<1>4. Places = (1..NumTickers) \X (1..Len(Plans)) BY DEF Places, Tickers
<1>5. \A p \in Places : p[1] \in Tickers /\ p[2] \in Nat /\ p = <<p[1], p[2]>>
  BY <1>1 DEF Places
<1> QED BY <1>3, <1>4, <1>5

LEMMA Closing ==
    ASSUME NEW orders, NEW t, TradeOK(t, orders), NEW c, c = "EmergencyClosing"
    PROVE  LET v == [t EXCEPT !.st = c]
           IN  TradeOK(v, orders) /\ v.uid = t.uid /\ v.st \in Done /\ v.st # "Closed"
<1> DEFINE v == [t EXCEPT !.st = c]
<1>1. Edited(t, v, c, t.entry, t.stop, t.tp1, t.exec) BY Edit DEF TradeOK
<1> HIDE DEF v
<1>2. c \in States /\ c # "SubmitUnknown" /\ c # "Closed" /\ c \in Done BY DEF States, Done
<1>3. TradeOK(v, orders) /\ v.uid = t.uid /\ v.st \in Done /\ v.st # "Closed"
  BY <1>2, <1>1 DEF Edited, TradeOK
<1> QED BY <1>3 DEF v

LEMMA TickDecideStep ==
    ASSUME ExecInv, NEW hit \in SUBSET Places, NEW timeout \in BOOLEAN, TickDecide(hit, timeout)
    PROVE  ExecInv' /\ NoRevival
<1> DEFINE N == Cardinality(hit)
           wild == swept \union badClose
           pushed == submitted \ DOMAIN inflight
<1>1. /\ ExchangeOK(x) /\ TradesOK(trades, x.orders) /\ trades = [tk \in Tickers |-> trades[tk]]
      /\ LandedOK(trades, submitted, inflight) /\ ResultOK(result, x.orders)
      /\ BooksOK(trades, pushed, journal, closed, acts, wild)
  BY DEF ExecInv
<1>2. /\ UNCHANGED <<inflight, submitted, unknown, result, closed, journal, x, swept, badClose>>
      /\ acts = <<>>
      /\ \A p \in hit : p[2] \in DOMAIN trades[p[1]] /\ At(p).st = "Open" /\ At(p).exec > 0
  BY DEF TickDecide, TickIdle
<1>3. PICK order \in [1..N -> hit] :
         /\ \A j, k \in DOMAIN order : j < k => Before(order[j], order[k])
         /\ acts' = [k \in DOMAIN order |-> CloseAction(At(order[k]))]
  BY DEF TickDecide
<1>4. IsFiniteSet(hit) BY PlacesIs, FS_Subset
<1>5. N \in Nat /\ DOMAIN order = 1..N BY <1>4, FS_CardinalityType
<1> HIDE DEF N
<1>6. ASSUME NEW p \in hit
      PROVE  /\ p[1] \in Tickers /\ p[2] \in 1..Len(trades[p[1]]) /\ At(p) = trades[p[1]][p[2]]
             /\ p = <<p[1], p[2]>> /\ TradeOK(At(p), x.orders) /\ At(p).st = "Open"
             /\ At(p).uid \in pushed /\ At(p).uid \in Uids
  <2>1. p \in Places /\ p[1] \in Tickers /\ p = <<p[1], p[2]>> BY PlacesIs
  <2>2. ListOK(trades[p[1]], p[1], x.orders) BY <1>1, <2>1 DEF TradesOK
  <2>3. p[2] \in 1..Len(trades[p[1]]) BY <1>2, <2>2, ListIs DEF ListOK
  <2>4. TradeOK(At(p), x.orders) BY <2>2, <2>3 DEF ListOK, At
  <2>5. At(p).uid \in pushed BY <1>1, <2>1, <2>3 DEF LandedOK, At
  <2> QED BY <1>2, <2>1, <2>3, <2>4, <2>5 DEF At, TradeOK
<1>7. ASSUME NEW p \in hit, NEW q \in hit, At(p).uid = At(q).uid PROVE p = q
  <2> DEFINE a == p[1]
             i == p[2]
             b == q[1]
             k == q[2]
  <2>2. /\ a \in Tickers /\ i \in 1..Len(trades[a]) /\ b \in Tickers /\ k \in 1..Len(trades[b])
        /\ trades[a][i].uid = trades[b][k].uid
    BY <1>6, <1>7
  <2> HIDE DEF a, i, b, k
  <2>3. a = b /\ i = k BY <1>1, <2>2, OneTrade
  <2>1. p[1] = q[1] /\ p[2] = q[2] BY <2>3 DEF a, i, b, k
  <2> QED BY <1>6, <2>1
<1>8. ASSUME NEW p \in hit PROVE ~Before(p, p)
  <2>1. p[1] \in Nat /\ p[2] \in Nat BY <1>6, PlacesIs, InstanceAssumption DEF Tickers
  <2> QED BY <2>1 DEF Before
<1>9. /\ IsList(acts') /\ Len(acts') = N
      /\ \A k \in 1..N : order[k] \in hit /\ acts'[k] = CloseAction(At(order[k]))
  <2>1. acts' = [k \in 1..N |-> CloseAction(At(order[k]))] BY <1>3, <1>5
  <2>2. DOMAIN acts' = 1..N /\ acts' = [k \in 1..N |-> acts'[k]] BY <2>1
  <2>3. IsList(acts') /\ Len(acts') = N BY <1>5, <2>2, ListOf
  <2> QED BY <1>3, <2>1, <2>3
<1>10. ASSUME NEW k \in 1..N
       PROVE  LET t == At(order[k])
              IN  /\ acts'[k].uid = t.uid /\ acts'[k].stop = t.stop /\ acts'[k].tp1 = t.tp1
  BY <1>9 DEF CloseAction
<1>11. ActsOK(acts', x'.orders)
  <2>1. ASSUME NEW k \in 1..N
        PROVE  /\ ActShape(acts'[k])
               /\ acts'[k].uid \in Uids
               /\ acts'[k].stop # 0 => acts'[k].stop \in 1..Len(x.orders)
               /\ acts'[k].tp1 # 0 => acts'[k].tp1 \in 1..Len(x.orders)
    <3>1. TradeOK(At(order[k]), x.orders) BY <1>6, <1>9
    <3>2. ActShape(acts'[k]) BY <1>9 DEF CloseAction, ActShape
    <3> QED BY <1>10, <3>1, <3>2 DEF TradeOK
  <2>2. ASSUME NEW k \in 1..N, NEW m \in 1..N, acts'[k].uid = acts'[m].uid PROVE k = m
    <3>1. order[k] = order[m] /\ order[k] \in hit BY <1>7, <1>9, <1>10, <2>2
    <3>2. ~Before(order[k], order[m]) /\ ~Before(order[m], order[k]) BY <1>8, <3>1
    <3>3. ~(k < m) /\ ~(m < k) BY <1>3, <1>5, <3>2
    <3> QED BY <1>5, <3>3
  <2> QED BY <1>2, <1>9, <2>1, <2>2 DEF ActsOK
<1>12. PICK c : c = "EmergencyClosing" OBVIOUS
<1>13. /\ trades' = [tk \in Tickers |-> trades'[tk]]
       /\ \A tk \in Tickers : trades'[tk] = [i \in DOMAIN trades[tk] |->
             IF <<tk, i>> \in hit THEN [trades[tk][i] EXCEPT !.st = c] ELSE trades[tk][i]]
  <2>1. trades' = [tk \in Tickers |-> [i \in DOMAIN trades[tk] |->
           IF <<tk, i>> \in hit THEN [trades[tk][i] EXCEPT !.st = c] ELSE trades[tk][i]]]
    BY <1>12 DEF TickDecide
  <2> QED BY <2>1
<1>14. ASSUME NEW tk \in Tickers
       PROVE  /\ IsList(trades'[tk]) /\ Len(trades'[tk]) = Len(trades[tk])
              /\ \A i \in 1..Len(trades[tk]) :
                    /\ TradeOK(trades'[tk][i], x.orders) /\ trades'[tk][i].uid = trades[tk][i].uid
                    /\ \/ /\ <<tk, i>> \in hit
                          /\ trades'[tk][i].st \in Done /\ trades'[tk][i].st # "Closed"
                       \/ <<tk, i>> \notin hit /\ trades'[tk][i] = trades[tk][i]
  <2>1. ListOK(trades[tk], tk, x.orders) BY <1>1 DEF TradesOK
  <2> DEFINE s == trades[tk]
             r == trades'[tk]
  <2>2. r = [i \in DOMAIN s |-> IF <<tk, i>> \in hit THEN [s[i] EXCEPT !.st = c] ELSE s[i]]
    BY <1>13
  <2>3. IsList(s) /\ DOMAIN s = 1..Len(s) BY <2>1, ListIs DEF ListOK
  <2> HIDE DEF s, r
  <2>4. r = [i \in DOMAIN s |-> r[i]] BY <2>2
  <2>5. IsList(r) /\ Len(r) = Len(s) BY <2>3, <2>4, ListMapped
  <2>6. ASSUME NEW i \in 1..Len(s)
        PROVE  /\ TradeOK(r[i], x.orders) /\ r[i].uid = s[i].uid
               /\ \/ <<tk, i>> \in hit /\ r[i].st \in Done /\ r[i].st # "Closed"
                  \/ <<tk, i>> \notin hit /\ r[i] = s[i]
    <3>1. TradeOK(s[i], x.orders) BY <2>1 DEF ListOK, s
    <3>2. CASE <<tk, i>> \in hit
      <4>1. r[i] = [s[i] EXCEPT !.st = c] BY <2>2, <2>3, <3>2
      <4> QED BY <1>12, <3>1, <3>2, <4>1, Closing
    <3>3. CASE <<tk, i>> \notin hit
      <4>1. r[i] = s[i] BY <2>2, <2>3, <3>3
      <4> QED BY <3>1, <3>3, <4>1
    <3> QED BY <3>2, <3>3
  <2> QED BY <2>5, <2>6 DEF r, s
<1>15. TradesOK(trades', x'.orders)
  <2> SUFFICES ASSUME NEW tk \in Tickers PROVE ListOK(trades'[tk], tk, x.orders)
    BY <1>2 DEF TradesOK
  <2>1. ListOK(trades[tk], tk, x.orders) BY <1>1 DEF TradesOK
  <2> QED BY <1>14, <2>1 DEF ListOK
<1>16. LandedOK(trades', submitted', inflight')
  <2>1. ASSUME NEW tk \in Tickers, NEW i \in 1..Len(trades'[tk])
        PROVE  trades'[tk][i].uid \in submitted \ DOMAIN inflight
    <3>1. i \in 1..Len(trades[tk]) /\ trades'[tk][i].uid = trades[tk][i].uid BY <1>14
    <3> QED BY <1>1, <3>1 DEF LandedOK
  <2> QED BY <1>1, <1>2, <2>1 DEF LandedOK
<1>17. BooksOK(trades', pushed, journal, closed, acts', wild)
  <2>1. ASSUME NEW u \in Uids \ wild
        PROVE  /\ Due(u, journal, closed, acts') <= 1
               /\ u \notin pushed => Due(u, journal, closed, acts') = 0
               /\ \A tk \in Tickers : \A i \in 1..Len(trades'[tk]) :
                     trades'[tk][i].uid = u /\ trades'[tk][i].st \notin Done =>
                         Due(u, journal, closed, acts') = 0
    <3> DEFINE d == journal[u] + Times(u, closed)
    <3>1. journal \in [Uids -> Nat] /\ IsList(closed) BY <1>1 DEF BooksOK
    <3>2. d \in Nat
      <4>1. journal[u] \in Nat /\ Times(u, closed) \in Nat BY <3>1, TimesIs
      <4> DEFINE q == Times(u, closed)
      <4> HIDE DEF q
      <4> QED BY <4>1 DEF q
    <3>3. ActTimes(u, acts) = 0 BY <1>2, ListEmpty DEF ActTimes
    <3>4. /\ Due(u, journal, closed, acts) = d
          /\ Due(u, journal, closed, acts') = d + ActTimes(u, acts')
      <4>1. /\ Due(u, journal, closed, acts) = d + ActTimes(u, acts)
            /\ Due(u, journal, closed, acts') = d + ActTimes(u, acts')
        BY DEF Due
      <4> HIDE DEF d
      <4> QED BY <3>2, <3>3, <4>1
    <3> HIDE DEF d
    <3>5. /\ d <= 1
          /\ u \notin pushed => d = 0
          /\ \A tk \in Tickers : \A i \in 1..Len(trades[tk]) :
                trades[tk][i].uid = u /\ trades[tk][i].st \notin Done => d = 0
      BY <1>1, <3>4 DEF BooksOK
    <3>6. CASE \E k \in 1..Len(acts') : acts'[k].uid = u
      <4>1. PICK k \in 1..N : acts'[k].uid = u BY <1>9, <3>6
      <4> DEFINE p == order[k]
      <4>2. p \in hit /\ At(p).uid = u BY <1>9, <1>10, <4>1
      <4>3. u \in pushed BY <1>6, <4>2
      <4>4. d = 0
        <5>1. At(p).st \notin Done BY <1>6, <4>2 DEF Done
        <5> QED BY <1>6, <3>5, <4>2, <5>1
      <4>5. ActTimes(u, acts') = 1 BY <3>6 DEF ActTimes
      <4>6. Due(u, journal, closed, acts') = 1 BY <3>4, <4>4, <4>5
      <4>7. ASSUME NEW tk \in Tickers, NEW i \in 1..Len(trades'[tk]), trades'[tk][i].uid = u
            PROVE  trades'[tk][i].st \in Done
        <5>1. i \in 1..Len(trades[tk]) /\ trades[tk][i].uid = At(p).uid BY <1>14, <4>2, <4>7
        <5>2. tk = p[1] /\ i = p[2]
          <6>1. p[1] \in Tickers /\ p[2] \in 1..Len(trades[p[1]]) /\ At(p) = trades[p[1]][p[2]]
            BY <1>6, <4>2
          <6> HIDE DEF p
          <6> QED BY <1>1, <5>1, <6>1, OneTrade
        <5>3. <<tk, i>> \in hit BY <1>6, <4>2, <5>2
        <5> QED BY <1>14, <5>1, <5>3
      <4> QED BY <4>3, <4>6, <4>7
    <3>7. CASE ~\E k \in 1..Len(acts') : acts'[k].uid = u
      <4>1. ActTimes(u, acts') = 0 BY <3>7 DEF ActTimes
      <4>2. Due(u, journal, closed, acts') = d BY <3>2, <3>4, <4>1
      <4>3. ASSUME NEW tk \in Tickers, NEW i \in 1..Len(trades'[tk]),
                   trades'[tk][i].uid = u, trades'[tk][i].st \notin Done
            PROVE  d = 0
        <5>1. i \in 1..Len(trades[tk]) /\ trades[tk][i] = trades'[tk][i] BY <1>14, <4>3
        <5> QED BY <3>5, <4>3, <5>1
      <4> QED BY <3>5, <4>2, <4>3
    <3> QED BY <3>6, <3>7
  <2>2. ASSUME NEW tk \in Tickers, NEW i \in 1..Len(trades'[tk]),
               trades'[tk][i].st = "Closed", trades'[tk][i].exec # 0
        PROVE  journal[trades'[tk][i].uid] + Times(trades'[tk][i].uid, closed) >= 1
    <3>1. i \in 1..Len(trades[tk]) /\ trades'[tk][i] = trades[tk][i] BY <1>14, <2>2
    <3> QED BY <1>1, <2>2, <3>1 DEF BooksOK
  <2>3. IsList(closed) /\ (\A i \in 1..Len(closed) : closed[i] \in Uids)
        /\ journal \in [Uids -> Nat]
    BY <1>1 DEF BooksOK
  <2> HIDE DEF pushed, wild
  <2> QED BY <2>1, <2>2, <2>3 DEF BooksOK
<1>18. ExecInv' BY <1>1, <1>2, <1>11, <1>13, <1>15, <1>16, <1>17 DEF ExecInv
<1>19. NoRevival
  <2> SUFFICES ASSUME NEW tk \in Tickers, NEW i \in 1..Len(trades'[tk])
               PROVE  /\ i \in 1..Len(trades[tk]) /\ trades[tk][i].uid = trades'[tk][i].uid
                      /\ trades[tk][i].st = "Closed" => trades'[tk][i] = trades[tk][i]
    BY DEF NoRevival
  <2>1. CASE <<tk, i>> \in hit
    <3>1. At(<<tk, i>>).st = "Open" BY <1>6, <2>1
    <3>2. trades[tk][i].st = "Open" BY <3>1 DEF At
    <3> QED BY <1>14, <3>2
  <2>2. CASE <<tk, i>> \notin hit BY <1>14, <2>2
  <2> QED BY <2>1, <2>2
<1> QED BY <1>18, <1>19

\* An action with one of its fields set keeps the others and its shape.
LEMMA ActTouched ==
    ASSUME NEW a, ActShape(a), NEW v, NEW b
    PROVE  /\ b = [a EXCEPT !.stop = v] =>
                ActShape(b) /\ b.uid = a.uid /\ b.stop = v /\ b.tp1 = a.tp1
           /\ b = [a EXCEPT !.tp1 = v] =>
                ActShape(b) /\ b.uid = a.uid /\ b.stop = a.stop /\ b.tp1 = v
           /\ b = [a EXCEPT !.sent = v] =>
                ActShape(b) /\ b.uid = a.uid /\ b.stop = a.stop /\ b.tp1 = a.tp1
<1> DEFINE u == a.uid
           s == a.stop
           p == a.tp1
           n == a.size
           f == a.sent
<1>1. a = [uid |-> u, stop |-> s, tp1 |-> p, size |-> n, sent |-> f] BY DEF ActShape
<1> HIDE DEF u, s, p, n, f
<1>2. /\ [a EXCEPT !.stop = v] = [uid |-> u, stop |-> v, tp1 |-> p, size |-> n, sent |-> f]
      /\ [a EXCEPT !.tp1 = v] = [uid |-> u, stop |-> s, tp1 |-> v, size |-> n, sent |-> f]
      /\ [a EXCEPT !.sent = v] = [uid |-> u, stop |-> s, tp1 |-> p, size |-> n, sent |-> v]
  BY <1>1
<1>3. a.uid = u /\ a.stop = s /\ a.tp1 = p BY DEF u, s, p
<1> QED BY <1>2, <1>3 DEF ActShape

LEMMA StopTouched ==
    ASSUME NEW a, ActShape(a), NEW v, NEW b, b = [a EXCEPT !.stop = v]
    PROVE  ActShape(b) /\ b.uid = a.uid /\ b.stop = v /\ b.tp1 = a.tp1
BY ActTouched

LEMMA TpTouched ==
    ASSUME NEW a, ActShape(a), NEW v, NEW b, b = [a EXCEPT !.tp1 = v]
    PROVE  ActShape(b) /\ b.uid = a.uid /\ b.stop = a.stop /\ b.tp1 = v
BY ActTouched

LEMMA SentTouched ==
    ASSUME NEW a, ActShape(a), NEW v, NEW b, b = [a EXCEPT !.sent = v]
    PROVE  ActShape(b) /\ b.uid = a.uid /\ b.stop = a.stop /\ b.tp1 = a.tp1
BY ActTouched

\* A step of the running tick between deciding and recording: its first action
\* goes on, nobody's trade changes.
LEMMA HeadMoves ==
    ASSUME ExecInv, acts # <<>>, NEW b, ActShape(b), b.uid = Head(acts).uid,
           b.stop = 0 \/ b.stop = Head(acts).stop, b.tp1 = 0 \/ b.tp1 = Head(acts).tp1,
           acts' = [acts EXCEPT ![1] = b],
           ExchangeOK(x'), Grows(x.orders, x'.orders), badClose \subseteq badClose',
           UNCHANGED <<trades, inflight, submitted, result, closed, journal, swept>>
    PROVE  ExecInv' /\ NoRevival
<1> DEFINE wild == swept \union badClose
           wild2 == swept' \union badClose'
           pushed == submitted \ DOMAIN inflight
<1>1. /\ ExchangeOK(x) /\ TradesOK(trades, x.orders) /\ trades = [tk \in Tickers |-> trades[tk]]
      /\ LandedOK(trades, submitted, inflight) /\ ActsOK(acts, x.orders)
      /\ BooksOK(trades, pushed, journal, closed, acts, wild)
  BY DEF ExecInv
<1>2. /\ IsList(acts) /\ Len(acts) \in Nat /\ Len(acts) > 0 /\ Head(acts) = acts[1]
      /\ DOMAIN acts = 1..Len(acts)
  BY <1>1, ListTail, ListIs DEF ActsOK, IsList
<1>3. 1 \in 1..Len(acts) BY <1>2
<1>4. IsList(acts') /\ Len(acts') = Len(acts)
  <2>1. acts' = [k \in DOMAIN acts |-> acts'[k]] OBVIOUS
  <2> QED BY <1>2, <2>1, ListMapped
<1>5. /\ acts'[1] = b
      /\ \A k \in 1..Len(acts) : k # 1 => acts'[k] = acts[k]
  BY <1>2, <1>3
<1>6. \A k \in 1..Len(acts) : acts'[k].uid = acts[k].uid BY <1>2, <1>5
<1>7. TradesOK(trades', x'.orders)
  <2> SUFFICES ASSUME NEW tk \in Tickers PROVE ListOK(trades[tk], tk, x'.orders)
    BY DEF TradesOK
  <2>1. ListOK(trades[tk], tk, x.orders) BY <1>1 DEF TradesOK
  <2>2. \A i \in 1..Len(trades[tk]) : TradeOK(trades[tk][i], x'.orders)
    BY <1>1, <2>1, TradeThrough DEF ListOK
  <2> QED BY <2>1, <2>2 DEF ListOK
<1>8. ActsOK(acts', x'.orders)
  <2>1. ActsOK(acts, x'.orders)
    <3>1. IsList(x.orders) /\ IsList(x'.orders) BY <1>1 DEF ExchangeOK
    <3> QED BY <1>1, <3>1, ActsGrow
  <2>2. ASSUME NEW k \in 1..Len(acts)
        PROVE  /\ ActShape(acts'[k])
               /\ acts'[k].uid \in Uids
               /\ acts'[k].stop # 0 => acts'[k].stop \in 1..Len(x'.orders)
               /\ acts'[k].tp1 # 0 => acts'[k].tp1 \in 1..Len(x'.orders)
    <3>1. /\ ActShape(acts[k]) /\ acts[k].uid \in Uids
          /\ acts[k].stop # 0 => acts[k].stop \in 1..Len(x'.orders)
          /\ acts[k].tp1 # 0 => acts[k].tp1 \in 1..Len(x'.orders)
      BY <2>1 DEF ActsOK
    <3>2. CASE k # 1 BY <1>5, <3>1, <3>2
    <3>3. CASE k = 1
      <4>1. acts'[k] = b /\ Head(acts) = acts[k] BY <1>2, <1>5, <3>3
      <4> QED BY <3>1, <4>1
    <3> QED BY <3>2, <3>3
  <2>3. ASSUME NEW k \in 1..Len(acts), NEW m \in 1..Len(acts), acts'[k].uid = acts'[m].uid
        PROVE  k = m
    <3>1. acts[k].uid = acts[m].uid BY <1>6, <2>3
    <3> QED BY <1>1, <3>1 DEF ActsOK
  <2> QED BY <1>4, <2>2, <2>3 DEF ActsOK
<1>9. ASSUME NEW u \in Uids PROVE Due(u, journal, closed, acts') = Due(u, journal, closed, acts)
  <2>1. ActTimes(u, acts') = ActTimes(u, acts) BY <1>4, <1>6 DEF ActTimes
  <2> QED BY <2>1 DEF Due
<1>10. BooksOK(trades', pushed, journal', closed', acts', wild2)
  <2>1. ASSUME NEW u \in Uids \ wild2
        PROVE  /\ Due(u, journal, closed, acts') <= 1
               /\ u \notin pushed => Due(u, journal, closed, acts') = 0
               /\ \A tk \in Tickers : \A i \in 1..Len(trades[tk]) :
                     trades[tk][i].uid = u /\ trades[tk][i].st \notin Done =>
                         Due(u, journal, closed, acts') = 0
    <3>1. u \in Uids \ wild OBVIOUS
    <3> HIDE DEF wild, wild2, pushed
    <3>2. /\ Due(u, journal, closed, acts) <= 1
          /\ u \notin pushed => Due(u, journal, closed, acts) = 0
          /\ \A tk \in Tickers : \A i \in 1..Len(trades[tk]) :
                trades[tk][i].uid = u /\ trades[tk][i].st \notin Done =>
                    Due(u, journal, closed, acts) = 0
      BY <1>1, <3>1 DEF BooksOK
    <3>3. Due(u, journal, closed, acts') = Due(u, journal, closed, acts) BY <1>9
    <3> QED BY <3>2, <3>3
  <2>2. /\ IsList(closed) /\ (\A i \in 1..Len(closed) : closed[i] \in Uids)
        /\ journal \in [Uids -> Nat]
        /\ \A tk \in Tickers : \A i \in 1..Len(trades[tk]) :
              trades[tk][i].st = "Closed" /\ trades[tk][i].exec # 0 =>
                  journal[trades[tk][i].uid] + Times(trades[tk][i].uid, closed) >= 1
    BY <1>1 DEF BooksOK
  <2> HIDE DEF pushed, wild2
  <2> QED BY <2>1, <2>2 DEF BooksOK
<1>11. ResultOK(result', x'.orders) BY ResultKept
<1>12. ExecInv' BY <1>1, <1>7, <1>8, <1>10, <1>11 DEF ExecInv
<1>13. NoRevival BY DEF NoRevival
<1> QED BY <1>12, <1>13

\* The first action of the running tick.
LEMMA HeadIs ==
    ASSUME ExecInv, acts # <<>>
    PROVE  /\ IsList(acts) /\ Head(acts) = acts[1] /\ 1 \in DOMAIN acts
           /\ ActShape(Head(acts)) /\ Head(acts).uid \in Uids
           /\ Head(acts).stop # 0 => Head(acts).stop \in 1..Len(x.orders)
           /\ Head(acts).tp1 # 0 => Head(acts).tp1 \in 1..Len(x.orders)
           /\ ExchangeOK(x)
<1>1. ActsOK(acts, x.orders) /\ ExchangeOK(x) BY DEF ExecInv
<1>2. /\ IsList(acts) /\ Head(acts) = acts[1] /\ Len(acts) \in Nat /\ Len(acts) > 0
      /\ DOMAIN acts = 1..Len(acts)
  BY <1>1, ListTail, ListIs DEF ActsOK, IsList
<1>3. 1 \in 1..Len(acts) BY <1>2
<1> QED BY <1>1, <1>2, <1>3 DEF ActsOK

LEMMA TickCancelStopStep == ASSUME ExecInv, TickCancelStop PROVE ExecInv' /\ NoRevival
<1> DEFINE a == Head(acts)
           b == [a EXCEPT !.stop = 0]
<1>1. /\ acts # <<>> /\ a.stop # 0 /\ acts' = [acts EXCEPT ![1].stop = 0]
      /\ \E c \in Cancel(x, a.stop) : x' = c.x
      /\ UNCHANGED <<trades, inflight, submitted, result, closed, journal, swept, badClose>>
  BY DEF TickCancelStop
<1>2. /\ a = acts[1] /\ ActShape(a) /\ a.stop \in 1..Len(x.orders) /\ ExchangeOK(x)
  BY <1>1, HeadIs
<1>3. acts' = [acts EXCEPT ![1] = b] BY <1>1, <1>2
<1> HIDE DEF a
<1>4. ActShape(b) /\ b.uid = a.uid /\ b.stop = 0 /\ b.tp1 = a.tp1
  <2>1. b = [a EXCEPT !.stop = 0] BY DEF b
  <2>2. ActShape(a) BY <1>2
  <2> HIDE DEF b
  <2> QED BY <2>1, <2>2, StopTouched
<1>5. ExchangeOK(x') /\ Grows(x.orders, x'.orders)
  <2>1. PICK c \in Cancel(x, a.stop) : x' = c.x BY <1>1
  <2>2. c \in CancelIfAny(x, a.stop) BY <1>1 DEF CancelIfAny
  <2> QED BY <1>2, <2>1, <2>2, CancelOK DEF AnswerOK
<1> HIDE DEF b
<1> QED BY <1>1, <1>3, <1>4, <1>5, HeadMoves DEF a

LEMMA TickCancelTpStep == ASSUME ExecInv, TickCancelTp PROVE ExecInv' /\ NoRevival
<1> DEFINE a == Head(acts)
           b == [a EXCEPT !.tp1 = 0]
<1>1. /\ acts # <<>> /\ a.tp1 # 0 /\ acts' = [acts EXCEPT ![1].tp1 = 0]
      /\ \E c \in Cancel(x, a.tp1) : x' = c.x
      /\ UNCHANGED <<trades, inflight, submitted, result, closed, journal, swept, badClose>>
  BY DEF TickCancelTp
<1>2. /\ a = acts[1] /\ ActShape(a) /\ a.tp1 \in 1..Len(x.orders) /\ ExchangeOK(x)
  BY <1>1, HeadIs
<1>3. acts' = [acts EXCEPT ![1] = b] BY <1>1, <1>2
<1> HIDE DEF a
<1>4. ActShape(b) /\ b.uid = a.uid /\ b.stop = a.stop /\ b.tp1 = 0
  <2>1. b = [a EXCEPT !.tp1 = 0] BY DEF b
  <2>2. ActShape(a) BY <1>2
  <2> HIDE DEF b
  <2> QED BY <2>1, <2>2, TpTouched
<1>5. ExchangeOK(x') /\ Grows(x.orders, x'.orders)
  <2>1. PICK c \in Cancel(x, a.tp1) : x' = c.x BY <1>1
  <2>2. c \in CancelIfAny(x, a.tp1) BY <1>1 DEF CancelIfAny
  <2> QED BY <1>2, <2>1, <2>2, CancelOK DEF AnswerOK
<1> HIDE DEF b
<1> QED BY <1>1, <1>3, <1>4, <1>5, HeadMoves DEF a

LEMMA TickCloseMarketStep == ASSUME ExecInv, TickCloseMarket PROVE ExecInv' /\ NoRevival
<1> DEFINE a == Head(acts)
           b == [a EXCEPT !.sent = TRUE]
<1>1. /\ acts # <<>> /\ acts' = [acts EXCEPT ![1].sent = TRUE]
      /\ \E m \in Place(x, a.uid, "close", a.size) :
            x' = m.x /\ badClose' = badClose \union (IF m.ok THEN {} ELSE {a.uid})
      /\ UNCHANGED <<trades, inflight, submitted, result, closed, journal, swept>>
  BY DEF TickCloseMarket
<1>2. a = acts[1] /\ ActShape(a) /\ a.uid \in Uids /\ ExchangeOK(x) BY <1>1, HeadIs
<1>3. acts' = [acts EXCEPT ![1] = b] BY <1>1, <1>2
<1> HIDE DEF a
<1>4. ActShape(b) /\ b.uid = a.uid /\ b.stop = a.stop /\ b.tp1 = a.tp1
  <2>1. b = [a EXCEPT !.sent = TRUE] BY DEF b
  <2>2. ActShape(a) BY <1>2
  <2> HIDE DEF b
  <2> QED BY <2>1, <2>2, SentTouched
<1>5. ExchangeOK(x') /\ Grows(x.orders, x'.orders) /\ badClose \subseteq badClose'
  <2>1. PICK m \in Place(x, a.uid, "close", a.size) :
           x' = m.x /\ badClose' = badClose \union (IF m.ok THEN {} ELSE {a.uid})
    BY <1>1
  <2>2. "close" # "entry" OBVIOUS
  <2> QED BY <1>2, <2>1, <2>2, PlaceOK DEF AnswerOK
<1> HIDE DEF b
<1> QED BY <1>1, <1>3, <1>4, <1>5, HeadMoves DEF a

LEMMA TickRecordStep == ASSUME ExecInv, TickRecord PROVE ExecInv' /\ NoRevival
<1> DEFINE a == Head(acts)
           wild == swept \union badClose
           wild2 == swept' \union badClose'
           pushed == submitted \ DOMAIN inflight
<1>1. /\ ExchangeOK(x) /\ TradesOK(trades, x.orders) /\ trades = [tk \in Tickers |-> trades[tk]]
      /\ LandedOK(trades, submitted, inflight) /\ ActsOK(acts, x.orders)
      /\ BooksOK(trades, pushed, journal, closed, acts, wild)
  BY DEF ExecInv
<1>2. /\ UNCHANGED <<trades, inflight, submitted, reserved, unknown, result, journal, x, swept,
                    badClose>>
      /\ acts # <<>> /\ acts' = Tail(acts) /\ closed' = Append(closed, a.uid)
  BY DEF TickRecord
<1>3. /\ IsList(acts) /\ Len(acts) \in Nat /\ IsList(acts') /\ Len(acts') = Len(acts) - 1
      /\ a = acts[1] /\ Len(acts) > 0 /\ \A i \in 1..Len(acts') : acts'[i] = acts[i + 1]
  BY <1>1, <1>2, ListTail DEF ActsOK, IsList
<1>4. /\ a.uid \in Uids
      /\ a.stop # 0 => a.stop \in 1..Len(x.orders)
      /\ a.tp1 # 0 => a.tp1 \in 1..Len(x.orders)
  <2>1. 1 \in 1..Len(acts) BY <1>3
  <2> QED BY <1>1, <1>3, <2>1 DEF ActsOK
<1>5. ExchangeOK(x') /\ Grows(x.orders, x'.orders) /\ badClose \subseteq badClose'
  BY <1>2, ExchangeStays
<1>6. TradesOK(trades', x'.orders)
  <2> SUFFICES ASSUME NEW tk \in Tickers PROVE ListOK(trades[tk], tk, x'.orders)
    BY <1>2 DEF TradesOK
  <2>1. ListOK(trades[tk], tk, x.orders) BY <1>1 DEF TradesOK
  <2>2. \A i \in 1..Len(trades[tk]) : TradeOK(trades[tk][i], x'.orders)
    BY <1>1, <1>5, <2>1, TradeThrough DEF ListOK
  <2> QED BY <2>1, <2>2 DEF ListOK
<1>7. LandedOK(trades', submitted', inflight') BY <1>1, <1>2
<1>8. ActsOK(acts', x'.orders)
  <2>1. ActsOK(acts, x'.orders)
    <3>1. IsList(x.orders) /\ IsList(x'.orders) BY <1>1, <1>5 DEF ExchangeOK
    <3> QED BY <1>1, <1>5, <3>1, ActsGrow
  <2>2. \A i \in 1..Len(acts') : i + 1 \in 1..Len(acts) /\ acts'[i] = acts[i + 1] BY <1>3
  <2>3. ASSUME NEW i \in 1..Len(acts')
        PROVE  /\ ActShape(acts'[i])
               /\ acts'[i].uid \in Uids
               /\ acts'[i].stop # 0 => acts'[i].stop \in 1..Len(x'.orders)
               /\ acts'[i].tp1 # 0 => acts'[i].tp1 \in 1..Len(x'.orders)
    <3> DEFINE b == acts[i + 1]
    <3>1. i + 1 \in 1..Len(acts) /\ acts'[i] = b BY <2>2
    <3>2. /\ ActShape(b)
          /\ b.uid \in Uids
          /\ b.stop # 0 => b.stop \in 1..Len(x'.orders)
          /\ b.tp1 # 0 => b.tp1 \in 1..Len(x'.orders)
      BY <2>1, <3>1 DEF ActsOK
    <3> HIDE DEF b
    <3> QED BY <3>1, <3>2
  <2>4. ASSUME NEW i \in 1..Len(acts'), NEW k \in 1..Len(acts'), acts'[i].uid = acts'[k].uid
        PROVE  i = k
    <3>1. /\ i + 1 \in 1..Len(acts) /\ k + 1 \in 1..Len(acts)
          /\ acts[i + 1].uid = acts[k + 1].uid
      BY <2>2, <2>4
    <3>2. i + 1 = k + 1 BY <2>1, <3>1 DEF ActsOK
    <3> QED BY <1>3, <3>2
  <2> QED BY <1>3, <2>3, <2>4 DEF ActsOK
<1>9. IsList(closed) /\ (\A i \in 1..Len(closed) : closed[i] \in Uids) /\ journal \in [Uids -> Nat]
  BY <1>1 DEF BooksOK
<1>10. /\ IsList(closed') /\ \A i \in 1..Len(closed') : closed'[i] \in Uids
  <2> DEFINE c == Append(closed, a.uid)
  <2>1. /\ IsList(c) /\ Len(c) = Len(closed) + 1 /\ c[Len(closed) + 1] = a.uid
        /\ \A i \in 1..Len(closed) : c[i] = closed[i]
    BY <1>9, ListAppend
  <2>2. Len(closed) \in Nat BY <1>9 DEF IsList
  <2> HIDE DEF c
  <2>3. \A i \in 1..Len(c) : i \in 1..Len(closed) \/ i = Len(closed) + 1 BY <2>1, <2>2
  <2>4. \A i \in 1..Len(c) : c[i] \in Uids BY <1>4, <1>9, <2>1, <2>3
  <2> QED BY <1>2, <2>1, <2>4 DEF c
<1>11. ASSUME NEW u \in Uids
       PROVE  /\ Due(u, journal, closed', acts') = Due(u, journal, closed, acts)
              /\ journal[u] + Times(u, closed') >= journal[u] + Times(u, closed)
  <2> DEFINE j == journal[u]
             n == Times(u, closed)
  <2>1. j \in Nat /\ n \in Nat BY <1>9, TimesIs
  <2>2. Times(u, closed') = n + (IF u = a.uid THEN 1 ELSE 0) BY <1>2, <1>9, TimesAppend
  <2>3. /\ Due(u, journal, closed', acts') = j + Times(u, closed') + ActTimes(u, acts')
        /\ Due(u, journal, closed, acts) = j + n + ActTimes(u, acts)
    BY DEF Due
  <2> HIDE DEF j, n
  <2>4. CASE u = a.uid
    <3>1. ActTimes(u, acts) = 1
      <4>1. 1 \in 1..Len(acts) /\ acts[1].uid = u BY <1>3, <2>4
      <4> QED BY <4>1 DEF ActTimes
    <3>2. ActTimes(u, acts') = 0
      <4>1. ASSUME NEW k \in 1..Len(acts') PROVE acts'[k].uid # u
        <5>1. k + 1 \in 1..Len(acts) /\ 1 \in 1..Len(acts) /\ k + 1 # 1 BY <1>3
        <5>2. acts[k + 1].uid # acts[1].uid BY <1>1, <5>1 DEF ActsOK
        <5> QED BY <1>3, <2>4, <5>2
      <4> QED BY <4>1 DEF ActTimes
    <3> DEFINE n2 == Times(u, closed')
    <3>3. n2 = n + 1 BY <2>2, <2>4
    <3> HIDE DEF n2
    <3>4. j + n2 + 0 = j + n + 1 /\ j + n2 >= j + n BY <2>1, <3>3
    <3> QED BY <2>3, <3>1, <3>2, <3>4 DEF j, n, n2
  <2>5. CASE u # a.uid
    <3>1. ActTimes(u, acts') = ActTimes(u, acts)
      <4>1. ASSUME NEW k \in 1..Len(acts), acts[k].uid = u
            PROVE  \E i \in 1..Len(acts') : acts'[i].uid = u
        <5>1. k # 1 BY <1>3, <2>5, <4>1
        <5>2. k - 1 \in 1..Len(acts') /\ (k - 1) + 1 = k BY <1>3, <5>1
        <5>3. acts'[k - 1] = acts[k] BY <1>3, <5>2
        <5> QED BY <4>1, <5>2, <5>3
      <4>2. ASSUME NEW i \in 1..Len(acts'), acts'[i].uid = u
            PROVE  \E k \in 1..Len(acts) : acts[k].uid = u
        <5>1. i + 1 \in 1..Len(acts) /\ acts[i + 1].uid = u BY <1>3, <4>2
        <5> QED BY <5>1
      <4>3. (\E k \in 1..Len(acts) : acts[k].uid = u) <=> \E i \in 1..Len(acts') : acts'[i].uid = u
        BY <4>1, <4>2
      <4> QED BY <4>3 DEF ActTimes
    <3> DEFINE n2 == Times(u, closed')
    <3>2. n2 = n + 0 BY <2>2, <2>5
    <3> HIDE DEF n2
    <3>3. n2 = n /\ j + n2 >= j + n BY <2>1, <3>2
    <3> QED BY <2>3, <3>1, <3>3 DEF j, n, n2
  <2> QED BY <2>4, <2>5
<1>12. BooksOK(trades', pushed, journal, closed', acts', wild2)
  <2>1. ASSUME NEW u \in Uids \ wild2
        PROVE  /\ Due(u, journal, closed', acts') <= 1
               /\ u \notin pushed => Due(u, journal, closed', acts') = 0
               /\ \A tk \in Tickers : \A i \in 1..Len(trades[tk]) :
                     trades[tk][i].uid = u /\ trades[tk][i].st \notin Done =>
                         Due(u, journal, closed', acts') = 0
    <3>1. u \in Uids \ wild BY <1>2, <1>5
    <3> HIDE DEF wild, wild2, pushed
    <3>2. /\ Due(u, journal, closed, acts) <= 1
          /\ u \notin pushed => Due(u, journal, closed, acts) = 0
          /\ \A tk \in Tickers : \A i \in 1..Len(trades[tk]) :
                trades[tk][i].uid = u /\ trades[tk][i].st \notin Done =>
                    Due(u, journal, closed, acts) = 0
      BY <1>1, <3>1 DEF BooksOK
    <3>3. Due(u, journal, closed', acts') = Due(u, journal, closed, acts) BY <1>11
    <3> QED BY <3>2, <3>3
  <2>2. ASSUME NEW tk \in Tickers, NEW i \in 1..Len(trades[tk]),
               trades[tk][i].st = "Closed", trades[tk][i].exec # 0
        PROVE  journal[trades[tk][i].uid] + Times(trades[tk][i].uid, closed') >= 1
    <3> DEFINE u == trades[tk][i].uid
    <3>1. u \in Uids BY <1>1 DEF TradesOK, ListOK, TradeOK
    <3>2. journal[u] + Times(u, closed) >= 1 BY <1>1, <2>2 DEF BooksOK
    <3> HIDE DEF u
    <3> DEFINE n == Times(u, closed)
               n2 == Times(u, closed')
               j == journal[u]
    <3>3. j \in Nat /\ n \in Nat /\ n2 \in Nat BY <1>9, <1>10, <3>1, TimesIs
    <3>4. j + n2 >= j + n /\ j + n >= 1 BY <1>11, <3>1, <3>2
    <3> HIDE DEF n, n2, j
    <3>5. j + n2 >= 1 BY <3>3, <3>4
    <3> QED BY <3>5 DEF u, j, n2
  <2> HIDE DEF pushed, wild2
  <2> QED BY <1>2, <1>9, <1>10, <2>1, <2>2 DEF BooksOK
<1>13. ResultOK(result', x'.orders) BY <1>2, <1>5, ResultKept
<1>14. ExecInv' BY <1>1, <1>2, <1>5, <1>6, <1>7, <1>8, <1>12, <1>13 DEF ExecInv
<1>15. NoRevival BY <1>2 DEF NoRevival
<1> QED BY <1>14, <1>15

LEMMA TickCloseStep == ASSUME ExecInv, TickClose PROVE ExecInv' /\ NoRevival
BY TickCancelStopStep, TickCancelTpStep, TickCloseMarketStep, TickRecordStep DEF TickClose

LEMMA PopClosedTradesStep == ASSUME ExecInv, PopClosedTrades PROVE ExecInv' /\ NoRevival
<1> DEFINE wild == swept \union badClose
           pushed == submitted \ DOMAIN inflight
<1>1. /\ ExchangeOK(x) /\ TradesOK(trades, x.orders) /\ trades = [tk \in Tickers |-> trades[tk]]
      /\ LandedOK(trades, submitted, inflight) /\ ActsOK(acts, x.orders)
      /\ ResultOK(result, x.orders)
      /\ BooksOK(trades, pushed, journal, closed, acts, wild)
  BY DEF ExecInv
<1>2. /\ UNCHANGED <<inflight, submitted, reserved, unknown, result, acts, x, swept, badClose>>
      /\ closed' = <<>> /\ journal' = [u \in Uids |-> journal[u] + Times(u, closed)]
      /\ trades' = [tk \in Tickers |-> NotClosed(trades[tk])]
  BY DEF PopClosedTrades
<1>3. IsList(closed) /\ (\A i \in 1..Len(closed) : closed[i] \in Uids) /\ journal \in [Uids -> Nat]
  BY <1>1 DEF BooksOK
<1>4. trades' = [tk \in Tickers |-> trades'[tk]] BY <1>2
<1>5. ASSUME NEW tk \in Tickers PROVE KeptOf(trades'[tk], trades[tk])
  <2>1. trades'[tk] = NotClosed(trades[tk]) BY <1>2
  <2>2. IsList(trades[tk]) BY <1>1 DEF TradesOK, ListOK
  <2> QED BY <2>1, <2>2, NotClosedOK
<1>6. ASSUME NEW tk \in Tickers PROVE ListOK(trades'[tk], tk, x.orders)
  <2>1. ListOK(trades[tk], tk, x.orders) BY <1>1 DEF TradesOK
  <2>2. ASSUME NEW k \in 1..Len(trades'[tk])
        PROVE  TradeOK(trades'[tk][k], x.orders) /\ Plans[trades'[tk][k].uid].ticker = tk
    <3>1. PICK i \in 1..Len(trades[tk]) : trades'[tk][k] = trades[tk][i] BY <1>5 DEF KeptOf
    <3> QED BY <2>1, <3>1 DEF ListOK
  <2>3. ASSUME NEW k \in 1..Len(trades'[tk]), NEW m \in 1..Len(trades'[tk]),
               trades'[tk][k].uid = trades'[tk][m].uid
        PROVE  k = m
    <3>1. PICK i, j \in 1..Len(trades[tk]) :
             /\ trades'[tk][k] = trades[tk][i] /\ trades'[tk][m] = trades[tk][j]
             /\ i = j => k = m
      <4>1. KeptOf(trades'[tk], trades[tk]) BY <1>5
      <4> QED BY <4>1, Zenon DEF KeptOf
    <3>2. trades[tk][i].uid = trades[tk][j].uid BY <2>3, <3>1
    <3> QED BY <2>1, <3>1, <3>2 DEF ListOK
  <2> QED BY <1>5, <2>2, <2>3 DEF ListOK, KeptOf
<1>7. TradesOK(trades', x'.orders) BY <1>2, <1>6 DEF TradesOK
<1>8. LandedOK(trades', submitted', inflight')
  <2>1. ASSUME NEW tk \in Tickers, NEW k \in 1..Len(trades'[tk])
        PROVE  trades'[tk][k].uid \in submitted \ DOMAIN inflight
    <3>1. PICK i \in 1..Len(trades[tk]) : trades'[tk][k] = trades[tk][i] BY <1>5 DEF KeptOf
    <3> QED BY <1>1, <3>1 DEF LandedOK
  <2> QED BY <1>1, <1>2, <2>1 DEF LandedOK
<1>9. ASSUME NEW u \in Uids
      PROVE  Due(u, journal', closed', acts) = Due(u, journal, closed, acts)
             /\ journal'[u] \in Nat
  <2> DEFINE j == journal[u]
             n == Times(u, closed)
  <2>1. j \in Nat /\ n \in Nat BY <1>3, TimesIs
  <2>2. journal'[u] = j + n BY <1>2
  <2>3. Times(u, closed') = 0 BY <1>2, TimesEmpty
  <2>4. /\ Due(u, journal', closed', acts) = journal'[u] + Times(u, closed') + ActTimes(u, acts)
        /\ Due(u, journal, closed, acts) = j + n + ActTimes(u, acts)
    BY DEF Due
  <2> HIDE DEF j, n
  <2>5. j + n + 0 = j + n /\ j + n \in Nat BY <2>1
  <2> QED BY <2>2, <2>3, <2>4, <2>5
<1>10. journal' \in [Uids -> Nat]
  <2>1. journal' = [u \in Uids |-> journal'[u]] BY <1>2
  <2> QED BY <1>9, <2>1
<1>11. BooksOK(trades', pushed, journal', closed', acts, wild)
  <2>1. ASSUME NEW u \in Uids \ wild
        PROVE  /\ Due(u, journal', closed', acts) <= 1
               /\ u \notin pushed => Due(u, journal', closed', acts) = 0
               /\ \A tk \in Tickers : \A k \in 1..Len(trades'[tk]) :
                     trades'[tk][k].uid = u /\ trades'[tk][k].st \notin Done =>
                         Due(u, journal', closed', acts) = 0
    <3> HIDE DEF wild, pushed
    <3>1. /\ Due(u, journal, closed, acts) <= 1
          /\ u \notin pushed => Due(u, journal, closed, acts) = 0
          /\ \A tk \in Tickers : \A i \in 1..Len(trades[tk]) :
                trades[tk][i].uid = u /\ trades[tk][i].st \notin Done =>
                    Due(u, journal, closed, acts) = 0
      BY <1>1 DEF BooksOK
    <3>2. Due(u, journal', closed', acts) = Due(u, journal, closed, acts) BY <1>9
    <3>3. ASSUME NEW tk \in Tickers, NEW k \in 1..Len(trades'[tk]),
                 trades'[tk][k].uid = u, trades'[tk][k].st \notin Done
          PROVE  Due(u, journal, closed, acts) = 0
      <4>1. PICK i \in 1..Len(trades[tk]) : trades'[tk][k] = trades[tk][i] BY <1>5 DEF KeptOf
      <4> QED BY <3>1, <3>3, <4>1
    <3> QED BY <3>1, <3>2, <3>3
  <2>2. ASSUME NEW tk \in Tickers, NEW k \in 1..Len(trades'[tk]) PROVE trades'[tk][k].st # "Closed"
    <3>1. PICK i \in 1..Len(trades[tk]) :
             trades'[tk][k] = trades[tk][i] /\ trades[tk][i].st # "Closed"
      BY <1>5 DEF KeptOf
    <3> QED BY <3>1
  <2>3. IsList(closed') /\ \A i \in 1..Len(closed') : closed'[i] \in Uids
    BY <1>2, ListEmpty
  <2> HIDE DEF pushed, wild
  <2> QED BY <1>10, <2>1, <2>2, <2>3 DEF BooksOK
<1>12. ExecInv' BY <1>1, <1>2, <1>4, <1>7, <1>8, <1>11 DEF ExecInv
<1>13. NoRevival
  <2> SUFFICES ASSUME NEW tk \in Tickers, NEW i \in 1..Len(trades'[tk])
               PROVE  \E k \in 1..Len(trades[tk]) : trades[tk][k] = trades'[tk][i]
    BY DEF NoRevival
  <2> QED BY <1>5 DEF KeptOf
<1> QED BY <1>12, <1>13

-----------------------------------------------------------------------------
(* The specification. *)

LEMMA InitInv == ASSUME Init PROVE ExecInv
<1>1. x.orders = <<>> /\ x.ws = <<>> /\ x = [orders |-> x.orders, ws |-> x.ws, faults |-> x.faults]
  BY DEF Init
<1>2. IsList(<<>>) /\ Len(<<>>) = 0 BY ListEmpty
<1>3. \A i \in 1..0 : FALSE OBVIOUS
<1>4. ExchangeOK(x) BY <1>1, <1>2, <1>3 DEF ExchangeOK
<1>5. trades = [tk \in Tickers |-> trades[tk]] /\ \A tk \in Tickers : trades[tk] = <<>>
  BY DEF Init
<1>6. TradesOK(trades, x.orders) BY <1>2, <1>3, <1>5 DEF TradesOK, ListOK
<1>7. DOMAIN inflight = {} /\ submitted = {} BY DEF Init
<1>8. LandedOK(trades, submitted, inflight) BY <1>2, <1>3, <1>5, <1>7 DEF LandedOK
<1>9. acts = <<>> /\ closed = <<>> /\ journal = [u \in Uids |-> 0] /\ result = None
  BY DEF Init
<1>10. ASSUME NEW u \in Uids PROVE Due(u, journal, closed, acts) = 0
  <2>1. Times(u, closed) = 0 BY <1>9, TimesEmpty
  <2>2. ActTimes(u, acts) = 0 BY <1>2, <1>3, <1>9 DEF ActTimes
  <2>3. journal[u] = 0 BY <1>9
  <2> QED BY <2>1, <2>2, <2>3 DEF Due
<1>11. BooksOK(trades, submitted \ DOMAIN inflight, journal, closed, acts, swept \union badClose)
  BY <1>2, <1>3, <1>5, <1>9, <1>10 DEF BooksOK
<1>12. ActsOK(acts, x.orders) BY <1>2, <1>3, <1>9 DEF ActsOK
<1>13. ResultOK(result, x.orders) BY <1>9 DEF ResultOK
<1> QED BY <1>4, <1>5, <1>6, <1>8, <1>11, <1>12, <1>13 DEF ExecInv

LEMMA NextStep == ASSUME ExecInv, [Next]_vars PROVE ExecInv' /\ NoRevival
<1>1. CASE \E u \in Uids : Submit(u)
  BY <1>1, SubmitBeginStep, PostArrivesStep, SubmitReturnsStep, SubmitThrowsStep DEF Submit
<1>2. CASE OnOrderUpdate BY <1>2, OnOrderUpdateStep
<1>3. CASE \E tk \in Tickers, side \in {"Buy", "Sell"} : OnPositionUpdate(tk, side)
  BY <1>3, OnPositionUpdateStep
<1>4. CASE \E hit \in SUBSET Places, timeout \in BOOLEAN : TickDecide(hit, timeout)
  BY <1>4, TickDecideStep
<1>5. CASE TickClose BY <1>5, TickCloseStep
<1>6. CASE \E tk \in Tickers :
              TimePasses(tk) \/ TickRearm(tk) \/ CloseTrade(tk) \/ CancelAll(tk)
  BY <1>6, TimePassesStep, TickRearmStep, CloseTradeStep, CancelAllStep
<1>7. CASE PollResolves BY <1>7, PollResolvesStep
<1>8. CASE PollTimesOut BY <1>8, PollTimesOutStep
<1>9. CASE HandleReconciled BY <1>9, HandleReconciledStep
<1>10. CASE PopClosedTrades BY <1>10, PopClosedTradesStep
<1>11. CASE \E id \in DOMAIN x.orders :
               \/ \E n \in 1..x.orders[id].size : EntryFills(id, n)
               \/ ExitFills(id)
               \/ ExchangeCancels(id)
  BY <1>11, EntryFillsStep, ExitFillsStep, ExchangeCancelsStep
<1>12. CASE UNCHANGED vars
  <2>1. ExchangeOK(x') /\ Grows(x.orders, x'.orders) BY <1>12, ExchangeStays DEF vars
  <2> QED BY <1>12, <2>1, ExchangeMoves DEF vars
<1> QED BY <1>1, <1>2, <1>3, <1>4, <1>5, <1>6, <1>7, <1>8, <1>9, <1>10, <1>11, <1>12 DEF Next

\* The exchange, the trades, the records and the submits of LiveExecutor.cpp
\* stay consistent: every update is about an order the exchange has, every
\* plan's trade is in one place, and whoever is not wild is due at most once.
THEOREM ExecutorConsistent == Spec => []ExecInv
<1>1. Init => ExecInv BY InitInv
<1>2. ExecInv /\ [Next]_vars => ExecInv' BY NextStep
<1> QED BY <1>1, <1>2, PTL DEF Spec

LEMMA OnceInv == ASSUME ExecInv PROVE RecordedOnce
<1>1. /\ IsList(closed) /\ journal \in [Uids -> Nat] /\ TradesOK(trades, x.orders)
  BY DEF ExecInv, BooksOK
<1>2. ASSUME NEW u \in Uids \ (swept \union badClose) PROVE Records(u) <= 1
  <2> DEFINE n == Times(u, closed)
             j == journal[u]
             d == ActTimes(u, acts)
  <2>1. Due(u, journal, closed, acts) <= 1 BY DEF ExecInv, BooksOK
  <2>2. Due(u, journal, closed, acts) = j + n + d /\ Records(u) = j + n BY DEF Due, Records
  <2>3. j \in Nat /\ n \in Nat /\ d \in {0, 1} BY <1>1, TimesIs DEF ActTimes
  <2> HIDE DEF n, j, d
  <2> QED BY <2>1, <2>2, <2>3
<1>3. ASSUME NEW t \in All, t.st = "Closed", t.exec > 0 PROVE Records(t.uid) >= 1
  <2>1. PICK p \in Places : p[2] \in DOMAIN trades[p[1]] /\ t = At(p) BY DEF All
  <2>2. p[1] \in Tickers BY PlacesIs
  <2>3. ListOK(trades[p[1]], p[1], x.orders) BY <1>1, <2>2 DEF TradesOK
  <2>4. p[2] \in 1..Len(trades[p[1]]) BY <2>1, <2>3, ListIs DEF ListOK
  <2>5. t = trades[p[1]][p[2]] /\ t.exec # 0
    <3>1. t.exec # 0
      <4> DEFINE e == t.exec
      <4>1. e > 0 BY <1>3
      <4> HIDE DEF e
      <4>2. e # 0 BY <4>1
      <4> QED BY <4>2 DEF e
    <3> QED BY <2>1, <3>1 DEF At
  <2>6. journal[t.uid] + Times(t.uid, closed) >= 1
    BY <1>3, <2>2, <2>4, <2>5 DEF ExecInv, BooksOK
  <2> QED BY <2>6 DEF Records
<1> QED BY <1>2, <1>3 DEF RecordedOnce

\* LiveExecutor records a trade once: whatever the order in which exit fills,
\* tick's emergency closes, close_trade, cancel_all and reconciliations come,
\* no trade gets two ClosedTrades, but for those that cancel_all swept and those
\* one of whose market closes threw, and none that executed anything gets none.
THEOREM TradesRecordedOnce == Spec => []RecordedOnce
<1> QED BY ExecutorConsistent, OnceInv, PTL

\* A ticker has no more trades than there are plans.
LEMMA ListBound ==
    ASSUME NEW list, NEW tk, NEW orders, ListOK(list, tk, orders)
    PROVE  Len(list) <= Len(Plans)
<1> DEFINE N == Len(Plans)
           n == Len(list)
           f == [i \in 1..n |-> list[i].uid]
<1>1. N \in Nat /\ n \in Nat BY InstanceAssumption DEF ListOK, IsList
<1>2. ASSUME NEW i \in 1..n PROVE f[i] \in 1..N
  BY DEF ListOK, TradeOK, Uids
<1>3. ASSUME NEW i \in 1..n, NEW j \in 1..n, f[i] = f[j] PROVE i = j
  BY <1>3 DEF ListOK
<1>4. f \in [1..n -> 1..N] BY <1>2
<1> HIDE DEF f, n, N
<1>5. f \in Injection(1..n, 1..N) BY <1>3, <1>4 DEF Injection, IsInjective
<1>6. IsFiniteSet(1..N) /\ Cardinality(1..N) = N /\ Cardinality(1..n) = n
  BY <1>1, FS_Interval
<1>7. Cardinality(1..n) <= Cardinality(1..N) BY <1>5, <1>6, FS_Injection
<1> QED BY <1>6, <1>7 DEF n, N

LEMMA AllIs ==
    ASSUME NEW tk \in Tickers, NEW ts, NEW orders, ts = trades, TradesOK(ts, orders),
           NEW i \in 1..Len(trades[tk])
    PROVE  trades[tk][i] \in All
<1> DEFINE p == <<tk, i>>
<1>1. ListOK(trades[tk], tk, orders) BY DEF TradesOK
<1>2. Len(trades[tk]) <= Len(Plans) /\ Len(Plans) \in Nat /\ Len(trades[tk]) \in Nat
  <2>1. Len(trades[tk]) <= Len(Plans) BY <1>1, ListBound
  <2>2. Len(trades[tk]) \in Nat BY <1>1 DEF ListOK, IsList
  <2> QED BY <2>1, <2>2, InstanceAssumption
<1>3. p \in Places BY <1>2 DEF Places
<1>4. p[2] \in DOMAIN trades[p[1]] BY <1>1, ListIs DEF ListOK
<1>5. At(p) = trades[tk][i] BY DEF At
<1> QED BY <1>3, <1>4, <1>5 DEF All

\* LiveExecutor never revives a Closed trade: whatever late update,
\* reconciliation, close or cancel arrives, it stays as it is until
\* pop_closed_trades drops it, and it does not come back.
THEOREM ClosedStaysClosed == Spec => ClosedIsFinal
<1>1. ASSUME ExecInv, ExecInv', NoRevival, NEW u \in submitted \ DOMAIN inflight,
             \A t \in {t \in All : t.uid = u} : t.st = "Closed"
      PROVE  {t \in All' : t.uid = u} \subseteq {t \in All : t.uid = u}
  <2> SUFFICES ASSUME NEW t \in All', t.uid = u PROVE t \in All OBVIOUS
  <2>1. PICK p \in Places : p[2] \in DOMAIN trades'[p[1]] /\ t = trades'[p[1]][p[2]]
    BY DEF All, At, Places, Tickers
  <2>2. p[1] \in Tickers BY PlacesIs
  <2>3. ListOK(trades'[p[1]], p[1], x'.orders) BY <1>1, <2>2 DEF ExecInv, TradesOK
  <2>4. p[2] \in 1..Len(trades'[p[1]]) BY <2>1, <2>3, ListIs DEF ListOK
  <2>5. PICK k \in 1..Len(trades[p[1]]) :
           /\ trades[p[1]][k].uid = u
           /\ trades[p[1]][k].st = "Closed" => t = trades[p[1]][k]
    BY <1>1, <2>1, <2>2, <2>4 DEF NoRevival
  <2>6. trades[p[1]][k] \in All
    <3>1. TradesOK(trades, x.orders) BY <1>1 DEF ExecInv
    <3> QED BY <2>2, <3>1, AllIs
  <2> QED BY <1>1, <2>5, <2>6
<1>2. ExecInv /\ ExecInv' /\ [Next]_vars =>
        [\A u \in submitted \ DOMAIN inflight :
            LET mine == {t \in All : t.uid = u}
            IN  (\A t \in mine : t.st = "Closed") => {t \in All' : t.uid = u} \subseteq mine]_vars
  BY <1>1, NextStep
<1> QED BY <1>2, ExecutorConsistent, PTL DEF Spec, ClosedIsFinal

-----------------------------------------------------------------------------
(* The end of an order, when no call fails.                                  *)

\* An order is over: it does not rest, and no update of it is on its way.
Gone(xs, id) == ~xs.orders[id].live /\ \A k \in 1..Len(xs.ws) : xs.ws[k].id # id

\* The update that an order is done is the last one of it.
Ordered(xs) ==
    \A k \in 1..Len(xs.ws) : xs.ws[k].status = "Closed" =>
        \A m \in 1..Len(xs.ws) : k < m => xs.ws[m].id # xs.ws[k].id

Calm(xs) == ExchangeOK(xs) /\ xs.faults = 0 /\ Ordered(xs)

\* A later state of the exchange: what an order is stays, and so does its end.
Onward(xs, ys) ==
    /\ Calm(ys) /\ Len(xs.orders) <= Len(ys.orders)
    /\ \A id \in 1..Len(xs.orders) :
          /\ ys.orders[id].by = xs.orders[id].by
          /\ ys.orders[id].role = xs.orders[id].role
          /\ ys.orders[id].size = xs.orders[id].size
          /\ Gone(xs, id) => Gone(ys, id)

LEMMA CalmIs ==
    ASSUME NEW xs, Calm(xs)
    PROVE  /\ ExchangeOK(xs) /\ xs.faults = 0 /\ Ordered(xs)
           /\ IsList(xs.orders) /\ Len(xs.orders) \in Nat
           /\ IsList(xs.ws) /\ Len(xs.ws) \in Nat
           /\ \A k \in 1..Len(xs.ws) : UpdateOK(xs.ws[k], xs.orders)
           /\ \A i \in 1..Len(xs.orders) : OrderOK(xs.orders[i])
BY DEF Calm, ExchangeOK, IsList

LEMMA OnwardSame == ASSUME NEW xs, Calm(xs) PROVE Onward(xs, xs)
<1>1. Len(xs.orders) <= Len(xs.orders)
  <2>1. Len(xs.orders) \in Nat BY CalmIs
  <2> QED BY <2>1
<1> QED BY <1>1 DEF Onward

LEMMA OnwardOn ==
    ASSUME NEW xs, Calm(xs), NEW ys, Onward(xs, ys), NEW zs, Onward(ys, zs)
    PROVE  Onward(xs, zs)
<1>1. Calm(ys) /\ Calm(zs) BY DEF Onward
<1>2. /\ Len(xs.orders) \in Nat /\ Len(ys.orders) \in Nat /\ Len(zs.orders) \in Nat
      /\ Len(xs.orders) <= Len(ys.orders) /\ Len(ys.orders) <= Len(zs.orders)
  BY <1>1, CalmIs DEF Onward
<1>3. Len(xs.orders) <= Len(zs.orders) BY <1>2
<1>4. \A id \in 1..Len(xs.orders) : id \in 1..Len(ys.orders) BY <1>2
<1> QED BY <1>1, <1>3, <1>4 DEF Onward

\* One more update: of an order that is not done, and when the update says
\* that it is, it no longer rests.
LEMMA OneMore ==
    ASSUME NEW xs, Calm(xs), NEW ys, ExchangeOK(ys), ys.faults = 0,
           NEW m, ys.ws = Append(xs.ws, m), Len(xs.orders) <= Len(ys.orders),
           \A id \in 1..Len(xs.orders) :
              /\ ys.orders[id].by = xs.orders[id].by
              /\ ys.orders[id].role = xs.orders[id].role
              /\ ys.orders[id].size = xs.orders[id].size
              /\ ys.orders[id].live => xs.orders[id].live,
           m.id \in 1..Len(xs.orders) => xs.orders[m.id].live
    PROVE  Onward(xs, ys)
<1> DEFINE n == Len(xs.ws)
           ws == ys.ws
<1>1. /\ IsList(xs.ws) /\ n \in Nat /\ Ordered(xs)
      /\ \A k \in 1..n : UpdateOK(xs.ws[k], xs.orders)
  BY CalmIs
<1>2. /\ Len(ws) = n + 1 /\ ws[n + 1] = m
      /\ \A k \in 1..n : ws[k] = xs.ws[k]
  BY <1>1, ListAppend
<1>3. \A k \in 1..Len(ws) : k \in 1..n \/ k = n + 1 BY <1>1, <1>2
<1>4. \A k \in 1..n : xs.ws[k].id \in 1..Len(xs.orders)
                      /\ (xs.ws[k].status = "Closed" => ~xs.orders[xs.ws[k].id].live)
  BY <1>1 DEF UpdateOK
<1> HIDE DEF n, ws
<1>5. ASSUME NEW k \in 1..Len(ws), ws[k].status = "Closed", NEW j \in 1..Len(ws), k < j
      PROVE  ws[j].id # ws[k].id
  <2>1. k \in 1..n BY <1>1, <1>2, <1>5
  <2>2. ws[k] = xs.ws[k] BY <1>2, <2>1
  <2>3. CASE j \in 1..n
    <3>1. ws[j] = xs.ws[j] BY <1>2, <2>3
    <3> QED BY <1>1, <1>5, <2>1, <2>2, <2>3, <3>1 DEF Ordered, n
  <2>4. CASE j = n + 1
    <3>1. ws[j] = m BY <1>2, <2>4
    <3>2. ~xs.orders[ws[k].id].live /\ ws[k].id \in 1..Len(xs.orders) BY <1>4, <1>5, <2>1, <2>2
    <3> QED BY <3>1, <3>2
  <2> QED BY <1>3, <2>3, <2>4
<1>6. Ordered(ys) BY <1>5 DEF Ordered, ws
<1>7. ASSUME NEW id \in 1..Len(xs.orders), Gone(xs, id) PROVE Gone(ys, id)
  <2>1. ~ys.orders[id].live
    <3>1. ~xs.orders[id].live BY <1>7 DEF Gone
    <3> QED BY <3>1
  <2>2. ASSUME NEW k \in 1..Len(ws) PROVE ws[k].id # id
    <3>1. CASE k \in 1..n
      <4>1. xs.ws[k].id # id BY <1>7, <3>1 DEF Gone, n
      <4> QED BY <1>2, <3>1, <4>1
    <3>2. CASE k = n + 1
      <4>1. ws[k] = m /\ ~xs.orders[id].live BY <1>2, <1>7, <3>2 DEF Gone
      <4> QED BY <4>1
    <3> QED BY <1>3, <3>1, <3>2
  <2> QED BY <2>1, <2>2 DEF Gone, ws
<1>8. Calm(ys) BY <1>6 DEF Calm
<1> QED BY <1>7, <1>8 DEF Onward

LEMMA AcceptOnward ==
    ASSUME NEW xs, Calm(xs), NEW u \in Uids, NEW role, NEW size,
           role = "entry" => size \in Nat \ {0}
    PROVE  LET ys == Accept(xs, u, role, size)
           IN  Onward(xs, ys)
<1> DEFINE id == Len(xs.orders) + 1
           fill == IF role = "close"
                   THEN Least(size, Exposure(xs.orders, Plans[u].ticker, Plans[u].side)) ELSE 0
           o == [by |-> u, role |-> role, size |-> size, filled |-> fill, live |-> role # "close"]
           m == Update(id, IF role = "close" THEN "Closed" ELSE "Open", fill)
           ys == Accept(xs, u, role, size)
<1>1. ExchangeOK(xs) /\ xs.faults = 0 /\ Len(xs.orders) \in Nat /\ IsList(xs.orders)
  BY CalmIs
<1>2. ExchangeOK(ys) /\ Len(ys.orders) = Len(xs.orders) + 1 BY <1>1, AcceptOK
<1>3. ys = [orders |-> Append(xs.orders, o), ws |-> Append(xs.ws, m), faults |-> xs.faults]
  BY DEF Accept
<1>4. m.id = id BY DEF Update
<1> HIDE DEF o, m, fill, ys
<1>5. ys.orders = Append(xs.orders, o) /\ ys.ws = Append(xs.ws, m) /\ ys.faults = 0
  BY <1>1, <1>3
<1>6. \A i \in 1..Len(xs.orders) : ys.orders[i] = xs.orders[i] BY <1>1, <1>5, ListAppend
<1>7. m.id \notin 1..Len(xs.orders) /\ Len(xs.orders) <= Len(ys.orders) BY <1>1, <1>2, <1>4
<1>8. \A i \in 1..Len(xs.orders) :
          /\ ys.orders[i].by = xs.orders[i].by /\ ys.orders[i].role = xs.orders[i].role
          /\ ys.orders[i].size = xs.orders[i].size
          /\ ys.orders[i].live => xs.orders[i].live
  BY <1>6
<1>9. m.id \in 1..Len(xs.orders) => xs.orders[m.id].live BY <1>7
<1> HIDE DEF id
<1>10. Len(xs.orders) <= Len(ys.orders) BY <1>7
<1>11. ys.ws = Append(xs.ws, m) /\ ys.faults = 0 BY <1>5
<1>12. Onward(xs, ys) BY <1>2, <1>8, <1>9, <1>10, <1>11, OneMore
<1> QED BY <1>12 DEF ys

\* What an order without fill keeps.
LEMMA OrderEndsAs ==
    ASSUME NEW o, OrderOK(o)
    PROVE  LET p == [o EXCEPT !.live = FALSE]
           IN  p.by = o.by /\ p.role = o.role /\ p.size = o.size /\ ~p.live
<1>1. o = [by |-> o.by, role |-> o.role, size |-> o.size, filled |-> o.filled, live |-> o.live]
  BY DEF OrderOK, OrderShape
<1>2. \A v : [o EXCEPT !.live = v] =
        [by |-> o.by, role |-> o.role, size |-> o.size, filled |-> o.filled, live |-> v]
  BY <1>1
<1>3. PICK v : v = FALSE BY Zenon
<1> DEFINE p == [o EXCEPT !.live = v]
<1>4. p = [by |-> o.by, role |-> o.role, size |-> o.size, filled |-> o.filled, live |-> v]
  BY <1>2
<1> HIDE DEF p
<1>5. p.by = o.by /\ p.role = o.role /\ p.size = o.size /\ p.live = v BY <1>4
<1> QED BY <1>3, <1>5 DEF p

LEMMA DropOnward ==
    ASSUME NEW xs, Calm(xs), NEW id \in 1..Len(xs.orders), xs.orders[id].live
    PROVE  Onward(xs, Drop(xs, id))
<1> DEFINE m == Update(id, "Closed", xs.orders[id].filled)
           p == [xs.orders[id] EXCEPT !.live = FALSE]
           os == [xs.orders EXCEPT ![id] = p]
           ys == Drop(xs, id)
<1>1. /\ ExchangeOK(xs) /\ xs.faults = 0 /\ Len(xs.orders) \in Nat /\ IsList(xs.orders)
      /\ OrderOK(xs.orders[id])
  BY CalmIs
<1>2. ExchangeOK(ys) /\ Len(ys.orders) = Len(xs.orders) BY <1>1, DropOK
<1>3. ys = [orders |-> [xs.orders EXCEPT ![id].live = FALSE], ws |-> Append(xs.ws, m),
            faults |-> xs.faults]
  BY DEF Drop
<1>4. [xs.orders EXCEPT ![id].live = FALSE] = os OBVIOUS
<1>5. /\ p.by = xs.orders[id].by /\ p.role = xs.orders[id].role /\ p.size = xs.orders[id].size
      /\ ~p.live
  BY <1>1, OrderEndsAs
<1>6. m.id = id BY DEF Update
<1> HIDE DEF p, m, ys
<1>7. DOMAIN xs.orders = 1..Len(xs.orders) BY <1>1, ListIs
<1>8. os[id] = p /\ \A i \in 1..Len(xs.orders) : i # id => os[i] = xs.orders[i] BY <1>7
<1> HIDE DEF os
<1>9. ys.orders = os /\ ys.ws = Append(xs.ws, m) /\ ys.faults = 0 BY <1>1, <1>3, <1>4
<1>10. \A i \in 1..Len(xs.orders) :
          /\ os[i].by = xs.orders[i].by /\ os[i].role = xs.orders[i].role
          /\ os[i].size = xs.orders[i].size
          /\ os[i].live => xs.orders[i].live
  <2> SUFFICES ASSUME NEW i \in 1..Len(xs.orders)
               PROVE  /\ os[i].by = xs.orders[i].by /\ os[i].role = xs.orders[i].role
                      /\ os[i].size = xs.orders[i].size
                      /\ os[i].live => xs.orders[i].live
    OBVIOUS
  <2>1. CASE i = id BY <1>5, <1>8, <2>1
  <2>2. CASE i # id BY <1>8, <2>2
  <2> QED BY <2>1, <2>2
<1>11. Len(xs.orders) <= Len(ys.orders) BY <1>1, <1>2
<1>12. m.id \in 1..Len(xs.orders) => xs.orders[m.id].live BY <1>6
<1>13. \A i \in 1..Len(xs.orders) :
          /\ ys.orders[i].by = xs.orders[i].by /\ ys.orders[i].role = xs.orders[i].role
          /\ ys.orders[i].size = xs.orders[i].size
          /\ ys.orders[i].live => xs.orders[i].live
  BY <1>9, <1>10
<1>14. Onward(xs, ys) BY <1>2, <1>9, <1>11, <1>12, <1>13, OneMore
<1> QED BY <1>14 DEF ys

\* All the orders of a set end at once, each with an update of its own.
LEMMA DropAllOnward ==
    ASSUME NEW xs, Calm(xs), NEW ids, ids \subseteq 1..Len(xs.orders),
           \A id \in ids : xs.orders[id].live
    PROVE  Onward(xs, DropAll(xs, ids))
<1> DEFINE n == Len(xs.orders)
           c == Cardinality(ids)
           b == Len(xs.ws)
           os == [i \in DOMAIN xs.orders |->
                    IF i \in ids THEN [xs.orders[i] EXCEPT !.live = FALSE] ELSE xs.orders[i]]
           r == [k \in 1..c |-> Update(Nth(ids, k), "Closed", xs.orders[Nth(ids, k)].filled)]
           ws == xs.ws \o r
           ys == DropAll(xs, ids)
<1>1. /\ ExchangeOK(xs) /\ xs.faults = 0 /\ Ordered(xs) /\ n \in Nat /\ IsList(xs.orders)
      /\ IsList(xs.ws) /\ b \in Nat
      /\ \A k \in 1..b : UpdateOK(xs.ws[k], xs.orders)
      /\ \A i \in 1..n : OrderOK(xs.orders[i])
  BY CalmIs
<1>2. ys = [orders |-> os, ws |-> ws, faults |-> xs.faults] BY DEF DropAll
<1>3. DOMAIN xs.orders = 1..n BY <1>1, ListIs
<1>4. /\ c \in Nat /\ \A k \in 1..c : Nth(ids, k) \in ids
      /\ \A k, m \in 1..c : Nth(ids, k) = Nth(ids, m) => k = m
  BY <1>1, NthIs
<1>5. ExchangeOK(ys) BY <1>1, DropAllOK
<1>6. \A i \in 1..n : /\ os[i].by = xs.orders[i].by /\ os[i].role = xs.orders[i].role
                      /\ os[i].size = xs.orders[i].size
                      /\ os[i].live => xs.orders[i].live
  <2> SUFFICES ASSUME NEW i \in 1..n
               PROVE  /\ os[i].by = xs.orders[i].by /\ os[i].role = xs.orders[i].role
                      /\ os[i].size = xs.orders[i].size
                      /\ os[i].live => xs.orders[i].live
    OBVIOUS
  <2>1. CASE i \in ids
    <3> DEFINE p == [xs.orders[i] EXCEPT !.live = FALSE]
    <3>1. os[i] = p BY <1>3, <2>1
    <3>2. /\ p.by = xs.orders[i].by /\ p.role = xs.orders[i].role /\ p.size = xs.orders[i].size
          /\ ~p.live
      BY <1>1, OrderEndsAs
    <3> HIDE DEF p, os
    <3> QED BY <3>1, <3>2
  <2>2. CASE i \notin ids
    <3>1. os[i] = xs.orders[i] BY <1>3, <2>2
    <3> HIDE DEF os
    <3> QED BY <3>1
  <2> QED BY <2>1, <2>2
<1>7. Len(os) = n /\ IsList(os)
  <2>1. DOMAIN os = 1..n /\ os = [i \in 1..n |-> os[i]] BY <1>3
  <2> HIDE DEF os, n
  <2> QED BY <1>1, <2>1, ListOf
<1>8. DOMAIN r = 1..c /\ \A k \in 1..c : r[k].id = Nth(ids, k) BY DEF Update
<1>9. IsList(r) /\ Len(r) = c
  <2>1. r = [k \in 1..c |-> r[k]] OBVIOUS
  <2> HIDE DEF r, c
  <2> QED BY <1>4, <1>8, <2>1, ListOf
<1> HIDE DEF os, r, c, ys
<1> HIDE DEF ws
<1>10. /\ Len(ws) = b + c
       /\ \A k \in 1..b : ws[k] = xs.ws[k]
       /\ \A k \in 1..c : ws[b + k] = r[k]
  <2>1. Joined(xs.ws, r, xs.ws \o r) BY <1>1, <1>9, ListConcat
  <2>2. Joined(xs.ws, r, ws) BY <2>1 DEF ws
  <2> QED BY <1>9, <2>2 DEF Joined
<1>11. \A k \in 1..Len(ws) : k \in 1..b \/ (k - b \in 1..c /\ k = b + (k - b))
  BY <1>1, <1>4, <1>10
<1>12. \A k \in 1..b : /\ xs.ws[k].id \in 1..n
                       /\ xs.ws[k].status = "Closed" => ~xs.orders[xs.ws[k].id].live
  BY <1>1 DEF UpdateOK
<1>13. ASSUME NEW k \in 1..Len(ws), k \notin 1..b
       PROVE  /\ k - b \in 1..c /\ ws[k].id = Nth(ids, k - b)
              /\ xs.orders[ws[k].id].live /\ ws[k].id \in ids
  <2>1. k - b \in 1..c /\ k = b + (k - b) BY <1>11, <1>13
  <2>2. ws[k] = r[k - b] BY <1>10, <2>1
  <2>3. ws[k].id = Nth(ids, k - b) BY <1>8, <2>1, <2>2
  <2> QED BY <1>4, <2>1, <2>3
<1>14. ASSUME NEW k \in 1..Len(ws), ws[k].status = "Closed", NEW j \in 1..Len(ws), k < j
       PROVE  ws[j].id # ws[k].id
  <2>1. CASE k \in 1..b /\ j \in 1..b
    <3>1. ws[k] = xs.ws[k] /\ ws[j] = xs.ws[j] BY <1>10, <2>1
    <3> QED BY <1>1, <1>14, <2>1, <3>1 DEF Ordered
  <2>2. CASE k \in 1..b /\ j \notin 1..b
    <3>1. ws[k] = xs.ws[k] BY <1>10, <2>2
    <3>2. ~xs.orders[ws[k].id].live BY <1>12, <1>14, <2>2, <3>1
    <3>3. xs.orders[ws[j].id].live BY <1>13, <2>2
    <3> QED BY <3>2, <3>3
  <2>3. CASE k \notin 1..b
    <3>1. j \notin 1..b BY <1>1, <1>14, <2>3
    <3>2. /\ k - b \in 1..c /\ ws[k].id = Nth(ids, k - b)
          /\ j - b \in 1..c /\ ws[j].id = Nth(ids, j - b)
      BY <1>13, <2>3, <3>1
    <3>3. k - b # j - b BY <1>1, <1>14
    <3> QED BY <1>4, <3>2, <3>3
  <2> QED BY <2>1, <2>2, <2>3
<1>15. ASSUME NEW id \in 1..n, Gone(xs, id) PROVE Gone(ys, id)
  <2>1. ~xs.orders[id].live BY <1>15 DEF Gone
  <2>2. ASSUME NEW k \in 1..Len(ws) PROVE ws[k].id # id
    <3>1. CASE k \in 1..b
      <4>1. xs.ws[k].id # id BY <1>15, <3>1 DEF Gone
      <4> QED BY <1>10, <3>1, <4>1
    <3>2. CASE k \notin 1..b
      <4>1. xs.orders[ws[k].id].live BY <1>13, <3>2
      <4> QED BY <2>1, <4>1
    <3> QED BY <3>1, <3>2
  <2>3. ~os[id].live BY <1>6, <2>1
  <2>4. ys.orders = os /\ ys.ws = ws BY <1>2
  <2> QED BY <2>2, <2>3, <2>4 DEF Gone
<1>16. ys.orders = os /\ ys.ws = ws /\ ys.faults = 0 BY <1>1, <1>2
<1>17. Calm(ys) BY <1>5, <1>14, <1>16 DEF Calm, Ordered
<1>18. Len(xs.orders) <= Len(ys.orders) BY <1>1, <1>7, <1>16
<1>19. Onward(xs, ys) BY <1>6, <1>15, <1>16, <1>17, <1>18 DEF Onward
<1> QED BY <1>19 DEF ys

LEMMA OrderFillsAs ==
    ASSUME NEW o, OrderOK(o), NEW n
    PROVE  LET p == [o EXCEPT !.filled = n]
           IN  p.by = o.by /\ p.role = o.role /\ p.size = o.size /\ p.live = o.live
<1> DEFINE p == [o EXCEPT !.filled = n]
<1>1. o = [by |-> o.by, role |-> o.role, size |-> o.size, filled |-> o.filled, live |-> o.live]
  BY DEF OrderOK, OrderShape
<1>2. p = [by |-> o.by, role |-> o.role, size |-> o.size, filled |-> n, live |-> o.live]
  BY <1>1
<1> HIDE DEF p
<1>3. p.by = o.by /\ p.role = o.role /\ p.size = o.size /\ p.live = o.live BY <1>2
<1> QED BY <1>3 DEF p

LEMMA FilledOnward ==
    ASSUME NEW xs, Calm(xs), NEW id \in 1..Len(xs.orders), xs.orders[id].live,
           NEW n, n # 0, xs.orders[id].role = "entry" => n \in Nat
    PROVE  LET ys == Filled(xs, id, n)
           IN  Onward(xs, ys) /\ Len(ys.orders) = Len(xs.orders) /\ ys.orders[id].live
<1> DEFINE L == Len(xs.orders)
           p == [xs.orders[id] EXCEPT !.filled = n]
           os == [xs.orders EXCEPT ![id] = p]
           ys == Filled(xs, id, n)
<1>1. /\ ExchangeOK(xs) /\ xs.faults = 0 /\ Ordered(xs) /\ L \in Nat /\ IsList(xs.orders)
      /\ OrderOK(xs.orders[id])
  BY CalmIs
<1>2. ExchangeOK(ys) /\ Len(ys.orders) = L BY <1>1, FilledOK
<1>3. /\ p.by = xs.orders[id].by /\ p.role = xs.orders[id].role /\ p.size = xs.orders[id].size
      /\ p.live = xs.orders[id].live
  BY <1>1, OrderFillsAs
<1>4. ys = [orders |-> os, ws |-> xs.ws, faults |-> xs.faults]
  <2>1. xs = [orders |-> xs.orders, ws |-> xs.ws, faults |-> xs.faults] BY <1>1 DEF ExchangeOK
  <2>2. \A v : [xs EXCEPT !.orders = v] = [orders |-> v, ws |-> xs.ws, faults |-> xs.faults]
    BY ONLY <2>1
  <2>3. ys = [xs EXCEPT !.orders = os] BY DEF Filled
  <2> QED BY <2>2, <2>3
<1> HIDE DEF p, ys
<1>5. DOMAIN xs.orders = 1..L BY <1>1, ListIs
<1>6. os[id] = p /\ \A i \in 1..L : i # id => os[i] = xs.orders[i] BY <1>5
<1> HIDE DEF os
<1>7. ys.orders = os /\ ys.ws = xs.ws /\ ys.faults = 0 BY <1>1, <1>4
<1>8. \A i \in 1..L : /\ os[i].by = xs.orders[i].by /\ os[i].role = xs.orders[i].role
                      /\ os[i].size = xs.orders[i].size /\ os[i].live = xs.orders[i].live
  <2> SUFFICES ASSUME NEW i \in 1..L
               PROVE  /\ os[i].by = xs.orders[i].by /\ os[i].role = xs.orders[i].role
                      /\ os[i].size = xs.orders[i].size /\ os[i].live = xs.orders[i].live
    OBVIOUS
  <2>1. CASE i = id BY <1>3, <1>6, <2>1
  <2>2. CASE i # id BY <1>6, <2>2
  <2> QED BY <2>1, <2>2
<1>9. Calm(ys) BY <1>1, <1>2, <1>7 DEF Calm, Ordered
<1>10. \A i \in 1..L : Gone(xs, i) => Gone(ys, i) BY <1>7, <1>8 DEF Gone
<1>11. Len(xs.orders) <= Len(ys.orders) BY <1>1, <1>2
<1>12. Onward(xs, ys) BY <1>7, <1>8, <1>9, <1>10, <1>11 DEF Onward
<1> QED BY <1>2, <1>6, <1>3, <1>7, <1>12 DEF ys

\* The stream goes on without its head; the order that it says is done is over.
LEMMA RestOnward ==
    ASSUME NEW xs, Calm(xs), xs.ws # <<>>
    PROVE  LET ys == [xs EXCEPT !.ws = Tail(@)]
               u == Head(xs.ws)
           IN  /\ Onward(xs, ys) /\ ys.orders = xs.orders /\ ~Gone(xs, u.id)
               /\ u.status = "Closed" => Gone(ys, u.id)
<1> DEFINE ys == [xs EXCEPT !.ws = Tail(@)]
           ws == Tail(xs.ws)
           u == Head(xs.ws)
<1>1. /\ ExchangeOK(xs) /\ xs.faults = 0 /\ Ordered(xs) /\ Len(xs.orders) \in Nat
      /\ IsList(xs.ws) /\ Len(xs.ws) \in Nat
      /\ \A k \in 1..Len(xs.ws) : UpdateOK(xs.ws[k], xs.orders)
  BY CalmIs
<1>2. ExchangeOK(ys) /\ ys.orders = xs.orders BY <1>1, RestOK
<1>3. xs = [orders |-> xs.orders, ws |-> xs.ws, faults |-> xs.faults] BY <1>1 DEF ExchangeOK
<1>4. ys = [orders |-> xs.orders, ws |-> ws, faults |-> xs.faults] BY <1>3
<1>5. /\ Len(ws) = Len(xs.ws) - 1 /\ u = xs.ws[1] /\ Len(xs.ws) > 0
      /\ \A i \in 1..Len(ws) : ws[i] = xs.ws[i + 1]
  BY <1>1, ListTail
<1> HIDE DEF ys, ws, u
<1>6. ys.ws = ws /\ ys.faults = 0 BY <1>1, <1>4
<1>7. \A i \in 1..Len(ws) : i + 1 \in 1..Len(xs.ws) /\ 1 < i + 1 BY <1>1, <1>5
<1>8. 1 \in 1..Len(xs.ws) BY <1>1, <1>5
<1>9. ASSUME NEW k \in 1..Len(ws), ws[k].status = "Closed", NEW j \in 1..Len(ws), k < j
      PROVE  ws[j].id # ws[k].id
  <2>1. k + 1 \in 1..Len(xs.ws) /\ j + 1 \in 1..Len(xs.ws) /\ k + 1 < j + 1 BY <1>7, <1>9
  <2>2. ws[k] = xs.ws[k + 1] /\ ws[j] = xs.ws[j + 1] BY <1>5
  <2> HIDE DEF Ordered
  <2>3. xs.ws[k + 1].status = "Closed" BY <1>9, <2>2
  <2>4. xs.ws[j + 1].id # xs.ws[k + 1].id BY <1>1, <2>1, <2>3 DEF Ordered
  <2> QED BY <2>2, <2>4
<1>10. Calm(ys) BY <1>2, <1>6, <1>9 DEF Calm, Ordered
<1>11. ASSUME NEW id \in 1..Len(xs.orders), Gone(xs, id) PROVE Gone(ys, id)
  <2>1. ASSUME NEW k \in 1..Len(ws) PROVE ws[k].id # id
    <3>1. xs.ws[k + 1].id # id BY <1>7, <1>11 DEF Gone
    <3> QED BY <1>5, <3>1
  <2> QED BY <1>2, <1>6, <1>11, <2>1 DEF Gone
<1>12. ~Gone(xs, u.id) BY <1>5, <1>8 DEF Gone
<1>13. ASSUME u.status = "Closed" PROVE Gone(ys, u.id)
  <2>1. UpdateOK(u, xs.orders) BY <1>1, <1>5, <1>8
  <2>2. ~xs.orders[u.id].live BY <1>13, <2>1 DEF UpdateOK
  <2>3. ASSUME NEW k \in 1..Len(ws) PROVE ws[k].id # u.id
    <3>1. k + 1 \in 1..Len(xs.ws) /\ 1 < k + 1 BY <1>7
    <3>2. xs.ws[1].status = "Closed" BY <1>5, <1>13
    <3>3. xs.ws[k + 1].id # xs.ws[1].id BY <1>1, <1>8, <3>1, <3>2 DEF Ordered
    <3> QED BY <1>5, <3>3
  <2> QED BY <1>2, <1>6, <2>2, <2>3 DEF Gone
<1>14. Len(xs.orders) <= Len(ys.orders) BY <1>1, <1>2
<1>15. Onward(xs, ys) BY <1>2, <1>10, <1>11, <1>14 DEF Onward
<1> QED BY <1>2, <1>12, <1>13, <1>15 DEF ys, u

\* The answers of the gateway, when no call fails.
LEMMA PlaceOnward ==
    ASSUME NEW xs, Calm(xs), NEW u \in Uids, NEW role, role # "entry", NEW size,
           NEW a \in Place(xs, u, role, size)
    PROVE  a.ok /\ Onward(xs, a.x)
<1> DEFINE ys == Accept(xs, u, role, size)
<1>1. xs.faults = 0 BY CalmIs
<1>2. Onward(xs, ys) BY AcceptOnward
<1> HIDE DEF ys
<1>3. a = [ok |-> TRUE, x |-> ys, id |-> IF PostReturnsId THEN Len(xs.orders) + 1 ELSE 0]
  BY <1>1 DEF Place, ys
<1>4. a.ok /\ a.x = ys BY <1>3
<1> QED BY <1>2, <1>4

LEMMA CancelOnward ==
    ASSUME NEW xs, Calm(xs), NEW id, id # 0 => id \in 1..Len(xs.orders),
           NEW a \in CancelIfAny(xs, id)
    PROVE  Onward(xs, a.x)
<1>1. xs.faults = 0 /\ Onward(xs, xs) BY CalmIs, OnwardSame
<1>2. CASE id = 0
  <2>1. a = [ok |-> TRUE, x |-> xs] BY <1>2 DEF CancelIfAny
  <2> QED BY <1>1, <2>1
<1>3. CASE id # 0 /\ ~xs.orders[id].live
  <2>1. a = [ok |-> FALSE, x |-> xs] BY <1>3 DEF CancelIfAny, Cancel
  <2> QED BY <1>1, <2>1
<1>4. CASE id # 0 /\ xs.orders[id].live
  <2> DEFINE ys == Drop(xs, id)
  <2>1. Onward(xs, ys) BY <1>4, DropOnward
  <2> HIDE DEF ys
  <2>2. a = [ok |-> TRUE, x |-> ys] BY <1>1, <1>4 DEF CancelIfAny, Cancel, ys
  <2> QED BY <2>1, <2>2
<1> QED BY <1>2, <1>3, <1>4

-----------------------------------------------------------------------------
(* The handlers, when no call fails.                                         *)

LEMMA CancelKnown ==
    ASSUME NEW xs, Calm(xs), NEW id, id # 0 => id \in 1..Len(xs.orders),
           NEW ys, Onward(xs, ys)
    PROVE  Calm(ys) /\ (id # 0 => id \in 1..Len(ys.orders))
<1>1. Calm(ys) /\ Len(xs.orders) <= Len(ys.orders) BY DEF Onward
<1>2. Len(xs.orders) \in Nat /\ Len(ys.orders) \in Nat BY <1>1, CalmIs
<1> QED BY <1>1, <1>2

LEMMA ArmStopsOnward ==
    ASSUME NEW xs, Calm(xs), NEW t, t.uid \in Uids, NEW tpCancelled,
           NEW o \in ArmStops(t, xs, tpCancelled)
    PROVE  Onward(xs, o.x)
<1> DEFINE T1(sl) == IF sl.ok THEN [t EXCEPT !.stop = sl.id] ELSE t
           T2(sl, tp) == IF tp.ok THEN [T1(sl) EXCEPT !.tp1 = tp.id] ELSE T1(sl)
           Tp(sl) == {Outcome(T2(sl, tp), tp.x) :
                        tp \in Place(sl.x, t.uid, "tp1", TpSize(t.exec))}
<1>1. PICK sl \in Place(xs, t.uid, "stop", StopSize(t)) :
           o \in Tp(sl) \/ o = Outcome(T1(sl), sl.x)
  BY DEF ArmStops
<1>2. Onward(xs, sl.x) BY PlaceOnward
<1> HIDE DEF T1, T2
<1>3. CASE o = Outcome(T1(sl), sl.x)
  <2>1. o.x = sl.x BY <1>3, OutcomeIs
  <2> QED BY <1>2, <2>1
<1>4. CASE o \in Tp(sl)
  <2>1. PICK tp \in Place(sl.x, t.uid, "tp1", TpSize(t.exec)) : o = Outcome(T2(sl, tp), tp.x)
    BY <1>4
  <2>2. o.x = tp.x BY <2>1, OutcomeIs
  <2>3. Calm(sl.x) BY <1>2 DEF Onward
  <2>4. Onward(sl.x, tp.x) BY <2>3, PlaceOnward
  <2>5. Onward(xs, tp.x) BY <1>2, <2>4, OnwardOn
  <2> QED BY <2>2, <2>5
<1> QED BY <1>1, <1>3, <1>4

LEMMA PlaceStopsOnward ==
    ASSUME NEW xs, Calm(xs), NEW t, TradeOK(t, xs.orders), NEW o \in PlaceStops(t, xs)
    PROVE  Onward(xs, o.x)
<1> DEFINE V(d) == [t EXCEPT !.stop = 0, !.tp1 = IF d.ok THEN 0 ELSE @]
           Tp(c) == UNION {ArmStops(V(d), d.x, d.ok) : d \in CancelIfAny(c.x, t.tp1)}
<1>1. /\ TradeShape(t) /\ t.uid \in Uids
      /\ t.stop # 0 => t.stop \in 1..Len(xs.orders)
      /\ t.tp1 # 0 => t.tp1 \in 1..Len(xs.orders)
  BY DEF TradeOK
<1>2. CASE t.st # "Open" \/ t.exec = 0
  <2>1. o = Outcome(t, xs) BY <1>2, Zenon DEF PlaceStops
  <2>2. o.x = xs BY <2>1, OutcomeIs
  <2> QED BY <2>2, OnwardSame
<1>3. CASE ~(t.st # "Open" \/ t.exec = 0)
  <2>1. PICK c \in CancelIfAny(xs, t.stop) :
             o \in IF ~c.ok THEN {Outcome(t, c.x)} ELSE Tp(c)
    BY <1>3, Zenon DEF PlaceStops
  <2>2. Onward(xs, c.x) BY <1>1, CancelOnward
  <2>3. CASE o = Outcome(t, c.x)
    <3>1. o.x = c.x BY <2>3, OutcomeIs
    <3> QED BY <2>2, <3>1
  <2>4. CASE o \in Tp(c)
    <3> HIDE DEF V
    <3>1. PICK d \in CancelIfAny(c.x, t.tp1) : o \in ArmStops(V(d), d.x, d.ok) BY <2>4
    <3>2. Calm(c.x) /\ (t.tp1 # 0 => t.tp1 \in 1..Len(c.x.orders)) BY <1>1, <2>2, CancelKnown
    <3>3. Onward(c.x, d.x) BY <3>2, CancelOnward
    <3>4. V(d).uid = t.uid
      <4> DEFINE b == IF d.ok THEN 0 ELSE t.tp1
      <4>1. PICK a : a = 0 OBVIOUS
      <4>2. V(d) = [t EXCEPT !.stop = a, !.tp1 = b] BY <4>1 DEF V
      <4> HIDE DEF b
      <4>3. Edited(t, [t EXCEPT !.stop = a, !.tp1 = b], t.st, t.entry, a, b, t.exec)
        BY <1>1, Edits, Zenon
      <4> QED BY <4>2, <4>3 DEF Edited
    <3>5. Calm(d.x) BY <3>3 DEF Onward
    <3>6. Onward(d.x, o.x) BY <1>1, <3>1, <3>4, <3>5, ArmStopsOnward
    <3>7. Onward(c.x, o.x) BY <3>2, <3>3, <3>6, OnwardOn
    <3> QED BY <2>2, <3>7, OnwardOn
  <2> QED BY <2>1, <2>3, <2>4, Zenon
<1> QED BY <1>2, <1>3

\* What a trade keeps: who it is, and the entry that it has claimed.
Follows(t, v) ==
    /\ v.uid = t.uid /\ v.entry = t.entry
    /\ v.st # "Closed" => t.st # "Closed"
    /\ v.st = "EmergencyClosing" => t.st = "EmergencyClosing"

LEMMA EmergencyCloseOnward ==
    ASSUME NEW xs, Calm(xs), NEW t, TradeOK(t, xs.orders), t.st # "Closed",
           NEW o \in EmergencyClose(t, xs)
    PROVE  Onward(xs, o.x) /\ Follows(t, o.t)
<1> DEFINE Ended(m) == [t |-> [t EXCEPT !.stop = 0, !.tp1 = 0,
                                        !.st = IF m.ok THEN "Closed" ELSE @],
                        x |-> m.x, rec |-> <<t.uid>>, bad |-> ~m.ok]
           Market(d) == {Ended(m) : m \in Place(d.x, t.uid, "close", t.exec)}
           Second(c) == UNION {Market(d) : d \in CancelIfAny(c.x, t.tp1)}
<1>0. o \in UNION {Second(c) : c \in CancelIfAny(xs, t.stop)} BY Zenon DEF EmergencyClose
<1> HIDE DEF Second
<1>1. PICK c \in CancelIfAny(xs, t.stop) : o \in Second(c) BY <1>0
<1> HIDE DEF Market
<1>2. PICK d \in CancelIfAny(c.x, t.tp1) : o \in Market(d) BY <1>1 DEF Second
<1>3. PICK m \in Place(d.x, t.uid, "close", t.exec) : o = Ended(m) BY <1>2, Zenon DEF Market
<1>4. /\ t.uid \in Uids /\ TradeShape(t)
      /\ t.stop # 0 => t.stop \in 1..Len(xs.orders)
      /\ t.tp1 # 0 => t.tp1 \in 1..Len(xs.orders)
  BY DEF TradeOK
<1>5. Onward(xs, c.x) BY <1>4, CancelOnward
<1>6. Calm(c.x) /\ (t.tp1 # 0 => t.tp1 \in 1..Len(c.x.orders)) BY <1>4, <1>5, CancelKnown
<1>7. Onward(c.x, d.x) BY <1>6, CancelOnward
<1>8. Calm(d.x) BY <1>7 DEF Onward
<1>9. m.ok /\ Onward(d.x, m.x) BY <1>4, <1>8, PlaceOnward
<1>10. Onward(c.x, m.x) BY <1>6, <1>7, <1>9, OnwardOn
<1>11. Onward(xs, m.x) BY <1>5, <1>10, OnwardOn
<1> DEFINE s == IF m.ok THEN "Closed" ELSE t.st
           v == [t EXCEPT !.stop = 0, !.tp1 = 0, !.st = s]
<1>12. o.t = v /\ o.x = m.x BY <1>3
<1>13. Edited(t, v, s, t.entry, 0, 0, t.exec)
  <2>1. PICK a : a = 0 OBVIOUS
  <2> HIDE DEF s
  <2>2. Edited(t, [t EXCEPT !.stop = a, !.tp1 = a, !.st = s], s, t.entry, a, a, t.exec)
    BY <1>4, Edits, Zenon
  <2> QED BY <2>1, <2>2
<1>14. s = "Closed" BY <1>9
<1> HIDE DEF s, v, Ended
<1>15. Follows(t, v) BY <1>13, <1>14 DEF Follows, Edited
<1> QED BY <1>11, <1>12, <1>15

LEMMA OnOpenUpdateOnward ==
    ASSUME NEW xs, Calm(xs), NEW t, TradeOK(t, xs.orders), t.st # "Closed",
           NEW u, NEW role, NEW o \in OnOpenUpdate(t, role, u, xs)
    PROVE  Onward(xs, o.x) /\ Follows(t, o.t)
<1>0. ExchangeOK(xs) BY CalmIs
<1>1. CASE role # "entry" \/ u.filled = 0
  <2>1. o = Outcome(t, xs) BY <1>1 DEF OnOpenUpdate
  <2>2. o.x = xs /\ o.t = t BY <2>1, OutcomeIs
  <2>3. Follows(t, t) BY DEF Follows
  <2> QED BY <2>2, <2>3, OnwardSame
<1>2. CASE ~(role # "entry" \/ u.filled = 0)
  <2> DEFINE w == [t EXCEPT !.st = "Open", !.old = FALSE]
             Add(p) == [p EXCEPT !.t = [p.t EXCEPT !.exec = @ + u.filled]]
  <2>1. PICK p \in IF t.st = "Open" THEN {Outcome(t, xs)} ELSE PlaceStops(w, xs) : o = Add(p)
    BY <1>2 DEF OnOpenUpdate
  <2>2. TradeShape(t) BY DEF TradeOK
  <2>3. Edited(t, w, "Open", t.entry, t.stop, t.tp1, t.exec)
    <3>1. PICK b : b = FALSE OBVIOUS
    <3>2. PICK a : a = "Open" OBVIOUS
    <3>3. Edited(t, [t EXCEPT !.st = a, !.old = b], a, t.entry, t.stop, t.tp1, t.exec)
      BY <2>2, Edits, Zenon
    <3> QED BY <3>1, <3>2, <3>3
  <2> HIDE DEF w
  <2>4. /\ Onward(xs, p.x) /\ OutcomeShape(p) /\ TradeShape(p.t)
        /\ p.t.uid = t.uid /\ p.t.entry = t.entry /\ p.t.st = "Open"
    <3>1. CASE t.st = "Open"
      <4>1. p = Outcome(t, xs) BY <2>1, <3>1
      <4>2. p.x = xs /\ p.t = t BY <4>1, OutcomeIs
      <4>3. OutcomeShape(p) BY <4>1 DEF Outcome, OutcomeShape
      <4> QED BY <2>2, <3>1, <4>2, <4>3, OnwardSame
    <3>2. CASE t.st # "Open"
      <4>1. p \in PlaceStops(w, xs) BY <2>1, <3>2
      <4>2. TradeOK(w, xs.orders) BY <2>3 DEF TradeOK, Edited, States
      <4>3. StopsOK(p, w, xs) BY <1>0, <4>1, <4>2, PlaceStopsOK
      <4>4. Onward(xs, p.x) BY <4>1, <4>2, PlaceStopsOnward
      <4> QED BY <2>3, <4>3, <4>4 DEF StopsOK, Same, Edited, TradeOK
    <3> QED BY <3>1, <3>2
  <2> DEFINE n == p.t.exec + u.filled
             v == [p.t EXCEPT !.exec = n]
  <2>5. o = [t |-> v, x |-> p.x, rec |-> p.rec, bad |-> p.bad]
    <3>1. p = [t |-> p.t, x |-> p.x, rec |-> p.rec, bad |-> p.bad] BY <2>4 DEF OutcomeShape
    <3>2. \A a : [p EXCEPT !.t = a] = [t |-> a, x |-> p.x, rec |-> p.rec, bad |-> p.bad]
      BY <3>1
    <3>3. o = [p EXCEPT !.t = v] BY <2>1
    <3> QED BY <3>2, <3>3
  <2>6. Edited(p.t, v, p.t.st, p.t.entry, p.t.stop, p.t.tp1, n)
    <3> HIDE DEF n
    <3> QED BY <2>4, Edit
  <2> HIDE DEF n, v, Add
  <2>7. o.t = v /\ o.x = p.x BY <2>5
  <2>8. Follows(t, v) BY <2>4, <2>6 DEF Edited, Follows
  <2> QED BY <2>4, <2>7, <2>8
<1> QED BY <1>1, <1>2

LEMMA OnEntryFilledOnward ==
    ASSUME NEW xs, Calm(xs), NEW t, TradeOK(t, xs.orders),
           NEW u, UpdateOK(u, xs.orders), u.status = "Closed", u.filled # 0, t.entry = u.id,
           NEW slipped, NEW o \in OnEntryFilled(t, u, slipped, xs)
    PROVE  Onward(xs, o.x) /\ o.t.uid = t.uid /\ o.t.entry = t.entry
<1> DEFINE w == [t EXCEPT !.st = "Open", !.exec = u.filled, !.old = FALSE]
<1>0. ExchangeOK(xs) BY CalmIs
<1>1. TradeShape(t) /\ t.uid \in Uids BY DEF TradeOK
<1>2. u.id \in 1..Len(xs.orders) /\ u.id # 0 /\ xs.orders[u.id].filled # 0
  <2>1. u.id \in 1..Len(xs.orders) /\ u.filled = xs.orders[u.id].filled BY DEF UpdateOK
  <2> QED BY <2>1
<1>3. Edited(t, w, "Open", t.entry, t.stop, t.tp1, u.filled)
  <2>1. PICK b : b = FALSE BY Zenon
  <2>2. PICK a : a = "Open" OBVIOUS
  <2>3. Edited(t, [t EXCEPT !.st = a, !.exec = u.filled, !.old = b],
               a, t.entry, t.stop, t.tp1, u.filled)
    BY <1>1, Edits, Zenon
  <2> QED BY <2>1, <2>2, <2>3
<1> HIDE DEF w
<1>4. TradeOK(w, xs.orders) /\ w.uid = t.uid /\ w.entry = t.entry /\ TradeShape(w)
  BY <1>2, <1>3 DEF TradeOK, Edited, States
<1>5. CASE slipped
  <2> DEFINE End(m) == IF m.ok THEN [w EXCEPT !.st = "EmergencyClosing"] ELSE w
             Out(m) == [Outcome(End(m), m.x) EXCEPT !.bad = ~m.ok]
  <2>1. PICK m \in Place(xs, t.uid, "close", u.filled) : o = Out(m)
    BY <1>5 DEF OnEntryFilled, w
  <2>2. Onward(xs, m.x) /\ m.ok BY <1>1, PlaceOnward
  <2> DEFINE v == End(m)
             q == Outcome(v, m.x)
  <2>3. v.uid = t.uid /\ v.entry = t.entry
    <3>1. v = [w EXCEPT !.st = "EmergencyClosing"] BY <2>2
    <3>2. PICK a : a = "EmergencyClosing" OBVIOUS
    <3>3. Edited(w, [w EXCEPT !.st = a], a, w.entry, w.stop, w.tp1, w.exec) BY <1>4, Edit
    <3> HIDE DEF v
    <3>4. Edited(w, v, "EmergencyClosing", w.entry, w.stop, w.tp1, w.exec)
      BY <3>1, <3>2, <3>3
    <3> QED BY <1>4, <3>4 DEF Edited
  <2> HIDE DEF v
  <2>4. o.t = v /\ o.x = m.x
    <3>1. q = [t |-> v, x |-> m.x, rec |-> <<>>, bad |-> FALSE] BY DEF Outcome
    <3>2. \A b : [q EXCEPT !.bad = b] = [t |-> v, x |-> m.x, rec |-> <<>>, bad |-> b]
      BY <3>1
    <3>3. o = [q EXCEPT !.bad = ~m.ok] BY <2>1 DEF v
    <3> HIDE DEF q
    <3>4. PICK b : b = ~m.ok OBVIOUS
    <3>5. o = [t |-> v, x |-> m.x, rec |-> <<>>, bad |-> b] BY <3>2, <3>3, <3>4
    <3> QED BY <3>5
  <2> QED BY <2>2, <2>3, <2>4
<1>6. CASE ~slipped
  <2>1. o \in PlaceStops(w, xs) BY <1>6 DEF OnEntryFilled, w
  <2>2. StopsOK(o, w, xs) BY <1>0, <1>4, <2>1, PlaceStopsOK
  <2>3. Onward(xs, o.x) BY <1>4, <2>1, PlaceStopsOnward
  <2> QED BY <1>4, <2>2, <2>3 DEF StopsOK, Same
<1> QED BY <1>5, <1>6

LEMMA OnTp1FilledOnward ==
    ASSUME NEW xs, Calm(xs), NEW t, TradeOK(t, xs.orders), t.st # "Closed",
           NEW u, NEW o \in OnTp1Filled(t, u, xs)
    PROVE  Onward(xs, o.x) /\ Follows(t, o.t)
<1> DEFINE w == [t EXCEPT !.tp1_filled = TRUE, !.stop = 0]
           rest == IF t.exec > u.filled THEN t.exec - u.filled ELSE 0
           Even(c) == UNION {IF be.ok THEN {Outcome(w, be.x)} ELSE EmergencyClose(w, be.x) :
                             be \in Place(c.x, t.uid, "be", rest)}
<1>1. /\ t.uid \in Uids /\ TradeShape(t)
      /\ t.stop # 0 => t.stop \in 1..Len(xs.orders)
  BY DEF TradeOK
<1>2. PICK c \in CancelIfAny(xs, t.stop) :
           o \in IF rest = 0 \/ ~t.fix THEN {Outcome(w, c.x)} ELSE Even(c)
  BY DEF OnTp1Filled
<1>3. Onward(xs, c.x) BY <1>1, CancelOnward
<1>4. Edited(t, w, t.st, t.entry, 0, t.tp1, t.exec)
  <2>1. PICK b : b = TRUE OBVIOUS
  <2>2. PICK a : a = 0 OBVIOUS
  <2>3. Edited(t, [t EXCEPT !.tp1_filled = b, !.stop = a], t.st, t.entry, a, t.tp1, t.exec)
    BY <1>1, Edits, Zenon
  <2> QED BY <2>1, <2>2, <2>3
<1> HIDE DEF w, rest
<1>5. Follows(t, w) BY <1>4 DEF Follows, Edited
<1>6. CASE o = Outcome(w, c.x)
  <2>1. o.t = w /\ o.x = c.x BY <1>6, OutcomeIs
  <2> QED BY <1>3, <1>5, <2>1
<1>7. CASE o \in Even(c)
  <2>1. PICK be \in Place(c.x, t.uid, "be", rest) :
             o \in IF be.ok THEN {Outcome(w, be.x)} ELSE EmergencyClose(w, be.x)
    BY <1>7
  <2> HIDE DEF Even
  <2>2. Calm(c.x) BY <1>3 DEF Onward
  <2>3. be.ok /\ Onward(c.x, be.x) BY <1>1, <2>2, PlaceOnward
  <2>4. o = Outcome(w, be.x) BY <2>1, <2>3
  <2>5. o.t = w /\ o.x = be.x BY <2>4, OutcomeIs
  <2>6. Onward(xs, be.x) BY <1>3, <2>3, OnwardOn
  <2> QED BY <1>5, <2>5, <2>6
<1> QED BY <1>2, <1>6, <1>7

LEMMA OnClosedUpdateOnward ==
    ASSUME NEW xs, Calm(xs), NEW t, TradeOK(t, xs.orders),
           t.st # "Closed", t.st # "EmergencyClosing",
           NEW u, UpdateOK(u, xs.orders), u.status = "Closed",
           NEW role, role = "entry" => t.entry = u.id,
           NEW slipped, NEW o \in OnClosedUpdate(t, role, u, slipped, xs)
    PROVE  /\ Onward(xs, o.x) /\ o.t.uid = t.uid /\ o.t.entry = t.entry
           /\ o.t.st = "EmergencyClosing" => role = "entry"
<1> DEFINE w == [t EXCEPT !.st = "Closed"]
<1>1. TradeShape(t) BY DEF TradeOK
<1>2. Edited(t, w, "Closed", t.entry, t.stop, t.tp1, t.exec)
  <2>1. PICK a : a = "Closed" OBVIOUS
  <2>2. Edited(t, [t EXCEPT !.st = a], a, t.entry, t.stop, t.tp1, t.exec) BY <1>1, Edit
  <2> QED BY <2>1, <2>2
<1> HIDE DEF w
<1>3. w.uid = t.uid /\ w.entry = t.entry /\ w.st = "Closed" BY <1>2 DEF Edited
<1>4. CASE u.filled = 0
  <2> DEFINE v == OnZeroFill(t, role)
  <2>1. o = Outcome(v, xs) BY <1>4 DEF OnClosedUpdate
  <2>2. v = w \/ v = t BY DEF OnZeroFill, w
  <2> HIDE DEF v
  <2>3. o.x = xs /\ o.t = v BY <2>1, OutcomeIs
  <2> QED BY <1>3, <2>2, <2>3, OnwardSame
<1>5. CASE u.filled # 0 /\ role = "entry"
  <2>1. o \in OnEntryFilled(t, u, slipped, xs) BY <1>5 DEF OnClosedUpdate
  <2> QED BY <1>5, <2>1, OnEntryFilledOnward
<1>6. CASE u.filled # 0 /\ role = "tp1" /\ ~t.tp1_filled
  <2>1. o \in OnTp1Filled(t, u, xs) BY <1>6 DEF OnClosedUpdate
  <2>2. Onward(xs, o.x) /\ Follows(t, o.t) BY <2>1, OnTp1FilledOnward
  <2> QED BY <2>2 DEF Follows
<1>7. CASE u.filled # 0 /\ role # "entry" /\ ~(role = "tp1" /\ ~t.tp1_filled)
  <2>1. o = [t |-> w, x |-> xs, rec |-> <<t.uid>>, bad |-> FALSE]
    BY <1>7 DEF OnClosedUpdate, w
  <2>2. o.t = w /\ o.x = xs BY <2>1
  <2> QED BY <1>3, <2>2, OnwardSame
<1> QED BY <1>4, <1>5, <1>6, <1>7

LEMMA HandledOnward ==
    ASSUME NEW loop \in {"rearm", "close"}, NEW xs, Calm(xs),
           NEW t, TradeOK(t, xs.orders), NEW o \in Handled(loop, t, xs)
    PROVE  Onward(xs, o.x) /\ Follows(t, o.t)
<1>0. ExchangeOK(xs) BY CalmIs
<1>1. CASE loop = "rearm" /\ NeedsStop(t)
  <2>1. o \in PlaceStops(t, xs) BY <1>1 DEF Handled
  <2>2. StopsOK(o, t, xs) BY <1>0, <2>1, PlaceStopsOK
  <2>3. Onward(xs, o.x) BY <2>1, PlaceStopsOnward
  <2> QED BY <2>2, <2>3 DEF StopsOK, Same, Follows
<1>2. CASE loop = "close" /\ t.st = "Open" /\ t.exec > 0
  <2>1. o \in EmergencyClose(t, xs) BY <1>2 DEF Handled
  <2>2. t.st # "Closed" BY <1>2
  <2> QED BY <2>1, <2>2, EmergencyCloseOnward
<1>3. CASE ~(loop = "rearm" /\ NeedsStop(t)) /\ ~(loop = "close" /\ t.st = "Open" /\ t.exec > 0)
  <2>1. o = Outcome(t, xs) BY <1>3 DEF Handled
  <2>2. o.t = t /\ o.x = xs BY <2>1, OutcomeIs
  <2>3. Follows(t, t) BY DEF Follows
  <2> QED BY <2>2, <2>3, OnwardSame
<1> QED BY <1>1, <1>2, <1>3

\* The trades of a list, each followed by one of the later list.
ListFollows(list, later) ==
    /\ Len(later) = Len(list) /\ Len(list) \in Nat
    /\ \A i \in 1..Len(list) : Follows(list[i], later[i])

LEMMA ForEachOnward ==
    ASSUME NEW loop \in {"rearm", "close"}, NEW xs, Calm(xs), NEW tk, NEW list,
           ListOK(list, tk, xs.orders), NEW a \in ForEach(loop, list, xs)
    PROVE  Onward(xs, a.x) /\ ListFollows(list, a.list)
<1> DEFINE N == Len(list)
           first == [list |-> <<>>, x |-> xs, rec |-> <<>>, bad |-> {}]
           Sound(b, n) == /\ AfterOK(b, n, loop, list, xs) /\ Onward(xs, b.x)
                          /\ \A i \in 1..n : Follows(list[i], b.list[i])
<1>0. ExchangeOK(xs) BY CalmIs
<1>1. IsList(list) /\ N \in Nat BY DEF ListOK, IsList
<1>2. PICK f : Turns(f, N, loop, list, xs) /\ ForEach(loop, list, xs) = f[N]
  BY <1>1, ForEachIs
<1>3. f = [m \in 0..N |-> IF m = 0 THEN {first} ELSE Turn(loop, list[m], f[m - 1])]
  BY <1>2 DEF Turns
<1>4. first.list = <<>> /\ first.x = xs /\ first.rec = <<>> /\ first.bad = {} OBVIOUS
<1> HIDE DEF first, N
<1> DEFINE P == {n \in Nat : n <= N => \A b \in f[n] : Sound(b, n)}
<1>5. 0 \in P
  <2>1. f[0] = {first}
    <3>1. 0 \in 0..N BY <1>1
    <3> QED BY <1>3, <3>1
  <2>2. AfterOK(first, 0, loop, list, xs)
    <3>1. Grows(xs.orders, xs.orders) BY <1>0, NoCalls
    <3>2. \A u \in Uids : Times(u, <<>>) = 0 BY TimesEmpty
    <3>3. 1..0 = {} OBVIOUS
    <3>4. IsList(<<>>) /\ Len(<<>>) = 0 BY ListEmpty
    <3>5. ExchangeOK(first.x) /\ Grows(xs.orders, first.x.orders) BY <1>0, <1>4, <3>1
    <3>6. /\ IsList(first.list) /\ Len(first.list) = 0 /\ IsList(first.rec)
          /\ \A k \in 1..Len(first.rec) : first.rec[k] \in Uids
      BY <1>4, <3>3, <3>4
    <3>7. \A u \in Uids : Times(u, first.rec) = 0 BY <1>4, <3>2
    <3> QED BY <1>4, <3>3, <3>5, <3>6, <3>7 DEF AfterOK
  <2>3. Onward(xs, first.x) BY <1>4, OnwardSame
  <2>4. 1..0 = {} OBVIOUS
  <2>5. Sound(first, 0) BY <2>2, <2>3, <2>4
  <2> HIDE DEF Sound
  <2> QED BY <2>1, <2>5
<1>6. ASSUME NEW n \in Nat, n \in P PROVE n + 1 \in P
  <2> SUFFICES ASSUME n + 1 <= N, NEW b \in f[n + 1] PROVE Sound(b, n + 1)
    OBVIOUS
  <2>1. n <= N /\ n + 1 \in 0..N /\ n + 1 # 0 /\ (n + 1) - 1 = n /\ n + 1 \in 1..N
    BY <1>1
  <2>2. \A b2 \in f[n] : Sound(b2, n) BY <1>6, <2>1
  <2> HIDE DEF Sound
  <2>3. f[n + 1] = Turn(loop, list[n + 1], f[n]) BY <1>3, <2>1
  <2> DEFINE t == list[n + 1]
  <2>4. b \in Turn(loop, t, f[n]) BY <2>3
  <2>5. PICK a1 \in f[n] : b \in {[list |-> Append(a1.list, o.t), x |-> o.x,
                                  rec |-> a1.rec \o o.rec,
                                  bad |-> a1.bad \union (IF o.bad THEN {t.uid} ELSE {})] :
                                    o \in Handled(loop, t, a1.x)}
    <3> HIDE DEF t
    <3> QED BY <2>4 DEF Turn
  <2>6. PICK o \in Handled(loop, t, a1.x) : b = TurnOf(a1, o, t)
    <3> HIDE DEF t
    <3> QED BY <2>5 DEF TurnOf, Wild
  <2>7. Sound(a1, n) BY <2>2
  <2>8. /\ AfterOK(a1, n, loop, list, xs) /\ Onward(xs, a1.x)
        /\ \A i \in 1..n : Follows(list[i], a1.list[i])
    BY <2>7 DEF Sound
  <2>9. AfterOK(b, n + 1, loop, list, xs)
    <3>1. n + 1 <= Len(list) BY DEF N
    <3> QED BY <1>0, <2>6, <2>8, <3>1, TurnsOK
  <2>10. TradeOK(t, a1.x.orders)
    <3>1. TradeOK(t, xs.orders) BY <2>1 DEF ListOK, N
    <3>2. ExchangeOK(a1.x) /\ Grows(xs.orders, a1.x.orders) BY <2>8 DEF AfterOK
    <3> QED BY <1>0, <3>1, <3>2, TradeThrough
  <2>11. Calm(a1.x) BY <2>8 DEF Onward
  <2>12. Onward(a1.x, o.x) /\ Follows(t, o.t) BY <2>6, <2>10, <2>11, HandledOnward
  <2>13. Onward(xs, o.x) BY <2>8, <2>11, <2>12, OnwardOn
  <2>14. b.list = Append(a1.list, o.t) /\ b.x = o.x BY <2>6 DEF TurnOf
  <2>15. IsList(a1.list) /\ Len(a1.list) = n BY <2>8 DEF AfterOK
  <2>16. b.list[n + 1] = o.t /\ \A i \in 1..n : b.list[i] = a1.list[i]
    BY <2>14, <2>15, ListAppend
  <2>17. ASSUME NEW i \in 1..n + 1 PROVE Follows(list[i], b.list[i])
    <3>1. CASE i \in 1..n BY <2>8, <2>16, <3>1
    <3>2. CASE i = n + 1 BY <2>12, <2>16, <3>2
    <3> QED BY <3>1, <3>2
  <2>18. Onward(xs, b.x) BY <2>13, <2>14
  <2> QED BY <2>9, <2>17, <2>18 DEF Sound
<1> HIDE DEF P
<1>7. Nat \subseteq P BY <1>5, <1>6, SetInduction
<1>8. N \in P BY <1>1, <1>7
<1>9. Sound(a, N)
  <2>1. N <= N BY <1>1
  <2> HIDE DEF Sound
  <2> QED BY <1>2, <1>8, <2>1 DEF P
<1>10. Len(a.list) = N BY <1>9 DEF AfterOK
<1> QED BY <1>1, <1>9, <1>10 DEF ListFollows, N

-----------------------------------------------------------------------------
(* The steps that keep the claims, when no call fails.                       *)

\* Nothing is to be reconciled.
CalmInv == Calm(x) /\ unknown = None /\ result = None

TradesFollow(ts, later) == \A tk \in Tickers : ListFollows(ts[tk], later[tk])

\* The exchange goes on, and the trades keep who they are and what they claimed.
Keeps ==
    Onward(x, x') /\ TradesFollow(trades, trades') /\ unknown' = None /\ result' = None

LEMMA ListKnown ==
    ASSUME ExecInv, NEW tk \in Tickers
    PROVE  /\ ListOK(trades[tk], tk, x.orders) /\ IsList(trades[tk]) /\ Len(trades[tk]) \in Nat
           /\ DOMAIN trades[tk] = 1..Len(trades[tk])
<1>1. ListOK(trades[tk], tk, x.orders) BY DEF ExecInv, TradesOK
<1>2. IsList(trades[tk]) BY <1>1 DEF ListOK
<1>3. Len(trades[tk]) \in Nat BY <1>2 DEF IsList
<1> QED BY <1>1, <1>2, <1>3, ListIs

LEMMA FollowsSame == ASSUME NEW t PROVE Follows(t, t)
BY DEF Follows

LEMMA TradesStay == ASSUME ExecInv PROVE TradesFollow(trades, trades)
<1> SUFFICES ASSUME NEW tk \in Tickers PROVE ListFollows(trades[tk], trades[tk])
  BY DEF TradesFollow
<1>1. Len(trades[tk]) \in Nat BY ListKnown
<1> QED BY <1>1, FollowsSame DEF ListFollows

LEMMA OneTicker ==
    ASSUME ExecInv, NEW a \in Tickers, NEW list, trades' = [trades EXCEPT ![a] = list],
           ListFollows(trades[a], list)
    PROVE  TradesFollow(trades, trades')
<1>1. trades = [tk \in Tickers |-> trades[tk]] BY DEF ExecInv
<1>2. trades'[a] = list /\ \A tk \in Tickers : tk # a => trades'[tk] = trades[tk]
  BY <1>1
<1>3. ASSUME NEW tk \in Tickers PROVE ListFollows(trades[tk], trades'[tk])
  <2>1. CASE tk = a BY <1>2, <2>1
  <2>2. CASE tk # a
    <3>1. trades'[tk] = trades[tk] BY <1>2, <2>2
    <3> QED BY <3>1, TradesStay DEF TradesFollow
  <2> QED BY <2>1, <2>2
<1> QED BY <1>3 DEF TradesFollow

LEMMA ExchangeKeeps ==
    ASSUME ExecInv, CalmInv, Onward(x, x'), UNCHANGED <<trades, unknown, result>>
    PROVE  Keeps
<1>1. TradesFollow(trades, trades') BY TradesStay
<1> QED BY <1>1 DEF Keeps, CalmInv

LEMMA ExchangeRests == ASSUME CalmInv, UNCHANGED x PROVE Onward(x, x')
BY OnwardSame DEF CalmInv

LEMMA SubmitBeginKeeps == ASSUME ExecInv, CalmInv, NEW u, SubmitBegin(u) PROVE Keeps
<1>1. UNCHANGED <<trades, unknown, result, x>> BY DEF SubmitBegin
<1>2. Onward(x, x') BY <1>1, ExchangeRests
<1> QED BY <1>1, <1>2, ExchangeKeeps

LEMMA PostArrivesKeeps ==
    ASSUME ExecInv, CalmInv, NEW u \in Uids, PostArrives(u) PROVE Keeps
<1>1. /\ UNCHANGED <<trades, unknown, result>>
      /\ x' = Accept(x, u, "entry", Plans[u].size)
  BY DEF PostArrives
<1> DEFINE size == Plans[u].size
<1>2. size \in Nat \ {0} BY PlanIs
<1> HIDE DEF size
<1>3. Calm(x) BY DEF CalmInv
<1>4. LET ys == Accept(x, u, "entry", size) IN Onward(x, ys) BY <1>2, <1>3, AcceptOnward
<1>5. Onward(x, x') BY <1>1, <1>4 DEF size
<1> QED BY <1>1, <1>5, ExchangeKeeps

\* A trade gets one of its marks set, or another state.
LEMMA MarkFollows ==
    ASSUME NEW t, TradeShape(t), NEW a
    PROVE  /\ Follows(t, [t EXCEPT !.fix = a]) /\ Follows(t, [t EXCEPT !.old = a])
           /\ [t EXCEPT !.st = a].uid = t.uid /\ [t EXCEPT !.st = a].entry = t.entry
           /\ [t EXCEPT !.st = a].st = a
<1> DEFINE v1 == [t EXCEPT !.fix = a]
           v2 == [t EXCEPT !.old = a]
           v3 == [t EXCEPT !.st = a]
<1>1. /\ Edited(t, v1, t.st, t.entry, t.stop, t.tp1, t.exec)
      /\ Edited(t, v2, t.st, t.entry, t.stop, t.tp1, t.exec)
      /\ Edited(t, v3, a, t.entry, t.stop, t.tp1, t.exec)
  BY Edit
<1> HIDE DEF v1, v2, v3
<1>2. /\ Follows(t, v1) /\ Follows(t, v2)
      /\ v3.uid = t.uid /\ v3.entry = t.entry /\ v3.st = a
  BY <1>1 DEF Edited, Follows
<1> QED BY <1>2 DEF v1, v2, v3

LEMMA OnPositionUpdateKeeps ==
    ASSUME ExecInv, CalmInv, NEW tk \in Tickers, NEW side, OnPositionUpdate(tk, side)
    PROVE  Keeps
<1> DEFINE s == trades[tk]
           e == Exposure(x.orders, tk, side) > 0
           list == [i \in DOMAIN s |-> IF s[i].st # "Closed" /\ Plans[s[i].uid].side = side
                                       THEN [s[i] EXCEPT !.fix = e] ELSE s[i]]
<1>1. trades' = [trades EXCEPT ![tk] = list] BY DEF OnPositionUpdate
<1>2. ListOK(s, tk, x.orders) /\ IsList(s) /\ Len(s) \in Nat /\ DOMAIN s = 1..Len(s)
  BY ListKnown
<1> HIDE DEF s, e
<1>3. Len(list) = Len(s)
  <2>1. list = [i \in DOMAIN s |-> list[i]] OBVIOUS
  <2> HIDE DEF list
  <2> QED BY <1>2, <2>1, ListMapped
<1>4. ASSUME NEW i \in 1..Len(s) PROVE Follows(s[i], list[i])
  <2> DEFINE t == s[i]
  <2>1. TradeShape(t) BY <1>2 DEF ListOK, TradeOK
  <2>2. list[i] = t \/ list[i] = [t EXCEPT !.fix = e] BY <1>2
  <2> HIDE DEF t, list
  <2>3. Follows(t, t) /\ Follows(t, [t EXCEPT !.fix = e]) BY <2>1, MarkFollows, FollowsSame
  <2> QED BY <2>2, <2>3 DEF t
<1> HIDE DEF list
<1>5. ListFollows(s, list) BY <1>2, <1>3, <1>4 DEF ListFollows
<1>6. TradesFollow(trades, trades') BY <1>1, <1>5, OneTicker DEF s
<1>7. UNCHANGED <<x, unknown, result>> BY DEF OnPositionUpdate
<1>8. Onward(x, x') BY <1>7, ExchangeRests
<1> QED BY <1>6, <1>7, <1>8 DEF Keeps, CalmInv

LEMMA TimePassesKeeps ==
    ASSUME ExecInv, CalmInv, NEW tk \in Tickers, TimePasses(tk) PROVE Keeps
<1> DEFINE s == trades[tk]
           list == [i \in DOMAIN s |-> IF s[i].st = "Open" THEN [s[i] EXCEPT !.old = TRUE]
                                       ELSE s[i]]
<1>1. trades' = [trades EXCEPT ![tk] = list] BY DEF TimePasses
<1>2. ListOK(s, tk, x.orders) /\ IsList(s) /\ Len(s) \in Nat /\ DOMAIN s = 1..Len(s)
  BY ListKnown
<1> HIDE DEF s
<1>3. Len(list) = Len(s)
  <2>1. list = [i \in DOMAIN s |-> list[i]] OBVIOUS
  <2> HIDE DEF list
  <2> QED BY <1>2, <2>1, ListMapped
<1>4. ASSUME NEW i \in 1..Len(s) PROVE Follows(s[i], list[i])
  <2> DEFINE t == s[i]
  <2>1. TradeShape(t) BY <1>2 DEF ListOK, TradeOK
  <2>2. list[i] = t \/ list[i] = [t EXCEPT !.old = TRUE] BY <1>2
  <2> HIDE DEF t, list
  <2>3. PICK a : a = TRUE OBVIOUS
  <2>4. Follows(t, t) /\ Follows(t, [t EXCEPT !.old = a]) BY <2>1, MarkFollows, FollowsSame
  <2> QED BY <2>2, <2>3, <2>4 DEF t
<1> HIDE DEF list
<1>5. ListFollows(s, list) BY <1>2, <1>3, <1>4 DEF ListFollows
<1>6. TradesFollow(trades, trades') BY <1>1, <1>5, OneTicker DEF s
<1>7. UNCHANGED <<x, unknown, result>> BY DEF TimePasses
<1>8. Onward(x, x') BY <1>7, ExchangeRests
<1> QED BY <1>6, <1>7, <1>8 DEF Keeps, CalmInv

LEMMA LoopKeeps ==
    ASSUME ExecInv, CalmInv, NEW tk \in Tickers, NEW loop \in {"rearm", "close"},
           NEW o \in ForEach(loop, trades[tk], x), x' = o.x,
           trades' = [trades EXCEPT ![tk] = o.list], UNCHANGED <<unknown, result>>
    PROVE  Keeps
<1>1. ListOK(trades[tk], tk, x.orders) BY ListKnown
<1>2. Calm(x) BY DEF CalmInv
<1>3. Onward(x, o.x) /\ ListFollows(trades[tk], o.list) BY <1>1, <1>2, ForEachOnward
<1>4. TradesFollow(trades, trades') BY <1>3, OneTicker
<1> QED BY <1>3, <1>4 DEF Keeps, CalmInv

LEMMA TickRearmKeeps ==
    ASSUME ExecInv, CalmInv, NEW tk \in Tickers, TickRearm(tk) PROVE Keeps
<1>1. PICK o \in ForEach("rearm", trades[tk], x) :
         trades' = [trades EXCEPT ![tk] = o.list] /\ x' = o.x
  BY DEF TickRearm
<1>2. UNCHANGED <<unknown, result>> BY DEF TickRearm
<1> QED BY <1>1, <1>2, LoopKeeps

LEMMA CloseTradeKeeps ==
    ASSUME ExecInv, CalmInv, NEW tk \in Tickers, CloseTrade(tk) PROVE Keeps
<1>1. PICK o \in ForEach("close", trades[tk], x) :
         trades' = [trades EXCEPT ![tk] = o.list] /\ x' = o.x
  BY DEF CloseTrade
<1>2. UNCHANGED <<unknown, result>> BY DEF CloseTrade
<1> QED BY <1>1, <1>2, LoopKeeps

LEMMA CancelAllKeeps ==
    ASSUME ExecInv, CalmInv, NEW tk \in Tickers, CancelAll(tk) PROVE Keeps
<1> DEFINE live == {i \in DOMAIN x.orders : x.orders[i].live /\ OrderTicker(x.orders[i]) = tk}
           gone == DropAll(x, live)
           s == trades[tk]
           hit == {i \in DOMAIN s : s[i].st # "Closed"}
           list == [i \in DOMAIN s |-> IF i \in hit THEN [s[i] EXCEPT !.st = "Cancelling"]
                                       ELSE s[i]]
<1>1. Calm(x) /\ IsList(x.orders) /\ x.faults = 0
  <2>1. Calm(x) BY DEF CalmInv
  <2> QED BY <2>1, CalmIs
<1>2. live \subseteq 1..Len(x.orders) /\ \A id \in live : x.orders[id].live BY <1>1, ListIs
<1>3. /\ UNCHANGED <<unknown, result>>
      /\ \/ x' = gone /\ trades' = [trades EXCEPT ![tk] = list]
         \/ x.faults > 0
  BY DEF CancelAll
<1>4. x' = gone /\ trades' = [trades EXCEPT ![tk] = list]
  <2>1. ~(x.faults > 0) BY <1>1
  <2> QED BY <1>3, <2>1
<1> HIDE DEF live, s
<1>5. Onward(x, x') BY <1>1, <1>2, <1>4, DropAllOnward
<1>6. ListOK(s, tk, x.orders) /\ IsList(s) /\ Len(s) \in Nat /\ DOMAIN s = 1..Len(s)
  BY ListKnown DEF s
<1>7. Len(list) = Len(s)
  <2>1. list = [i \in DOMAIN s |-> list[i]] OBVIOUS
  <2> HIDE DEF list
  <2> QED BY <1>6, <2>1, ListMapped
<1>8. ASSUME NEW i \in 1..Len(s) PROVE Follows(s[i], list[i])
  <2> DEFINE t == s[i]
  <2>1. TradeShape(t) BY <1>6 DEF ListOK, TradeOK
  <2>2. list[i] = t \/ (list[i] = [t EXCEPT !.st = "Cancelling"] /\ t.st # "Closed") BY <1>6
  <2> HIDE DEF t, list
  <2>3. PICK a : a = "Cancelling" OBVIOUS
  <2> DEFINE v == [t EXCEPT !.st = a]
  <2>4. v.uid = t.uid /\ v.entry = t.entry /\ v.st = a BY <2>1, MarkFollows
  <2> HIDE DEF v
  <2>5. t.st # "Closed" => Follows(t, v) BY <2>3, <2>4 DEF Follows
  <2>6. list[i] = t \/ (list[i] = v /\ t.st # "Closed") BY <2>2, <2>3 DEF v
  <2>7. Follows(t, list[i]) BY <2>5, <2>6, FollowsSame
  <2> QED BY <2>7 DEF t
<1> HIDE DEF list
<1>9. ListFollows(s, list) BY <1>6, <1>7, <1>8 DEF ListFollows
<1>10. TradesFollow(trades, trades') BY <1>4, <1>9, OneTicker DEF s
<1> QED BY <1>3, <1>5, <1>10 DEF Keeps, CalmInv

LEMMA TickCloseKeeps == ASSUME ExecInv, CalmInv, TickClose PROVE Keeps
<1> DEFINE a == Head(acts)
<1>1. Calm(x) BY DEF CalmInv
<1>2. /\ a.uid \in Uids
      /\ a.stop # 0 => a.stop \in 1..Len(x.orders)
      /\ a.tp1 # 0 => a.tp1 \in 1..Len(x.orders)
  <2>1. acts # <<>>
    BY DEF TickClose, TickCancelStop, TickCancelTp, TickCloseMarket, TickRecord
  <2> QED BY <2>1, HeadIs
<1>3. UNCHANGED <<trades, unknown, result>>
  BY DEF TickClose, TickCancelStop, TickCancelTp, TickCloseMarket, TickRecord
<1>4. Onward(x, x')
  <2>1. CASE TickCancelStop
    <3>1. PICK c \in Cancel(x, a.stop) : x' = c.x /\ a.stop # 0 BY <2>1 DEF TickCancelStop
    <3> HIDE DEF a
    <3>2. c \in CancelIfAny(x, a.stop) BY <3>1 DEF CancelIfAny
    <3> QED BY <1>1, <1>2, <3>1, <3>2, CancelOnward
  <2>2. CASE TickCancelTp
    <3>1. PICK c \in Cancel(x, a.tp1) : x' = c.x /\ a.tp1 # 0 BY <2>2 DEF TickCancelTp
    <3> HIDE DEF a
    <3>2. c \in CancelIfAny(x, a.tp1) BY <3>1 DEF CancelIfAny
    <3> QED BY <1>1, <1>2, <3>1, <3>2, CancelOnward
  <2>3. CASE TickCloseMarket
    <3>1. PICK m \in Place(x, a.uid, "close", a.size) : x' = m.x BY <2>3 DEF TickCloseMarket
    <3> HIDE DEF a
    <3>2. "close" # "entry" OBVIOUS
    <3> QED BY <1>1, <1>2, <3>1, <3>2, PlaceOnward
  <2>4. CASE TickRecord BY <2>4, ExchangeRests DEF TickRecord
  <2> QED BY <2>1, <2>2, <2>3, <2>4 DEF TickClose
<1> QED BY <1>3, <1>4, ExchangeKeeps

LEMMA OrderKnown ==
    ASSUME CalmInv, NEW id \in DOMAIN x.orders
    PROVE  /\ Calm(x) /\ id \in 1..Len(x.orders) /\ OrderOK(x.orders[id])
<1>1. Calm(x) BY DEF CalmInv
<1>2. IsList(x.orders) /\ \A i \in 1..Len(x.orders) : OrderOK(x.orders[i]) BY <1>1, CalmIs
<1>3. DOMAIN x.orders = 1..Len(x.orders) BY <1>2, ListIs
<1> QED BY <1>1, <1>2, <1>3

LEMMA FilledThenDone ==
    ASSUME NEW xs, Calm(xs), NEW id \in 1..Len(xs.orders), xs.orders[id].live,
           NEW n, n # 0, xs.orders[id].role = "entry" => n \in Nat
    PROVE  Onward(xs, Drop(Filled(xs, id, n), id))
<1> DEFINE ys == Filled(xs, id, n)
<1>1. Onward(xs, ys) /\ Len(ys.orders) = Len(xs.orders) /\ ys.orders[id].live
  BY FilledOnward
<1> HIDE DEF ys
<1>2. Calm(ys) /\ id \in 1..Len(ys.orders) BY <1>1 DEF Onward
<1>3. Onward(ys, Drop(ys, id)) BY <1>1, <1>2, DropOnward
<1>4. Onward(xs, Drop(ys, id)) BY <1>1, <1>3, OnwardOn
<1> QED BY <1>4 DEF ys

LEMMA EntryFillsKeeps ==
    ASSUME ExecInv, CalmInv, NEW id \in DOMAIN x.orders, NEW n \in 1..x.orders[id].size,
           EntryFills(id, n), ExecInv'
    PROVE  Keeps
<1> DEFINE o == x.orders[id]
           part == Filled(x, id, o.filled + n)
           told == [part EXCEPT !.ws = Append(@, Update(id, "Open", n))]
<1>1. Calm(x) /\ id \in 1..Len(x.orders) /\ OrderOK(o) BY OrderKnown
<1>2. /\ UNCHANGED <<trades, unknown, result>> /\ o.live /\ o.role = "entry"
      /\ x' = IF o.filled + n < o.size THEN told ELSE Drop(Filled(x, id, o.size), id)
  BY DEF EntryFills
<1>3. o.filled \in Nat /\ o.size \in Nat \ {0} BY <1>1, <1>2 DEF OrderOK
<1>4. o.filled + n \in Nat /\ o.filled + n # 0
  <2> DEFINE f == o.filled
             z == o.size
  <2>1. f \in Nat /\ z \in Nat /\ n \in 1..z BY <1>3
  <2> HIDE DEF f, z
  <2>2. f + n \in Nat /\ f + n # 0 BY <2>1
  <2> QED BY <2>2 DEF f
<1>5. ExchangeOK(x') BY DEF ExecInv
<1>6. CASE o.filled + n < o.size
  <2> DEFINE k == o.filled + n
             m == Update(id, "Open", n)
  <2>1. k # 0 /\ k \in Nat BY <1>4
  <2>2. x' = told BY <1>2, <1>6
  <2> HIDE DEF k
  <2>3. LET ys == Filled(x, id, k)
        IN  Onward(x, ys) /\ Len(ys.orders) = Len(x.orders) /\ ys.orders[id].live
    BY <1>1, <1>2, <2>1, FilledOnward
  <2>4. Onward(x, part) /\ Len(part.orders) = Len(x.orders) /\ part.orders[id].live
    BY <2>3 DEF k
  <2> HIDE DEF o, part
  <2>5. Calm(part) BY <2>4 DEF Onward
  <2>6. /\ ExchangeOK(part) /\ part.faults = 0 /\ Len(part.orders) \in Nat
    BY <2>5, CalmIs
  <2>7. part = [orders |-> part.orders, ws |-> part.ws, faults |-> part.faults]
    BY <2>6 DEF ExchangeOK
  <2> HIDE DEF m
  <2>8. told = [orders |-> part.orders, ws |-> Append(part.ws, m), faults |-> part.faults]
    BY <2>7 DEF m
  <2> HIDE DEF told
  <2>9. x'.orders = part.orders /\ x'.ws = Append(part.ws, m) /\ x'.faults = 0
    BY <2>2, <2>6, <2>8
  <2>10. m.id = id BY DEF m, Update
  <2>11. m.id \in 1..Len(part.orders) => part.orders[m.id].live BY <2>4, <2>10
  <2>12. Len(part.orders) <= Len(x'.orders) BY <2>6, <2>9
  <2>13. \A i \in 1..Len(part.orders) :
            /\ x'.orders[i].by = part.orders[i].by
            /\ x'.orders[i].role = part.orders[i].role
            /\ x'.orders[i].size = part.orders[i].size
            /\ x'.orders[i].live => part.orders[i].live
    BY <2>9
  <2> DEFINE ys == x'
  <2>14. /\ ExchangeOK(ys) /\ ys.faults = 0 /\ ys.ws = Append(part.ws, m)
         /\ Len(part.orders) <= Len(ys.orders)
         /\ \A i \in 1..Len(part.orders) :
               /\ ys.orders[i].by = part.orders[i].by
               /\ ys.orders[i].role = part.orders[i].role
               /\ ys.orders[i].size = part.orders[i].size
               /\ ys.orders[i].live => part.orders[i].live
    BY <1>5, <2>9, <2>12, <2>13
  <2> HIDE DEF ys
  <2>15. Onward(part, ys) BY <2>5, <2>11, <2>14, OneMore
  <2>16. Onward(x, ys) BY <1>1, <2>4, <2>15, OnwardOn
  <2>17. Onward(x, x') BY <2>16 DEF ys
  <2> QED BY <1>2, <2>17, ExchangeKeeps
<1>7. CASE ~(o.filled + n < o.size)
  <2> DEFINE k == o.size
  <2>1. k # 0 /\ k \in Nat BY <1>3
  <2>2. x' = Drop(Filled(x, id, k), id) BY <1>2, <1>7
  <2> HIDE DEF k
  <2>3. Onward(x, Drop(Filled(x, id, k), id)) BY <1>1, <1>2, <2>1, FilledThenDone
  <2>4. Onward(x, x') BY <2>2, <2>3
  <2> QED BY <1>2, <2>4, ExchangeKeeps
<1> QED BY <1>6, <1>7

LEMMA ExitFillsKeeps ==
    ASSUME ExecInv, CalmInv, NEW id \in DOMAIN x.orders, ExitFills(id) PROVE Keeps
<1> DEFINE o == x.orders[id]
           n == Least(o.size, Exposure(x.orders, OrderTicker(o), Plans[o.by].side))
<1>1. Calm(x) /\ id \in 1..Len(x.orders) BY OrderKnown
<1>2. /\ UNCHANGED <<trades, unknown, result>> /\ o.live /\ o.role # "entry" /\ n > 0
      /\ x' = Drop(Filled(x, id, n), id)
  BY DEF ExitFills
<1> HIDE DEF n
<1>3. n # 0 BY <1>2
<1>4. Onward(x, Drop(Filled(x, id, n), id)) BY <1>1, <1>2, <1>3, FilledThenDone
<1>5. Onward(x, x') BY <1>2, <1>4
<1> QED BY <1>2, <1>5, ExchangeKeeps

LEMMA ExchangeCancelsKeeps ==
    ASSUME ExecInv, CalmInv, NEW id \in DOMAIN x.orders, ExchangeCancels(id) PROVE Keeps
<1>1. Calm(x) /\ id \in 1..Len(x.orders) BY OrderKnown
<1>2. UNCHANGED <<trades, unknown, result>> /\ x.orders[id].live /\ x' = Drop(x, id)
  BY DEF ExchangeCancels
<1>3. Onward(x, x') BY <1>1, <1>2, DropOnward
<1> QED BY <1>2, <1>3, ExchangeKeeps

\* Who a trade is and what it claimed stays.
Named(t, v) == v.uid = t.uid /\ v.entry = t.entry

\* tick only marks trades; if no mark price invalidates a trade, none.
LEMMA TickDecideNames ==
    ASSUME ExecInv, CalmInv, NEW hit \in SUBSET Places, NEW timeout, TickDecide(hit, timeout)
    PROVE  /\ UNCHANGED <<x, unknown, result, inflight>>
           /\ \A tk \in Tickers :
                 /\ Len(trades'[tk]) = Len(trades[tk])
                 /\ \A i \in 1..Len(trades[tk]) : Named(trades[tk][i], trades'[tk][i])
           /\ "invalidate" \notin Operations => Keeps
<1>1. /\ UNCHANGED <<x, unknown, result, inflight>>
      /\ hit # {} => "invalidate" \in Operations
      /\ trades' = [tk \in Tickers |-> [i \in DOMAIN trades[tk] |->
                      IF <<tk, i>> \in hit
                      THEN [trades[tk][i] EXCEPT !.st = "EmergencyClosing"]
                      ELSE trades[tk][i]]]
  BY DEF TickDecide
<1>2. ASSUME NEW tk \in Tickers
      PROVE  /\ Len(trades'[tk]) = Len(trades[tk]) /\ Len(trades[tk]) \in Nat
             /\ \A i \in 1..Len(trades[tk]) :
                   /\ Named(trades[tk][i], trades'[tk][i])
                   /\ hit = {} => Follows(trades[tk][i], trades'[tk][i])
  <2> DEFINE s == trades[tk]
             list == [i \in DOMAIN s |-> IF <<tk, i>> \in hit
                                         THEN [s[i] EXCEPT !.st = "EmergencyClosing"] ELSE s[i]]
  <2>1. trades'[tk] = list BY <1>1
  <2>2. ListOK(s, tk, x.orders) /\ IsList(s) /\ Len(s) \in Nat /\ DOMAIN s = 1..Len(s)
    BY ListKnown
  <2> HIDE DEF s
  <2>3. Len(list) = Len(s)
    <3>1. list = [i \in DOMAIN s |-> list[i]] OBVIOUS
    <3> HIDE DEF list
    <3> QED BY <2>2, <3>1, ListMapped
  <2>4. ASSUME NEW i \in 1..Len(s)
        PROVE  Named(s[i], list[i]) /\ (hit = {} => Follows(s[i], list[i]))
    <3> DEFINE t == s[i]
    <3>1. TradeShape(t) BY <2>2 DEF ListOK, TradeOK
    <3>2. list[i] = t \/ (list[i] = [t EXCEPT !.st = "EmergencyClosing"] /\ hit # {}) BY <2>2
    <3> HIDE DEF t, list
    <3>3. PICK a : a = "EmergencyClosing" OBVIOUS
    <3> DEFINE v == [t EXCEPT !.st = a]
    <3>4. v.uid = t.uid /\ v.entry = t.entry BY <3>1, MarkFollows
    <3> HIDE DEF v
    <3>5. list[i] = t \/ (list[i] = v /\ hit # {}) BY <3>2, <3>3 DEF v
    <3>6. Named(t, list[i]) BY <3>4, <3>5 DEF Named
    <3>7. hit = {} => Follows(t, list[i]) BY <3>5, FollowsSame
    <3> QED BY <3>6, <3>7 DEF t
  <2> HIDE DEF list
  <2> QED BY <2>1, <2>2, <2>3, <2>4 DEF s
<1>3. ASSUME "invalidate" \notin Operations PROVE Keeps
  <2>1. hit = {} BY <1>1, <1>3
  <2>2. \A tk \in Tickers : ListFollows(trades[tk], trades'[tk])
    BY <1>2, <2>1 DEF ListFollows
  <2>3. Onward(x, x') BY <1>1, ExchangeRests
  <2> QED BY <1>1, <2>2, <2>3 DEF Keeps, TradesFollow, CalmInv
<1> QED BY <1>1, <1>2, <1>3

\* Nothing throws, so that nothing is reconciled.
LEMMA NothingThrows ==
    ASSUME CalmInv
    PROVE  /\ \A u : ~SubmitThrows(u)
           /\ ~PollResolves /\ ~PollTimesOut /\ ~HandleReconciled
<1>1. x.faults = 0 /\ unknown = None /\ result = None BY CalmIs DEF CalmInv
<1>2. ASSUME NEW u, SubmitThrows(u) PROVE FALSE
  <2>1. x.faults > 0 BY <1>2 DEF SubmitThrows
  <2> QED BY <1>1, <2>1
<1>3. ~PollResolves BY <1>1 DEF PollResolves
<1>4. ~PollTimesOut BY <1>1 DEF PollTimesOut
<1>5. ~HandleReconciled BY <1>1 DEF HandleReconciled
<1> QED BY <1>2, <1>3, <1>4, <1>5

-----------------------------------------------------------------------------
(* The step that an update of the stream makes, when no call fails.          *)

\* The i-th trade of tk takes the head of the stream and becomes v.
Taken(tk, i, v) ==
    LET u    == Head(x.ws)
        t    == trades[tk][i]
        role == Role(t, u)
    IN  /\ u.id \in 1..Len(x.orders) /\ u.id # 0 /\ tk = OrderTicker(x.orders[u.id])
        /\ ~Gone(x, u.id) /\ (u.status = "Closed" => Gone(x', u.id))
        /\ t.st \notin Done /\ role # "none"
        /\ \A j \in 1..Len(trades[tk]) :
              j < i => trades[tk][j].st \in Done \/ Role(trades[tk][j], u) = "none"
        /\ Onward(x, x') /\ trades' = [trades EXCEPT ![tk] = [@ EXCEPT ![i] = v]]
        /\ v.uid = t.uid /\ v.entry = (IF role = "entry" THEN u.id ELSE t.entry)
        /\ v.st = "EmergencyClosing" => role = "entry" /\ u.status = "Closed"
        /\ reserved' = Release(IF role = "entry" /\ u.status = "Closed"
                               THEN Reservation(t.uid) ELSE 0)
        /\ UNCHANGED <<inflight, unknown, result>>

LEMMA CapturedEntry ==
    ASSUME NEW t, TradeShape(t), NEW u, Role(t, u) # "none"
    PROVE  LET v == Captured(t, Role(t, u), u.id)
           IN  v.uid = t.uid
               /\ v.entry = (IF Role(t, u) = "entry" THEN u.id ELSE t.entry)
<1> DEFINE role == Role(t, u)
           id == u.id
           v == Captured(t, role, id)
<1>1. role \in {"entry", "stop", "tp1"} BY DEF Role
<1> HIDE DEF role, id
<1> DEFINE w1 == [t EXCEPT !.entry = id]
           w2 == [t EXCEPT !.stop = id]
           w3 == [t EXCEPT !.tp1 = id]
<1>2. /\ Edited(t, w1, t.st, id, t.stop, t.tp1, t.exec)
      /\ Edited(t, w2, t.st, t.entry, id, t.tp1, t.exec)
      /\ Edited(t, w3, t.st, t.entry, t.stop, id, t.exec)
  BY Edit
<1>3. /\ role = "entry" => v = w1
      /\ role = "stop" => v = w2
      /\ role = "tp1" => v = w3
  BY DEF Captured
<1> HIDE DEF v, w1, w2, w3
<1>4. v.uid = t.uid /\ v.entry = (IF role = "entry" THEN id ELSE t.entry)
  BY <1>1, <1>2, <1>3 DEF Edited
<1> QED BY <1>4 DEF v, role, id

LEMMA UpdateTaken ==
    ASSUME ExecInv, CalmInv, OnOrderUpdate
    PROVE  \/ Keeps /\ UNCHANGED <<reserved, inflight>>
           \/ \E tk \in Tickers : \E i \in 1..Len(trades[tk]) : \E v : Taken(tk, i, v)
<1> DEFINE u == Head(x.ws)
           tk == OrderTicker(x.orders[u.id])
           list == trades[tk]
           takes == {i \in DOMAIN list : ~Skipped(list[i]) /\ Role(list[i], u) # "none"}
           rest == [x EXCEPT !.ws = Tail(@)]
<1>1. ExchangeOK(x) /\ Calm(x) /\ x.ws # <<>> BY Zenon DEF ExecInv, CalmInv, OnOrderUpdate
<1>2. /\ rest.orders = x.orders /\ UpdateOK(u, x.orders)
      /\ Onward(x, rest) /\ ~Gone(x, u.id)
      /\ u.status = "Closed" => Gone(rest, u.id)
  BY <1>1, RestOK, RestOnward, Zenon
<1>3. UNCHANGED <<inflight, unknown, result>> BY Zenon DEF OnOrderUpdate
<1>4. CASE takes = {}
  <2>1. x' = rest /\ UNCHANGED <<trades, reserved>> BY <1>4, Zenon DEF OnOrderUpdate
  <2>2. Onward(x, x') BY <1>2, <2>1
  <2>3. Keeps BY <1>3, <2>1, <2>2, ExchangeKeeps
  <2> QED BY <1>3, <2>1, <2>3
<1>5. CASE takes # {}
  <2> DEFINE Out(t, role, slipped) == IF u.status = "Open" THEN OnOpenUpdate(t, role, u, rest)
                                      ELSE OnClosedUpdate(t, role, u, slipped, rest)
  <2>1. PICK i \in takes :
           /\ \A j \in takes : i <= j
           /\ \E slipped \in Slippages :
                \E o \in Out(Captured(list[i], Role(list[i], u), u.id), Role(list[i], u), slipped) :
                   /\ trades' = [trades EXCEPT ![tk][i] = o.t]
                   /\ x' = o.x
                   /\ reserved' = Release(ReleasedBy(Captured(list[i], Role(list[i], u), u.id),
                                                     Role(list[i], u), u))
    BY <1>5, Zenon DEF OnOrderUpdate
  <2> DEFINE t0 == list[i]
             role == Role(t0, u)
             t == Captured(t0, role, u.id)
             Ends(o) == /\ trades' = [trades EXCEPT ![tk][i] = o.t]
                        /\ x' = o.x
                        /\ reserved' = Release(ReleasedBy(t, role, u))
  <2>2. PICK slipped \in Slippages : \E o \in Out(t, role, slipped) : Ends(o) BY <2>1, Zenon
  <2>3. PICK o \in Out(t, role, slipped) : Ends(o) BY <2>2, Zenon
  <2>4. /\ i \in DOMAIN list /\ t0.st \notin Done /\ role # "none"
    BY Zenon DEF Skipped, Done
  <2>5. tk \in Tickers BY <1>1, HeadTicker, Zenon
  <2>6. \A j \in DOMAIN list : j < i => list[j].st \in Done \/ Role(list[j], u) = "none"
    <3> SUFFICES ASSUME NEW j \in DOMAIN list, j < i,
                        ~(list[j].st \in Done \/ Role(list[j], u) = "none")
                 PROVE  FALSE
      BY Zenon
    <3>1. j \in takes BY Zenon DEF Skipped, Done
    <3>2. i <= j BY <2>1, <3>1, Zenon
    <3>3. i \in Nat /\ j \in Nat
      <4> DEFINE n == Len(list)
      <4>1. DOMAIN list = 1..n /\ n \in Nat BY <2>5, ListKnown, Zenon
      <4>2. i \in 1..n /\ j \in 1..n BY <2>4, <4>1, Zenon
      <4> HIDE DEF n, list, takes
      <4> QED BY <4>1, <4>2
    <3> QED BY <3>2, <3>3
  <2> HIDE DEF takes
  <2> DEFINE a == tk
  <2>7. a \in Tickers BY <2>5
  <2> HIDE DEF a
  <2>8. /\ ListOK(trades[a], a, x.orders)
        /\ DOMAIN trades[a] = 1..Len(trades[a])
    BY <2>7, ListKnown
  <2>9. list = trades[a] BY DEF a
  <2> HIDE DEF list
  <2>10. i \in 1..Len(trades[a]) BY <2>4, <2>8, <2>9
  <2>11. TradeOK(t0, x.orders) BY <2>8, <2>9, <2>10 DEF ListOK
  <2>12. u.id \in 1..Len(x.orders) /\ u.id # 0 /\ u.status \in {"Open", "Closed"}
    BY <1>2 DEF UpdateOK
  <2> HIDE DEF u
  <2>13. TradeShape(t0) BY <2>11 DEF TradeOK
  <2>14. /\ TradeOK(t, x.orders) /\ t.uid = t0.uid /\ t.st = t0.st
         /\ role = "entry" => t.entry = u.id
         /\ t.entry = (IF role = "entry" THEN u.id ELSE t0.entry)
    <3> HIDE DEF t0
    <3>1. LET v == Captured(t0, Role(t0, u), u.id)
          IN  /\ TradeOK(v, x.orders) /\ v.uid = t0.uid /\ v.st = t0.st
              /\ Role(t0, u) = "entry" => v.entry = u.id
      BY <1>1, <1>2, <2>4, <2>11, CapturedOK
    <3>2. LET v == Captured(t0, Role(t0, u), u.id)
          IN  v.uid = t0.uid
              /\ v.entry = (IF Role(t0, u) = "entry" THEN u.id ELSE t0.entry)
      BY <2>4, <2>13, CapturedEntry
    <3> QED BY <3>1, <3>2
  <2> HIDE DEF t, role, t0
  <2>15. Calm(rest) /\ rest.orders = x.orders BY <1>2 DEF Onward
  <2> HIDE DEF rest
  <2>16. TradeOK(t, rest.orders) /\ UpdateOK(u, rest.orders) BY <1>2, <2>14, <2>15
  <2>17. t.st # "Closed" /\ t.st # "EmergencyClosing" BY <2>4, <2>14 DEF Done
  <2>18. /\ Onward(rest, o.x) /\ o.t.uid = t.uid /\ o.t.entry = t.entry
         /\ o.t.st = "EmergencyClosing" => role = "entry" /\ u.status = "Closed"
    <3>1. CASE u.status = "Open"
      <4>1. o \in OnOpenUpdate(t, role, u, rest) BY <3>1
      <4>2. Onward(rest, o.x) /\ Follows(t, o.t)
        BY <2>15, <2>16, <2>17, <4>1, OnOpenUpdateOnward
      <4> QED BY <2>17, <4>2 DEF Follows
    <3>2. CASE u.status # "Open"
      <4>1. o \in OnClosedUpdate(t, role, u, slipped, rest) BY <3>2
      <4>2. u.status = "Closed" BY <2>12, <3>2
      <4>3. role = "entry" => t.entry = u.id BY <2>14
      <4>4. /\ Onward(rest, o.x) /\ o.t.uid = t.uid /\ o.t.entry = t.entry
            /\ o.t.st = "EmergencyClosing" => role = "entry"
        BY <2>15, <2>16, <2>17, <4>1, <4>2, <4>3, OnClosedUpdateOnward
      <4> QED BY <4>2, <4>4
    <3> QED BY <3>1, <3>2
  <2>19. Onward(x, o.x) BY <1>1, <1>2, <2>18, OnwardOn
  <2>20. u.status = "Closed" => Gone(o.x, u.id) BY <1>2, <2>12, <2>15, <2>18 DEF Onward
  <2>21. x' = o.x /\ reserved' = Release(ReleasedBy(t, role, u)) BY <2>3
  <2>22. trades' = [trades EXCEPT ![a] = [@ EXCEPT ![i] = o.t]] BY <2>3 DEF a
  <2>23. /\ t0 = trades[a][i] /\ role = Role(trades[a][i], u)
    BY <2>9 DEF t0, role
  <2>24. reserved' = Release(IF role = "entry" /\ u.status = "Closed"
                             THEN Reservation(t0.uid) ELSE 0)
    BY <2>14, <2>21 DEF ReleasedBy
  <2>25. \A j \in 1..Len(trades[a]) :
            j < i => trades[a][j].st \in Done \/ Role(trades[a][j], u) = "none"
    BY <2>6, <2>8, <2>9
  <2>26. a = OrderTicker(x.orders[u.id]) BY DEF a, u
  <2> DEFINE v == o.t
  <2>27. /\ v.uid = t0.uid /\ v.entry = (IF role = "entry" THEN u.id ELSE t0.entry)
         /\ v.st = "EmergencyClosing" => role = "entry" /\ u.status = "Closed"
    BY <2>14, <2>18
  <2>28. /\ Onward(x, x') /\ (u.status = "Closed" => Gone(x', u.id))
         /\ trades' = [trades EXCEPT ![a] = [@ EXCEPT ![i] = v]]
    BY <2>19, <2>20, <2>21, <2>22
  <2> HIDE DEF v
  <2>29. Taken(a, i, v)
    BY <1>2, <1>3, <2>4, <2>12, <2>23, <2>24, <2>25, <2>26, <2>27, <2>28, Zenon DEF Taken, u
  <2> QED BY <2>7, <2>10, <2>29
<1> QED BY <1>4, <1>5

-----------------------------------------------------------------------------
(* Who claims which entry order, when no call fails.                         *)

\* An order that a trade of u without an entry takes for its own.
Fits(o, u) ==
    o.role \in {"entry", "close"} /\ OrderSide(o) = Plans[u].side /\ o.size = Plans[u].size

\* A trade has claimed an order of its ticker, and is only closed by market
\* when that order is over.
Claimed(t, xs, tk) ==
    /\ t.entry # 0 => OrderTicker(xs.orders[t.entry]) = tk
    /\ t.st = "EmergencyClosing" => t.entry # 0 /\ Gone(xs, t.entry)

\* Of two trades the earlier one neither has the entry of the later one, nor
\* would take it.
Apart(t, v, xs) ==
    t.st # "Closed" /\ v.entry # 0 =>
        /\ t.entry = 0 => ~Fits(xs.orders[v.entry], t.uid)
        /\ v.st # "Closed" => t.entry # v.entry

Claims(list, xs, tk) ==
    /\ \A i \in 1..Len(list) : Claimed(list[i], xs, tk)
    /\ \A i, j \in 1..Len(list) : i < j => Apart(list[i], list[j], xs)

ClaimInv == CalmInv /\ \A tk \in Tickers : Claims(trades[tk], x, tk)

LEMMA OnwardFits ==
    ASSUME NEW xs, NEW ys, Onward(xs, ys), NEW id \in 1..Len(xs.orders)
    PROVE  /\ OrderTicker(ys.orders[id]) = OrderTicker(xs.orders[id])
           /\ \A u : Fits(ys.orders[id], u) <=> Fits(xs.orders[id], u)
           /\ Gone(xs, id) => Gone(ys, id)
<1> DEFINE o == xs.orders[id]
           p == ys.orders[id]
<1>1. p.by = o.by /\ p.role = o.role /\ p.size = o.size /\ (Gone(xs, id) => Gone(ys, id))
  BY DEF Onward
<1> HIDE DEF o, p
<1>2. OrderTicker(p) = OrderTicker(o) /\ OrderSide(p) = OrderSide(o)
  BY <1>1 DEF OrderTicker, OrderSide
<1>3. \A u : Fits(p, u) <=> Fits(o, u) BY <1>1, <1>2 DEF Fits
<1> QED BY <1>1, <1>2, <1>3 DEF o, p

LEMMA ClaimedKept ==
    ASSUME NEW xs, NEW ys, Onward(xs, ys), NEW t, TradeOK(t, xs.orders), NEW tk,
           Claimed(t, xs, tk), NEW v, Follows(t, v)
    PROVE  Claimed(v, ys, tk)
<1>1. v.entry = t.entry /\ (v.st = "EmergencyClosing" => t.st = "EmergencyClosing")
  BY DEF Follows
<1>2. CASE t.entry = 0 BY <1>1, <1>2 DEF Claimed
<1>3. CASE t.entry # 0
  <2>1. t.entry \in 1..Len(xs.orders) BY <1>3 DEF TradeOK
  <2>2. /\ OrderTicker(ys.orders[t.entry]) = OrderTicker(xs.orders[t.entry])
        /\ Gone(xs, t.entry) => Gone(ys, t.entry)
    BY <2>1, OnwardFits
  <2> QED BY <1>1, <1>3, <2>2 DEF Claimed
<1> QED BY <1>2, <1>3

LEMMA ApartKept ==
    ASSUME NEW xs, NEW ys, Onward(xs, ys), NEW t, NEW v, TradeOK(v, xs.orders),
           Apart(t, v, xs), NEW t2, Follows(t, t2), NEW v2, Follows(v, v2)
    PROVE  Apart(t2, v2, ys)
<1>1. /\ t2.uid = t.uid /\ t2.entry = t.entry /\ (t2.st # "Closed" => t.st # "Closed")
      /\ v2.entry = v.entry /\ (v2.st # "Closed" => v.st # "Closed")
  BY DEF Follows
<1>2. CASE v.entry = 0 BY <1>1, <1>2 DEF Apart
<1>3. CASE v.entry # 0
  <2>1. v.entry \in 1..Len(xs.orders) BY <1>3 DEF TradeOK
  <2>2. Fits(ys.orders[v.entry], t.uid) <=> Fits(xs.orders[v.entry], t.uid)
    BY <2>1, OnwardFits
  <2> QED BY <1>1, <1>3, <2>2 DEF Apart
<1> QED BY <1>2, <1>3

LEMMA ClaimsKept ==
    ASSUME NEW xs, NEW ys, Onward(xs, ys), NEW list, NEW tk, ListOK(list, tk, xs.orders),
           Claims(list, xs, tk), NEW later, ListFollows(list, later)
    PROVE  Claims(later, ys, tk)
<1>1. /\ Len(later) = Len(list)
      /\ \A i \in 1..Len(list) : Follows(list[i], later[i]) /\ TradeOK(list[i], xs.orders)
  BY DEF ListFollows, ListOK
<1>2. /\ \A i \in 1..Len(list) : Claimed(list[i], xs, tk)
      /\ \A i, j \in 1..Len(list) : i < j => Apart(list[i], list[j], xs)
  BY DEF Claims
<1>3. ASSUME NEW i \in 1..Len(list) PROVE Claimed(later[i], ys, tk)
  BY <1>1, <1>2, ClaimedKept
<1>4. ASSUME NEW i \in 1..Len(list), NEW j \in 1..Len(list), i < j
      PROVE  Apart(later[i], later[j], ys)
  <2>1. Apart(list[i], list[j], xs) BY <1>2, <1>4
  <2> QED BY <1>1, <2>1, ApartKept
<1> QED BY <1>1, <1>3, <1>4 DEF Claims

LEMMA KeepsClaims == ASSUME ExecInv, ClaimInv, Keeps PROVE ClaimInv'
<1>1. Onward(x, x') /\ TradesFollow(trades, trades') /\ unknown' = None /\ result' = None
  BY DEF Keeps
<1>2. ASSUME NEW tk \in Tickers PROVE Claims(trades'[tk], x', tk)
  <2>1. ListOK(trades[tk], tk, x.orders) BY ListKnown
  <2>2. Claims(trades[tk], x, tk) BY DEF ClaimInv
  <2>3. ListFollows(trades[tk], trades'[tk]) BY <1>1 DEF TradesFollow
  <2> QED BY <1>1, <2>1, <2>2, <2>3, ClaimsKept
<1>3. CalmInv' BY <1>1 DEF CalmInv, Onward
<1> QED BY <1>2, <1>3 DEF ClaimInv

\* Who does not take an update neither claims its order, nor would.
LEMMA RoleTells ==
    ASSUME NEW t, NEW u
    PROVE  /\ Role(t, u) = "none" =>
                 u.id # t.entry /\ (t.entry = 0 => ~Fits(x.orders[u.id], t.uid))
           /\ Role(t, u) = "entry" =>
                 u.id = t.entry \/ (t.entry = 0 /\ Fits(x.orders[u.id], t.uid))
<1> DEFINE o == x.orders[u.id]
           entry == u.id = t.entry
           stop == u.id = t.stop
           tp1 == u.id = t.tp1
           fits == o.role \in {"entry", "close"} /\ OrderSide(o) = Plans[t.uid].side
                   /\ o.size = Plans[t.uid].size
           asStop == t.stop = 0 /\ o.role \in {"stop", "be"} /\ OrderSide(o) # Plans[t.uid].side
           asTp1 == t.tp1 = 0 /\ o.role = "tp1" /\ OrderSide(o) # Plans[t.uid].side
<1>1. Role(t, u) = IF entry THEN "entry" ELSE IF stop THEN "stop" ELSE IF tp1 THEN "tp1"
                   ELSE IF t.entry = 0 /\ fits THEN "entry"
                   ELSE IF asStop THEN "stop" ELSE IF asTp1 THEN "tp1" ELSE "none"
  BY DEF Role
<1>2. Fits(o, t.uid) <=> fits BY DEF Fits
<1>3. entry <=> u.id = t.entry OBVIOUS
<1> HIDE DEF entry, stop, tp1, fits, asStop, asTp1, o
<1>4. Role(t, u) = "none" => ~entry /\ (t.entry = 0 => ~fits) BY <1>1
<1>5. Role(t, u) = "entry" => entry \/ (t.entry = 0 /\ fits) BY <1>1
<1> QED BY <1>2, <1>3, <1>4, <1>5 DEF o

LEMMA TakenClaims ==
    ASSUME ExecInv, ClaimInv, NEW tk \in Tickers, NEW i \in 1..Len(trades[tk]), NEW v,
           Taken(tk, i, v)
    PROVE  ClaimInv'
<1> DEFINE u == Head(x.ws)
           id == u.id
           o == x.orders[id]
           list == trades[tk]
           t == list[i]
           n == Len(list)
           role == Role(t, u)
           later == [list EXCEPT ![i] = v]
<1>1. /\ id \in 1..Len(x.orders) /\ id # 0 /\ tk = OrderTicker(o)
      /\ ~Gone(x, id) /\ (u.status = "Closed" => Gone(x', id))
      /\ t.st \notin Done /\ role # "none"
      /\ Onward(x, x') /\ trades' = [trades EXCEPT ![tk] = later]
      /\ v.uid = t.uid /\ v.entry = (IF role = "entry" THEN id ELSE t.entry)
      /\ v.st = "EmergencyClosing" => role = "entry" /\ u.status = "Closed"
      /\ UNCHANGED <<unknown, result>>
  BY Zenon DEF Taken
<1>2. \A j \in 1..n : j < i => list[j].st \in Done \/ Role(list[j], u) = "none"
  BY Zenon DEF Taken
<1>3. /\ ListOK(list, tk, x.orders) /\ IsList(list) /\ n \in Nat
      /\ Claims(list, x, tk) /\ CalmInv
  BY ListKnown DEF ClaimInv
<1>4. /\ \A j \in 1..n : Claimed(list[j], x, tk) /\ TradeOK(list[j], x.orders)
      /\ \A j, k \in 1..n : j < k => Apart(list[j], list[k], x)
  BY <1>3 DEF Claims, ListOK
<1>5. Len(later) = n /\ later[i] = v /\ \A j \in 1..n : j # i => later[j] = list[j]
  BY <1>3, ListExcept
<1>6. /\ \A j \in 1..n : Role(list[j], u) = "none" =>
            id # list[j].entry /\ (list[j].entry = 0 => ~Fits(o, list[j].uid))
      /\ role = "entry" => id = t.entry \/ (t.entry = 0 /\ Fits(o, t.uid))
  BY RoleTells
<1>7. trades' = [k \in Tickers |-> trades'[k]] /\ trades'[tk] = later
      /\ \A k \in Tickers : k # tk => trades'[k] = trades[k]
  BY <1>1, Zenon DEF ExecInv
<1> HIDE DEF role, id, u
<1>8. OrderTicker(x'.orders[id]) = tk /\ \A w : Fits(x'.orders[id], w) <=> Fits(o, w)
  <2>1. id \in 1..Len(x.orders) /\ Onward(x, x') BY <1>1
  <2>2. /\ OrderTicker(x'.orders[id]) = OrderTicker(x.orders[id])
        /\ \A w : Fits(x'.orders[id], w) <=> Fits(x.orders[id], w)
    BY <2>1, OnwardFits
  <2> QED BY <1>1, <2>2
<1> HIDE DEF o
<1>9. Claimed(v, x', tk)
  <2>1. CASE role = "entry" BY <1>1, <1>8, <2>1 DEF Claimed
  <2>2. CASE role # "entry"
    <3>1. v.entry = t.entry /\ v.st # "EmergencyClosing" BY <1>1, <2>2
    <3>2. Claimed(t, x, tk) BY <1>4
    <3>3. ASSUME t.entry # 0 PROVE OrderTicker(x'.orders[t.entry]) = tk
      <4>1. t.entry \in 1..Len(x.orders) BY <1>4, <3>3 DEF TradeOK
      <4> HIDE DEF t
      <4>2. OrderTicker(x'.orders[t.entry]) = OrderTicker(x.orders[t.entry])
        BY <1>1, <4>1, OnwardFits
      <4> QED BY <3>2, <3>3, <4>2 DEF Claimed
    <3> QED BY <3>1, <3>3 DEF Claimed
  <2> QED BY <2>1, <2>2
<1>10. ASSUME NEW j \in 1..n, j # i PROVE Claimed(later[j], x', tk)
  <2>1. later[j] = list[j] /\ Claimed(list[j], x, tk) /\ TradeOK(list[j], x.orders)
    BY <1>4, <1>5, <1>10
  <2>2. Claimed(list[j], x', tk) BY <1>1, <2>1, ClaimedKept, FollowsSame
  <2> QED BY <2>1, <2>2
<1>11. ASSUME NEW j \in 1..n, NEW k \in 1..n, j < k, j # i, k # i
       PROVE  Apart(later[j], later[k], x')
  <2>1. later[j] = list[j] /\ later[k] = list[k] /\ TradeOK(list[k], x.orders)
    BY <1>4, <1>5, <1>11
  <2>2. Apart(list[j], list[k], x) BY <1>4, <1>11
  <2>3. Apart(list[j], list[k], x') BY <1>1, <2>1, <2>2, ApartKept, FollowsSame
  <2> QED BY <2>1, <2>3
\* An earlier trade does not claim what v claims now.
<1>12. ASSUME NEW j \in 1..n, j < i PROVE Apart(later[j], v, x')
  <2> DEFINE w == list[j]
  <2>1. later[j] = w
    <3>1. j # i BY <1>3, <1>12
    <3> QED BY <1>5, <3>1
  <2>2. w.st \in Done \/ Role(w, u) = "none" BY <1>2, <1>12
  <2>3. Claimed(w, x, tk) /\ Apart(w, t, x) BY <1>4, <1>12
  <2>4. CASE role = "entry"
    <3> SUFFICES ASSUME w.st # "Closed"
                 PROVE  (w.entry = 0 => ~Fits(x'.orders[id], w.uid)) /\ w.entry # id
      <4>1. v.entry = id BY <1>1, <2>4
      <4> QED BY <2>1, <4>1 DEF Apart
    <3>1. CASE w.st = "EmergencyClosing" BY <1>1, <2>3, <3>1 DEF Claimed
    <3>2. CASE w.st # "EmergencyClosing"
      <4>1. Role(w, u) = "none" BY <2>2, <3>2 DEF Done
      <4>2. id # w.entry /\ (w.entry = 0 => ~Fits(o, w.uid)) BY <1>6, <4>1
      <4> QED BY <1>8, <4>2
    <3> QED BY <3>1, <3>2
  <2>5. CASE role # "entry"
    <3>1. v.uid = t.uid /\ v.entry = t.entry BY <1>1, <2>5
    <3>2. TradeOK(t, x.orders) BY <1>4
    <3>3. t.st # "Closed" BY <1>1 DEF Done
    <3> HIDE DEF t, w
    <3>4. Apart(w, v, x) BY <2>3, <3>1, <3>3 DEF Apart
    <3>5. CASE v.entry = 0 BY <2>1, <3>5 DEF Apart
    <3>6. CASE v.entry # 0
      <4>1. v.entry \in 1..Len(x.orders) BY <3>1, <3>2, <3>6 DEF TradeOK
      <4>2. Fits(x'.orders[v.entry], w.uid) <=> Fits(x.orders[v.entry], w.uid)
        BY <1>1, <4>1, OnwardFits
      <4>3. Apart(w, v, x') BY <3>4, <4>2 DEF Apart
      <4> QED BY <2>1, <4>3
    <3> QED BY <3>5, <3>6
  <2> QED BY <2>4, <2>5
\* A later one has not claimed what v fits.
<1>13. ASSUME NEW j \in 1..n, i < j PROVE Apart(v, later[j], x')
  <2> DEFINE w == list[j]
  <2>1. later[j] = w
    <3>1. j # i BY <1>3, <1>13
    <3> QED BY <1>5, <3>1
  <2>2. Apart(t, w, x) /\ TradeOK(w, x.orders) BY <1>4, <1>13
  <2>3. t.st # "Closed" BY <1>1 DEF Done
  <2>4. /\ v.uid = t.uid /\ v.entry = (IF role = "entry" THEN id ELSE t.entry)
        /\ role = "entry" => id = t.entry \/ (t.entry = 0 /\ Fits(o, t.uid))
        /\ id # 0
    BY <1>1, <1>6
  <2> HIDE DEF t, w
  <2>5. CASE w.entry = 0 BY <2>1, <2>5 DEF Apart
  <2>6. CASE w.entry # 0
    <3>1. w.entry \in 1..Len(x.orders) BY <2>2, <2>6 DEF TradeOK
    <3>2. Fits(x'.orders[w.entry], t.uid) <=> Fits(x.orders[w.entry], t.uid)
      BY <1>1, <3>1, OnwardFits
    <3>3. v.entry = 0 => t.entry = 0 BY <2>4
    <3>4. v.entry = 0 => ~Fits(x'.orders[w.entry], v.uid)
      BY <2>2, <2>3, <2>4, <2>6, <3>2, <3>3 DEF Apart
    <3>5. ASSUME w.st # "Closed", v.entry = w.entry PROVE FALSE
      <4>1. CASE v.entry = t.entry BY <2>2, <2>3, <2>6, <3>5, <4>1 DEF Apart
      <4>2. CASE v.entry # t.entry
        <5>1. v.entry = id /\ t.entry = 0 /\ Fits(o, t.uid) BY <2>4, <4>2
        <5>2. Fits(x.orders[w.entry], t.uid) BY <3>5, <5>1 DEF o
        <5> QED BY <2>2, <2>3, <2>6, <5>1, <5>2 DEF Apart
      <4> QED BY <4>1, <4>2
    <3> QED BY <2>1, <3>4, <3>5 DEF Apart
  <2> QED BY <2>5, <2>6
<1>14. Claims(later, x', tk)
  <2>1. ASSUME NEW j \in 1..n PROVE Claimed(later[j], x', tk) BY <1>5, <1>9, <1>10
  <2>2. ASSUME NEW j \in 1..n, NEW k \in 1..n, j < k PROVE Apart(later[j], later[k], x')
    <3>1. CASE j = i BY <1>5, <1>13, <2>2, <3>1
    <3>2. CASE k = i BY <1>5, <1>12, <2>2, <3>2
    <3> QED BY <1>11, <2>2, <3>1, <3>2
  <2> HIDE DEF later, n
  <2> QED BY <1>5, <2>1, <2>2 DEF Claims
<1>15. ASSUME NEW k \in Tickers PROVE Claims(trades'[k], x', k)
  <2>1. CASE k = tk BY <1>7, <1>14, <2>1
  <2>2. CASE k # tk
    <3>1. trades'[k] = trades[k] BY <1>7, <2>2
    <3>2. ListOK(trades[k], k, x.orders) BY ListKnown
    <3>3. Claims(trades[k], x, k) BY DEF ClaimInv
    <3>4. ListFollows(trades[k], trades[k]) BY TradesStay DEF TradesFollow
    <3>5. Claims(trades[k], x', k) BY <1>1, <3>2, <3>3, <3>4, ClaimsKept
    <3> QED BY <3>1, <3>5
  <2> QED BY <2>1, <2>2
<1>16. CalmInv' BY <1>1, <1>3 DEF CalmInv, Onward
<1> QED BY <1>15, <1>16 DEF ClaimInv

LEMMA SubmitReturnsClaims ==
    ASSUME ExecInv, ClaimInv, NEW u \in Uids, SubmitReturns(u) PROVE ClaimInv'
<1> DEFINE a == Plans[u].ticker
           n == NewTrade(u, "PendingEntry")
           list == trades[a]
           later == Append(list, n)
<1>1. UNCHANGED <<x, unknown, result>> /\ trades' = [trades EXCEPT ![a] = later]
  BY DEF SubmitReturns, Push
<1>2. a \in Tickers BY PlanIs DEF PlanType
<1>3. n.entry = 0 /\ n.st = "PendingEntry" BY DEF NewTrade
<1>4. trades'[a] = later /\ \A k \in Tickers : k # a => trades'[k] = trades[k]
  BY <1>1, <1>2 DEF ExecInv
<1>5. CalmInv /\ \A k \in Tickers : Claims(trades[k], x, k) BY DEF ClaimInv
<1>6. IsList(list) /\ Len(list) \in Nat BY <1>2, ListKnown
<1>7. Claims(list, x, a) BY <1>2, <1>5
<1> HIDE DEF a, n, list
<1>8. Len(later) = Len(list) + 1 /\ later[Len(list) + 1] = n
      /\ \A i \in 1..Len(list) : later[i] = list[i]
  BY <1>6, ListAppend
<1> HIDE DEF later
<1>9. Claims(later, x, a)
  <2>1. ASSUME NEW i \in 1..Len(later) PROVE Claimed(later[i], x, a)
    <3>1. CASE i = Len(list) + 1 BY <1>3, <1>8, <3>1 DEF Claimed
    <3>2. CASE i # Len(list) + 1
      <4>1. i \in 1..Len(list) BY <1>6, <1>8, <3>2
      <4> QED BY <1>7, <1>8, <4>1 DEF Claims
    <3> QED BY <3>1, <3>2
  <2>2. ASSUME NEW i \in 1..Len(later), NEW j \in 1..Len(later), i < j
        PROVE  Apart(later[i], later[j], x)
    <3>1. CASE j = Len(list) + 1 BY <1>3, <1>8, <3>1 DEF Apart
    <3>2. CASE j # Len(list) + 1
      <4>1. i \in 1..Len(list) /\ j \in 1..Len(list) BY <1>6, <1>8, <2>2, <3>2
      <4>2. Apart(list[i], list[j], x) BY <1>7, <2>2, <4>1 DEF Claims
      <4> QED BY <1>8, <4>1, <4>2
    <3> QED BY <3>1, <3>2
  <2> QED BY <2>1, <2>2 DEF Claims
<1>10. ASSUME NEW k \in Tickers PROVE Claims(trades'[k], x, k)
  <2>1. CASE k = a BY <1>4, <1>9, <2>1
  <2>2. CASE k # a BY <1>4, <1>5, <2>2
  <2> QED BY <2>1, <2>2
<1> QED BY <1>1, <1>5, <1>10 DEF ClaimInv, CalmInv

\* Nth counts through a set in its order.
LEMMA NthRises ==
    ASSUME NEW n \in Nat, NEW S, S \subseteq 1..n,
           NEW k \in 1..Cardinality(S), NEW m \in 1..Cardinality(S), k < m
    PROVE  Nth(S, k) < Nth(S, m)
<1> DEFINE Below(i) == {j \in S : j < i}
<1>1. IsFiniteSet(S) /\ Cardinality(S) \in Nat /\ Counted(S) BY NthExists
<1>2. ASSUME NEW h \in 1..Cardinality(S)
      PROVE  Nth(S, h) \in S /\ Cardinality(Below(Nth(S, h))) = h - 1
  <2>1. h - 1 \in Nat /\ h - 1 < Cardinality(S) BY <1>1
  <2>2. \E i \in S : Cardinality({j \in S : j < i}) = h - 1
    BY <1>1, <2>1 DEF Counted
  <2> QED BY <2>2 DEF Nth
<1> DEFINE p == Nth(S, k)
           q == Nth(S, m)
<1>3. p \in S /\ q \in S BY <1>2
<1>4. Cardinality(Below(p)) = k - 1 /\ Cardinality(Below(q)) = m - 1 BY <1>2
<1>5. k \in Nat /\ m \in Nat BY <1>1
<1> HIDE DEF p, q
<1> SUFFICES ASSUME ~(p < q) PROVE FALSE BY DEF p, q
<1>6. Below(q) \subseteq Below(p)
  <2>1. \A j \in S : j \in Nat OBVIOUS
  <2>2. p \in Nat /\ q \in Nat BY <1>3, <2>1
  <2> SUFFICES ASSUME NEW j \in S, j < q PROVE j < p OBVIOUS
  <2>3. j \in Nat BY <2>1
  <2> QED BY <2>2, <2>3
<1>7. IsFiniteSet(Below(p)) BY <1>1, FS_Subset
<1> HIDE DEF Below
<1>8. Cardinality(Below(q)) <= Cardinality(Below(p)) BY <1>6, <1>7, FS_Subset
<1> QED BY <1>4, <1>5, <1>8

\* The list without its Closed trades keeps the order of the others.
LEMMA NotClosedRises ==
    ASSUME NEW list, IsList(list)
    PROVE  LET r == NotClosed(list)
           IN  /\ \A k \in 1..Len(r) : \E i \in 1..Len(list) : r[k] = list[i]
               /\ \A k, m \in 1..Len(r) : k < m =>
                     \E i, j \in 1..Len(list) : i < j /\ r[k] = list[i] /\ r[m] = list[j]
<1> DEFINE kept == {i \in DOMAIN list : list[i].st # "Closed"}
           n == Cardinality(kept)
           r == NotClosed(list)
<1>1. r = [k \in 1..n |-> list[Nth(kept, k)]] BY DEF NotClosed
<1>2. DOMAIN list = 1..Len(list) /\ Len(list) \in Nat BY ListIs DEF IsList
<1>3. kept \subseteq 1..Len(list) BY <1>2
<1> HIDE DEF kept
<1>4. n \in Nat /\ \A k \in 1..n : Nth(kept, k) \in kept BY <1>2, <1>3, NthIs
<1>5. ASSUME NEW k \in 1..n, NEW m \in 1..n, k < m PROVE Nth(kept, k) < Nth(kept, m)
  BY <1>2, <1>3, <1>5, NthRises
<1> HIDE DEF n, r
<1>6. DOMAIN r = 1..n /\ r = [k \in 1..n |-> r[k]] /\ \A k \in 1..n : r[k] = list[Nth(kept, k)]
  BY <1>1
<1>7. Len(r) = n BY <1>4, <1>6, ListOf
<1>8. \A k \in 1..n : Nth(kept, k) \in 1..Len(list) BY <1>3, <1>4
<1>9. ASSUME NEW k \in 1..n, NEW m \in 1..n, k < m
      PROVE  \E i, j \in 1..Len(list) : i < j /\ r[k] = list[i] /\ r[m] = list[j]
  BY <1>5, <1>6, <1>8, <1>9
<1>10. \A k \in 1..Len(r) : \E i \in 1..Len(list) : r[k] = list[i] BY <1>6, <1>7, <1>8
<1>11. \A k, m \in 1..Len(r) : k < m =>
          \E i, j \in 1..Len(list) : i < j /\ r[k] = list[i] /\ r[m] = list[j]
  BY <1>7, <1>9
<1> QED BY <1>10, <1>11 DEF r

LEMMA PopClosedTradesClaims == ASSUME ExecInv, ClaimInv, PopClosedTrades PROVE ClaimInv'
<1>1. /\ UNCHANGED <<x, unknown, result>>
      /\ trades' = [tk \in Tickers |-> NotClosed(trades[tk])]
  BY DEF PopClosedTrades
<1>2. CalmInv /\ \A tk \in Tickers : Claims(trades[tk], x, tk) BY DEF ClaimInv
<1>3. ASSUME NEW tk \in Tickers PROVE Claims(trades'[tk], x, tk)
  <2> DEFINE list == trades[tk]
             r == trades'[tk]
  <2>1. IsList(list) /\ Claims(list, x, tk) /\ r = NotClosed(list) BY <1>1, <1>2, ListKnown
  <2> HIDE DEF list, r
  <2>2. /\ \A k \in 1..Len(r) : \E i \in 1..Len(list) : r[k] = list[i]
        /\ \A k, m \in 1..Len(r) : k < m =>
              \E i, j \in 1..Len(list) : i < j /\ r[k] = list[i] /\ r[m] = list[j]
    <3>1. LET s == NotClosed(list)
          IN  /\ \A k \in 1..Len(s) : \E i \in 1..Len(list) : s[k] = list[i]
              /\ \A k, m \in 1..Len(s) : k < m =>
                    \E i, j \in 1..Len(list) : i < j /\ s[k] = list[i] /\ s[m] = list[j]
      BY <2>1, NotClosedRises
    <3> QED BY <2>1, <3>1
  <2>3. ASSUME NEW k \in 1..Len(r) PROVE Claimed(r[k], x, tk)
    <3>1. PICK i \in 1..Len(list) : r[k] = list[i] BY <2>2
    <3>2. Claimed(list[i], x, tk) BY <2>1 DEF Claims
    <3> QED BY <3>1, <3>2
  <2>4. ASSUME NEW k \in 1..Len(r), NEW m \in 1..Len(r), k < m PROVE Apart(r[k], r[m], x)
    <3>1. PICK i \in 1..Len(list), j \in 1..Len(list) :
             i < j /\ r[k] = list[i] /\ r[m] = list[j]
      BY <2>2, <2>4
    <3>2. Apart(list[i], list[j], x) BY <2>1, <3>1 DEF Claims
    <3> QED BY <3>1, <3>2
  <2>5. Claims(r, x, tk) BY <2>3, <2>4 DEF Claims
  <2> QED BY <2>5 DEF r
<1> QED BY <1>1, <1>2, <1>3 DEF ClaimInv, CalmInv

LEMMA InitCalm == ASSUME MaxFaults = 0, Init PROVE CalmInv
<1>1. ExchangeOK(x) BY InitInv DEF ExecInv
<1>2. x.faults = 0 /\ x.ws = <<>> /\ unknown = None /\ result = None BY DEF Init
<1>3. Len(x.ws) = 0 BY <1>2, ListEmpty
<1>4. Ordered(x) BY <1>3 DEF Ordered
<1> QED BY <1>1, <1>2, <1>4 DEF CalmInv, Calm

LEMMA InitClaims == ASSUME MaxFaults = 0, Init PROVE ClaimInv
<1>1. ASSUME NEW tk \in Tickers PROVE Claims(trades[tk], x, tk)
  <2>1. trades[tk] = <<>> BY DEF Init
  <2>2. Len(trades[tk]) = 0 BY <2>1, ListEmpty
  <2>3. 1..0 = {} OBVIOUS
  <2> QED BY <2>2, <2>3 DEF Claims
<1> QED BY <1>1, InitCalm DEF ClaimInv

LEMMA NextClaims ==
    ASSUME "invalidate" \notin Operations, ExecInv, ExecInv', ClaimInv, [Next]_vars
    PROVE  ClaimInv'
<1>0. CalmInv BY DEF ClaimInv
<1>1. CASE \E u \in Uids : Submit(u)
  <2>1. PICK u \in Uids : Submit(u) BY <1>1
  <2>2. CASE SubmitBegin(u) BY <1>0, <2>2, SubmitBeginKeeps, KeepsClaims
  <2>3. CASE PostArrives(u) BY <1>0, <2>3, PostArrivesKeeps, KeepsClaims
  <2>4. CASE SubmitReturns(u) BY <2>4, SubmitReturnsClaims
  <2>5. ~SubmitThrows(u) BY <1>0, NothingThrows
  <2> QED BY <2>1, <2>2, <2>3, <2>4, <2>5 DEF Submit
<1>2. CASE OnOrderUpdate
  <2>1. CASE Keeps BY <2>1, KeepsClaims
  <2>2. CASE \E tk \in Tickers : \E i \in 1..Len(trades[tk]) : \E v : Taken(tk, i, v)
    BY <2>2, TakenClaims
  <2> QED BY <1>0, <1>2, <2>1, <2>2, UpdateTaken
<1>3. CASE \E tk \in Tickers, side \in {"Buy", "Sell"} : OnPositionUpdate(tk, side)
  BY <1>0, <1>3, OnPositionUpdateKeeps, KeepsClaims
<1>4. CASE \E hit \in SUBSET Places, timeout \in BOOLEAN : TickDecide(hit, timeout)
  BY <1>0, <1>4, TickDecideNames, KeepsClaims
<1>5. CASE TickClose BY <1>0, <1>5, TickCloseKeeps, KeepsClaims
<1>6. CASE \E tk \in Tickers :
              TimePasses(tk) \/ TickRearm(tk) \/ CloseTrade(tk) \/ CancelAll(tk)
  BY <1>0, <1>6, TimePassesKeeps, TickRearmKeeps, CloseTradeKeeps, CancelAllKeeps, KeepsClaims
<1>7. ~PollResolves /\ ~PollTimesOut /\ ~HandleReconciled BY <1>0, NothingThrows
<1>8. CASE PopClosedTrades BY <1>8, PopClosedTradesClaims
<1>9. CASE \E id \in DOMAIN x.orders :
              \/ \E n \in 1..x.orders[id].size : EntryFills(id, n)
              \/ ExitFills(id)
              \/ ExchangeCancels(id)
  BY <1>0, <1>9, EntryFillsKeeps, ExitFillsKeeps, ExchangeCancelsKeeps, KeepsClaims
<1>10. CASE UNCHANGED vars
  <2>1. UNCHANGED <<x, trades, unknown, result>> BY <1>10 DEF vars
  <2>2. Onward(x, x') BY <1>0, <2>1, ExchangeRests
  <2> QED BY <1>0, <2>1, <2>2, ExchangeKeeps, KeepsClaims
<1> QED BY <1>1, <1>2, <1>3, <1>4, <1>5, <1>6, <1>7, <1>8, <1>9, <1>10 DEF Next

LEMMA UniqueInv == ASSUME ExecInv, ClaimInv PROVE EntryIdUnique
<1> SUFFICES ASSUME NEW t \in All, NEW v \in All, t.uid # v.uid, t.st # "Closed",
                    v.st # "Closed", t.entry # 0, t.entry = v.entry
             PROVE  FALSE
  BY DEF EntryIdUnique
<1>1. ASSUME NEW w \in All
      PROVE  \E tk \in Tickers : \E i \in 1..Len(trades[tk]) : w = trades[tk][i]
  <2>1. PICK p \in Places : p[2] \in DOMAIN trades[p[1]] /\ w = At(p) BY DEF All
  <2>2. p[1] \in Tickers BY PlacesIs
  <2>3. p[2] \in 1..Len(trades[p[1]]) BY <2>1, <2>2, ListKnown
  <2> QED BY <2>1, <2>2, <2>3 DEF At
<1>2. PICK tk \in Tickers : \E i \in 1..Len(trades[tk]) : t = trades[tk][i] BY <1>1
<1>3. PICK i \in 1..Len(trades[tk]) : t = trades[tk][i] BY <1>2
<1>4. PICK vk \in Tickers : \E j \in 1..Len(trades[vk]) : v = trades[vk][j] BY <1>1
<1>5. PICK j \in 1..Len(trades[vk]) : v = trades[vk][j] BY <1>4
<1>6. Claims(trades[tk], x, tk) /\ Claims(trades[vk], x, vk) BY DEF ClaimInv
<1>7. Claimed(t, x, tk) /\ Claimed(v, x, vk) BY <1>3, <1>5, <1>6 DEF Claims
<1>8. tk = vk BY <1>7 DEF Claimed
<1>9. i # j BY <1>3, <1>5, <1>8
<1>10. i \in Nat /\ j \in Nat /\ i \in 1..Len(trades[tk]) /\ j \in 1..Len(trades[tk])
  BY <1>8
<1>11. CASE i < j
  <2>1. Apart(t, v, x) BY <1>3, <1>5, <1>6, <1>8, <1>10, <1>11 DEF Claims
  <2> QED BY <2>1 DEF Apart
<1>12. CASE j < i
  <2>1. Apart(v, t, x) BY <1>3, <1>5, <1>6, <1>8, <1>10, <1>12 DEF Claims
  <2> QED BY <2>1 DEF Apart
<1> QED BY <1>9, <1>10, <1>11, <1>12

\* on_order_update recognises an entry order that it has no id for by side, type
\* and size, yet two trades never claim the same one: whatever the order in which
\* updates, ticks, closes and cancels come, and however many plans look alike.
\* No gateway call throws and no mark price invalidates a trade: after an
\* exception an intent is reconciled by side and size, and a trade that tick
\* closes before its entry is known leaves the order to its twin.
THEOREM EntriesClaimedOnce ==
    ASSUME MaxFaults = 0, "invalidate" \notin Operations
    PROVE  Spec => []EntryIdUnique
<1>1. Init => ClaimInv BY InitClaims
<1>2. ExecInv /\ ExecInv' /\ ClaimInv /\ [Next]_vars => ClaimInv' BY NextClaims
<1>3. ExecInv /\ ClaimInv => EntryIdUnique BY UniqueInv
<1> QED BY <1>1, <1>2, <1>3, ExecutorConsistent, PTL DEF Spec

-----------------------------------------------------------------------------
(* What is reserved, when no call fails.                                     *)

Sizes == [u \in Uids |-> Reservation(u)]

LEMMA SizesAre ==
    ASSUME NEW S, S \subseteq Uids
    PROVE  IsFiniteSet(S) /\ \A u \in S : Sizes[u] \in Nat /\ Sizes[u] = Reservation(u)
<1>1. Len(Plans) \in Nat BY InstanceAssumption
<1>2. IsFiniteSet(S)
  <2>1. IsFiniteSet(Uids) BY <1>1, FS_Interval DEF Uids
  <2> QED BY <2>1, FS_Subset
<1>3. ASSUME NEW u \in S PROVE Sizes[u] \in Nat /\ Sizes[u] = Reservation(u)
  <2>1. Plans[u].size \in Nat \ {0} BY PlanIs
  <2> QED BY <2>1 DEF Sizes, Reservation
<1> QED BY <1>2, <1>3

LEMMA ReservationsAre ==
    ASSUME NEW S, S \subseteq Uids
    PROVE  MapThenSumSet(LAMBDA u : Reservation(u), S) = SumOver(Sizes, S)
<1> DEFINE Turned(g) == [s \in SUBSET S |-> IF s = {} THEN 0
                                            ELSE Reservation(Some(s)) + g[s \ {Some(s)}]]
           k == CHOOSE k : k = Turned(k)
<1>1. IsFiniteSet(S) /\ \A u \in S : Sizes[u] = Reservation(u) BY SizesAre
<1>2. ASSUME NEW g PROVE Turned(g) = NextSum(g, Sizes, S)
  <2>1. ASSUME NEW s \in SUBSET S, s # {} PROVE Sizes[Some(s)] = Reservation(Some(s))
    BY <1>1, <2>1, SomeIn
  <2> QED BY <2>1 DEF NextSum
<1>3. PICK g : IsSum(g, Sizes, S) BY <1>1, SumExists
<1>4. g = Turned(g)
  <2>1. Turned(g) = NextSum(g, Sizes, S) BY <1>2
  <2> QED BY <1>3, <2>1 DEF IsSum
<1>5. k = Turned(k) BY <1>4
<1>6. MapThenSumSet(LAMBDA u : Reservation(u), S) = k[S]
  BY DEF MapThenSumSet, MapThenFoldSet, Some
<1> HIDE DEF k
<1>7. IsSum(k, Sizes, S)
  <2>1. Turned(k) = NextSum(k, Sizes, S) BY <1>2
  <2> QED BY <1>5, <2>1 DEF IsSum
<1>8. SumOver(Sizes, S) = k[S] BY <1>1, <1>7, SumIs
<1> QED BY <1>6, <1>8

\* The end of the entry order of t is still to be heard of.
Awaits(t, xs) == t.entry = 0 \/ ~Gone(xs, t.entry)

\* The plans whose reservation is not released: their POST is in flight, or their
\* trade awaits the end of its entry.
Owing(ts, inf, xs) ==
    DOMAIN inf \union {u \in Uids : \E tk \in Tickers : \E i \in 1..Len(ts[tk]) :
                                       ts[tk][i].uid = u /\ Awaits(ts[tk][i], xs)}

OwingInv ==
    /\ CalmInv /\ reserved \in Nat
    /\ SumOver(Sizes, Owing(trades, inflight, x)) <= reserved

LEMMA OwingIn == ASSUME ExecInv PROVE Owing(trades, inflight, x) \subseteq submitted
<1>1. DOMAIN inflight \subseteq submitted
      /\ \A tk \in Tickers : \A i \in 1..Len(trades[tk]) : trades[tk][i].uid \in submitted
  BY DEF ExecInv, LandedOK
<1> QED BY <1>1 DEF Owing

LEMMA OwingShrinks ==
    ASSUME ExecInv, OwingInv, Onward(x, x'), unknown' = None, result' = None,
           reserved' = reserved,
           Owing(trades', inflight', x') \subseteq Owing(trades, inflight, x)
    PROVE  OwingInv'
<1> DEFINE S == Owing(trades, inflight, x)
           T == Owing(trades', inflight', x')
<1>1. S \subseteq Uids
  <2>1. submitted \subseteq Uids BY DEF ExecInv, LandedOK
  <2> QED BY <2>1, OwingIn
<1>2. CalmInv' BY DEF CalmInv, Onward
<1>3. T \subseteq S /\ reserved \in Nat /\ SumOver(Sizes, S) <= reserved BY DEF OwingInv
<1> HIDE DEF S, T
<1>4. IsFiniteSet(S) /\ \A u \in S : Sizes[u] \in Nat BY <1>1, SizesAre
<1>5. SumOver(Sizes, T) <= SumOver(Sizes, S) BY <1>3, <1>4, SumSubset
<1>6. IsFiniteSet(T) /\ \A u \in T : Sizes[u] \in Nat BY <1>1, <1>3, SizesAre
<1>7. SumOver(Sizes, S) \in Nat /\ SumOver(Sizes, T) \in Nat BY <1>4, <1>6, SumNat
<1>8. SumOver(Sizes, T) <= reserved BY <1>3, <1>5, <1>7
<1> QED BY <1>2, <1>3, <1>8 DEF OwingInv, T

LEMMA AwaitsBefore ==
    ASSUME NEW xs, NEW ys, Onward(xs, ys), NEW t, TradeOK(t, xs.orders), NEW v, Named(t, v),
           Awaits(v, ys)
    PROVE  Awaits(t, xs)
<1>1. v.entry = t.entry BY DEF Named
<1>2. CASE t.entry = 0 BY <1>2 DEF Awaits
<1>3. CASE t.entry # 0
  <2>1. t.entry \in 1..Len(xs.orders) BY <1>3 DEF TradeOK
  <2>2. Gone(xs, t.entry) => Gone(ys, t.entry) BY <2>1, OnwardFits
  <2> QED BY <1>1, <1>3, <2>2 DEF Awaits
<1> QED BY <1>2, <1>3

LEMMA NamesOwing ==
    ASSUME ExecInv, OwingInv, Onward(x, x'), unknown' = None, result' = None,
           reserved' = reserved, DOMAIN inflight' \subseteq DOMAIN inflight,
           \A tk \in Tickers :
              /\ Len(trades'[tk]) = Len(trades[tk])
              /\ \A i \in 1..Len(trades[tk]) : Named(trades[tk][i], trades'[tk][i])
    PROVE  OwingInv'
<1>1. ASSUME NEW u \in Owing(trades', inflight', x') PROVE u \in Owing(trades, inflight, x)
  <2>1. CASE u \in DOMAIN inflight' BY <2>1 DEF Owing
  <2>2. CASE u \notin DOMAIN inflight'
    <3>1. u \in Uids /\ \E tk \in Tickers : \E i \in 1..Len(trades'[tk]) :
             trades'[tk][i].uid = u /\ Awaits(trades'[tk][i], x')
      BY <2>2 DEF Owing
    <3>0. PICK tk \in Tickers : \E i \in 1..Len(trades'[tk]) :
             trades'[tk][i].uid = u /\ Awaits(trades'[tk][i], x')
      BY <3>1
    <3>2. PICK i \in 1..Len(trades'[tk]) : trades'[tk][i].uid = u /\ Awaits(trades'[tk][i], x')
      BY <3>0
    <3>3. i \in 1..Len(trades[tk]) /\ Named(trades[tk][i], trades'[tk][i]) BY <3>2
    <3>4. TradeOK(trades[tk][i], x.orders) BY <3>3, ListKnown DEF ListOK
    <3>5. Awaits(trades[tk][i], x) BY <3>2, <3>3, <3>4, AwaitsBefore
    <3>6. trades[tk][i].uid = u BY <3>2, <3>3 DEF Named
    <3> QED BY <3>1, <3>3, <3>5, <3>6 DEF Owing
  <2> QED BY <2>1, <2>2
<1>2. Owing(trades', inflight', x') \subseteq Owing(trades, inflight, x) BY <1>1
<1> QED BY <1>2, OwingShrinks

LEMMA KeepsOwing ==
    ASSUME ExecInv, OwingInv, Keeps, reserved' = reserved,
           DOMAIN inflight' \subseteq DOMAIN inflight
    PROVE  OwingInv'
<1>1. Onward(x, x') /\ TradesFollow(trades, trades') /\ unknown' = None /\ result' = None
  BY DEF Keeps
<1>2. \A tk \in Tickers :
         /\ Len(trades'[tk]) = Len(trades[tk])
         /\ \A i \in 1..Len(trades[tk]) : Named(trades[tk][i], trades'[tk][i])
  BY <1>1 DEF TradesFollow, ListFollows, Follows, Named
<1> QED BY <1>1, <1>2, NamesOwing

LEMMA SubmitBeginOwing ==
    ASSUME ExecInv, OwingInv, NEW u \in Uids, SubmitBegin(u) PROVE OwingInv'
<1> DEFINE S == Owing(trades, inflight, x)
           T == Owing(trades', inflight', x')
<1>1. /\ u \notin submitted /\ UNCHANGED <<trades, x, unknown, result>>
      /\ inflight' = [v \in DOMAIN inflight \union {u} |-> IF v = u THEN 0 ELSE inflight[v]]
      /\ reserved' = reserved + Reservation(u)
  BY DEF SubmitBegin
<1>2. DOMAIN inflight' = DOMAIN inflight \union {u} BY <1>1
<1>3. T = S \union {u} BY <1>1, <1>2 DEF Owing
<1>4. S \subseteq Uids /\ u \notin S
  <2>1. submitted \subseteq Uids BY DEF ExecInv, LandedOK
  <2> QED BY <1>1, <2>1, OwingIn
<1>5. CalmInv' BY <1>1 DEF OwingInv, CalmInv
<1>6. reserved \in Nat /\ SumOver(Sizes, S) <= reserved BY DEF OwingInv
<1> HIDE DEF S, T
<1>7. IsFiniteSet(S) /\ \A v \in S : Sizes[v] \in Nat BY <1>4, SizesAre
<1>8. \A v \in S \union {u} : Sizes[v] \in Nat /\ Sizes[v] = Reservation(v) BY <1>4, SizesAre
<1>9. SumOver(Sizes, T) = Sizes[u] + SumOver(Sizes, S)
  <2>1. \A v \in S \union {u} : Sizes[v] \in Int BY <1>8
  <2>2. SumOver(Sizes, S \union {u}) = Sizes[u] + SumOver(Sizes, S)
    BY <1>4, <1>7, <2>1, SumAdd
  <2> QED BY <1>3, <2>2
<1>10. SumOver(Sizes, S) \in Nat BY <1>7, SumNat
<1>11. reserved' \in Nat /\ SumOver(Sizes, T) <= reserved'
  <2> DEFINE a == Sizes[u]
             b == SumOver(Sizes, S)
  <2>1. a \in Nat /\ reserved' = reserved + a BY <1>1, <1>8
  <2>2. SumOver(Sizes, T) = a + b /\ b \in Nat /\ b <= reserved BY <1>6, <1>9, <1>10
  <2> HIDE DEF a, b
  <2> QED BY <1>6, <2>1, <2>2
<1> QED BY <1>5, <1>11 DEF OwingInv, T

LEMMA SubmitReturnsOwing ==
    ASSUME ExecInv, OwingInv, NEW u \in Uids, SubmitReturns(u) PROVE OwingInv'
<1> DEFINE a == Plans[u].ticker
           n == NewTrade(u, "PendingEntry")
           list == trades[a]
           later == Append(list, n)
<1>1. /\ UNCHANGED <<x, unknown, result, reserved>> /\ trades' = [trades EXCEPT ![a] = later]
      /\ u \in DOMAIN inflight /\ Landed(u)
  BY DEF SubmitReturns, Push
<1>2. a \in Tickers BY PlanIs DEF PlanType
<1>3. n.uid = u BY DEF NewTrade
<1>4. trades'[a] = later /\ \A k \in Tickers : k # a => trades'[k] = trades[k]
  BY <1>1, <1>2 DEF ExecInv
<1>5. DOMAIN inflight' = DOMAIN inflight \ {u} BY <1>1 DEF Landed
<1>6. IsList(list) /\ Len(list) \in Nat BY <1>2, ListKnown
<1> HIDE DEF a, n
<1>7. Len(later) = Len(list) + 1 /\ later[Len(list) + 1] = n
      /\ \A i \in 1..Len(list) : later[i] = list[i]
  <2> HIDE DEF list
  <2> QED BY <1>6, ListAppend
<1> HIDE DEF later
<1>8. ASSUME NEW w \in Owing(trades', inflight', x') PROVE w \in Owing(trades, inflight, x)
  <2>1. CASE w \in DOMAIN inflight' BY <1>5, <2>1 DEF Owing
  <2>2. CASE w \notin DOMAIN inflight'
    <3>1. w \in Uids /\ \E tk \in Tickers : \E i \in 1..Len(trades'[tk]) :
             trades'[tk][i].uid = w /\ Awaits(trades'[tk][i], x')
      BY <2>2 DEF Owing
    <3>2. PICK tk \in Tickers : \E i \in 1..Len(trades'[tk]) :
             trades'[tk][i].uid = w /\ Awaits(trades'[tk][i], x')
      BY <3>1
    <3>3. PICK i \in 1..Len(trades'[tk]) : trades'[tk][i].uid = w /\ Awaits(trades'[tk][i], x')
      BY <3>2
    <3>4. CASE trades'[tk][i] = n BY <1>1, <1>3, <3>3, <3>4 DEF Owing
    <3>5. CASE trades'[tk][i] # n
      <4>1. i \in 1..Len(trades[tk]) /\ trades'[tk][i] = trades[tk][i]
        <5>1. CASE tk = a
          <6>1. i \in 1..Len(later) /\ later[i] # n BY <1>4, <3>3, <3>5, <5>1
          <6>2. i \in 1..Len(list) BY <1>6, <1>7, <6>1
          <6> QED BY <1>4, <1>7, <5>1, <6>2
        <5>2. CASE tk # a BY <1>4, <5>2
        <5> QED BY <5>1, <5>2
      <4>2. Awaits(trades[tk][i], x) BY <1>1, <3>3, <4>1
      <4> QED BY <3>1, <3>3, <4>1, <4>2 DEF Owing
    <3> QED BY <3>4, <3>5
  <2> QED BY <2>1, <2>2
<1>9. Owing(trades', inflight', x') \subseteq Owing(trades, inflight, x) BY <1>8
<1>10. CalmInv BY DEF OwingInv
<1>11. Onward(x, x') BY <1>1, <1>10, ExchangeRests
<1>12. unknown' = None /\ result' = None /\ reserved' = reserved BY <1>1, <1>10 DEF CalmInv
<1> QED BY <1>9, <1>11, <1>12, OwingShrinks

LEMMA PopClosedTradesOwing == ASSUME ExecInv, OwingInv, PopClosedTrades PROVE OwingInv'
<1>1. /\ UNCHANGED <<x, unknown, result, reserved, inflight>>
      /\ trades' = [tk \in Tickers |-> NotClosed(trades[tk])]
  BY DEF PopClosedTrades
<1>2. ASSUME NEW tk \in Tickers PROVE KeptOf(trades'[tk], trades[tk])
  <2>1. trades'[tk] = NotClosed(trades[tk]) BY <1>1
  <2>2. IsList(trades[tk]) BY ListKnown
  <2> QED BY <2>1, <2>2, NotClosedOK
<1>3. \A tk \in Tickers : \A k \in 1..Len(trades'[tk]) :
         \E i \in 1..Len(trades[tk]) : trades'[tk][k] = trades[tk][i]
  BY <1>2 DEF KeptOf
<1>4. Owing(trades', inflight', x') \subseteq Owing(trades, inflight, x)
  BY <1>1, <1>3 DEF Owing
<1>5. CalmInv BY DEF OwingInv
<1>6. Onward(x, x') BY <1>1, <1>5, ExchangeRests
<1>7. unknown' = None /\ result' = None /\ reserved' = reserved BY <1>1, <1>5 DEF CalmInv
<1> QED BY <1>4, <1>6, <1>7, OwingShrinks

LEMMA TakenOwing ==
    ASSUME ExecInv, OwingInv, NEW tk \in Tickers, NEW i \in 1..Len(trades[tk]), NEW v,
           Taken(tk, i, v)
    PROVE  OwingInv'
<1> DEFINE u == Head(x.ws)
           id == u.id
           list == trades[tk]
           t == list[i]
           role == Role(t, u)
           later == [list EXCEPT ![i] = v]
           ended == role = "entry" /\ u.status = "Closed"
           S == Owing(trades, inflight, x)
           T == Owing(trades', inflight', x')
<1>1. /\ id # 0 /\ ~Gone(x, id) /\ (ended => Gone(x', id))
      /\ Onward(x, x') /\ trades' = [trades EXCEPT ![tk] = later]
      /\ v.uid = t.uid /\ v.entry = (IF role = "entry" THEN id ELSE t.entry)
      /\ reserved' = Release(IF ended THEN Reservation(t.uid) ELSE 0)
      /\ UNCHANGED <<inflight, unknown, result>>
  BY Zenon DEF Taken
<1>2. role = "entry" => id = t.entry \/ t.entry = 0 BY RoleTells
<1>3. ListOK(list, tk, x.orders) /\ IsList(list) /\ Len(list) \in Nat BY ListKnown
<1>4. TradeOK(t, x.orders) /\ Plans[t.uid].ticker = tk /\ t.uid \in Uids
  BY <1>3 DEF ListOK, TradeOK
<1>5. Len(later) = Len(list) /\ later[i] = v /\ \A j \in 1..Len(list) : j # i => later[j] = list[j]
  BY <1>3, ListExcept
<1>6. trades'[tk] = later /\ \A k \in Tickers : k # tk => trades'[k] = trades[k]
  BY <1>1 DEF ExecInv
<1>7. t.uid \notin DOMAIN inflight BY DEF ExecInv, LandedOK
<1> HIDE DEF role, id, u, ended
<1>8. ASSUME NEW k \in Tickers, NEW j \in 1..Len(trades'[k])
      PROVE  /\ j \in 1..Len(trades[k])
             /\ k = tk /\ j = i => trades'[k][j] = v
             /\ ~(k = tk /\ j = i) => trades'[k][j] = trades[k][j]
  <2> HIDE DEF later
  <2>1. CASE k = tk BY <1>5, <1>6, <2>1
  <2>2. CASE k # tk BY <1>6, <2>2
  <2> QED BY <2>1, <2>2
<1>9. Awaits(v, x') => Awaits(t, x)
  <2>1. CASE role = "entry" BY <1>1, <1>2, <2>1 DEF Awaits
  <2>2. CASE role # "entry"
    <3>1. Named(t, v) BY <1>1, <2>2 DEF Named
    <3> HIDE DEF t
    <3> QED BY <1>1, <1>4, <3>1, AwaitsBefore
  <2> QED BY <2>1, <2>2
<1>10. ASSUME NEW k \in Tickers, NEW j \in 1..Len(trades'[k]), Awaits(trades'[k][j], x')
       PROVE  /\ j \in 1..Len(trades[k]) /\ trades[k][j].uid = trades'[k][j].uid
              /\ Awaits(trades[k][j], x)
  <2>1. CASE k = tk /\ j = i BY <1>1, <1>8, <1>9, <1>10, <2>1
  <2>2. CASE ~(k = tk /\ j = i)
    <3> DEFINE w == trades[k][j]
    <3>1. j \in 1..Len(trades[k]) /\ trades'[k][j] = w BY <1>8, <2>2
    <3>2. TradeOK(w, x.orders) BY <3>1, ListKnown DEF ListOK
    <3>3. Awaits(w, x') /\ Named(w, w) BY <1>10, <3>1 DEF Named
    <3> HIDE DEF w
    <3>4. Awaits(w, x) BY <1>1, <3>2, <3>3, AwaitsBefore
    <3> QED BY <3>1, <3>4 DEF w
  <2> QED BY <2>1, <2>2
<1>11. T \subseteq S
  <2> SUFFICES ASSUME NEW w \in T PROVE w \in S OBVIOUS
  <2>1. CASE w \in DOMAIN inflight BY <2>1 DEF Owing
  <2>2. CASE w \notin DOMAIN inflight
    <3>1. w \in Uids /\ \E k \in Tickers : \E j \in 1..Len(trades'[k]) :
             trades'[k][j].uid = w /\ Awaits(trades'[k][j], x')
      BY <1>1, <2>2 DEF Owing
    <3>2. PICK k \in Tickers : \E j \in 1..Len(trades'[k]) :
             trades'[k][j].uid = w /\ Awaits(trades'[k][j], x')
      BY <3>1
    <3>3. PICK j \in 1..Len(trades'[k]) : trades'[k][j].uid = w /\ Awaits(trades'[k][j], x')
      BY <3>2
    <3>4. j \in 1..Len(trades[k]) /\ trades[k][j].uid = w /\ Awaits(trades[k][j], x)
      BY <1>10, <3>3
    <3> QED BY <3>1, <3>4 DEF Owing
  <2> QED BY <2>1, <2>2
<1>12. ASSUME ended PROVE t.uid \in S /\ t.uid \notin T
  <2>1. role = "entry" BY <1>12 DEF ended
  <2>2. Awaits(t, x) BY <1>1, <1>2, <2>1 DEF Awaits
  <2>3. t.uid \in S BY <1>4, <2>2 DEF Owing
  <2>4. ~Awaits(v, x') BY <1>1, <1>12, <2>1 DEF Awaits
  <2>5. ASSUME t.uid \in T PROVE FALSE
    <3>1. \E k \in Tickers : \E j \in 1..Len(trades'[k]) :
             trades'[k][j].uid = t.uid /\ Awaits(trades'[k][j], x')
      BY <1>1, <1>7, <2>5 DEF Owing
    <3>2. PICK k \in Tickers : \E j \in 1..Len(trades'[k]) :
             trades'[k][j].uid = t.uid /\ Awaits(trades'[k][j], x')
      BY <3>1
    <3>3. PICK j \in 1..Len(trades'[k]) : trades'[k][j].uid = t.uid /\ Awaits(trades'[k][j], x')
      BY <3>2
    <3>4. j \in 1..Len(trades[k]) /\ trades[k][j].uid = t.uid BY <1>10, <3>3
    <3>5. Plans[trades[k][j].uid].ticker = k BY <3>4, ListKnown DEF ListOK
    <3>6. k = tk BY <1>4, <3>4, <3>5
    <3>7. j = i BY <1>3, <3>4, <3>6 DEF ListOK
    <3>8. trades'[k][j] = v BY <1>8, <3>6, <3>7
    <3> QED BY <2>4, <3>3, <3>8
  <2> QED BY <2>3, <2>5
<1>13. CASE ~ended
  <2>1. reserved \in Nat BY DEF OwingInv
  <2>2. reserved' = reserved BY <1>1, <1>13, <2>1 DEF Release
  <2>3. unknown' = None /\ result' = None BY <1>1 DEF OwingInv, CalmInv
  <2> HIDE DEF t
  <2> QED BY <1>1, <1>11, <2>2, <2>3, OwingShrinks
<1>14. CASE ended
  <2> DEFINE w == t.uid
  <2>1. T \subseteq S \ {w} /\ w \in S BY <1>11, <1>12, <1>14
  <2>2. S \subseteq Uids
    <3>1. submitted \subseteq Uids BY DEF ExecInv, LandedOK
    <3> QED BY <3>1, OwingIn
  <2>3. reserved \in Nat /\ SumOver(Sizes, S) <= reserved BY DEF OwingInv
  <2>4. CalmInv' BY <1>1 DEF OwingInv, CalmInv, Onward
  <2>5. reserved' = Release(Reservation(w)) BY <1>1, <1>14
  <2> HIDE DEF w, S, T
  <2>6. IsFiniteSet(S) /\ \A h \in S : Sizes[h] \in Nat /\ Sizes[h] = Reservation(h)
    BY <2>2, SizesAre
  <2> DEFINE R == S \ {w}
  <2>7. R \subseteq S OBVIOUS
  <2>8. SumOver(Sizes, S) = Sizes[w] + SumOver(Sizes, R)
    <3>1. \A h \in S : Sizes[h] \in Int BY <2>6
    <3> QED BY <2>1, <2>6, <3>1, SumTake
  <2>9. T \subseteq R BY <2>1
  <2> HIDE DEF R
  <2>10. IsFiniteSet(R) /\ \A h \in R : Sizes[h] \in Nat BY <2>2, <2>7, SizesAre
  <2>11. SumOver(Sizes, T) <= SumOver(Sizes, R) BY <2>9, <2>10, SumSubset
  <2>12. SumOver(Sizes, R) \in Nat /\ Sizes[w] \in Nat BY <2>1, <2>6, <2>10, SumNat
  <2>13. SumOver(Sizes, T) \in Nat
    <3>1. T \subseteq Uids BY <2>2, <2>7, <2>9
    <3>2. IsFiniteSet(T) /\ \A h \in T : Sizes[h] \in Nat BY <3>1, SizesAre
    <3> QED BY <3>2, SumNat
  <2>14. reserved' \in Nat /\ SumOver(Sizes, T) <= reserved'
    <3> DEFINE a == Sizes[w]
               b == SumOver(Sizes, R)
               c == SumOver(Sizes, T)
    <3>1. reserved' = IF reserved >= a THEN reserved - a ELSE 0 BY <2>1, <2>5, <2>6 DEF Release
    <3>2. a \in Nat /\ b \in Nat /\ c \in Nat /\ a + b <= reserved /\ c <= b
      BY <2>3, <2>8, <2>11, <2>12, <2>13
    <3> HIDE DEF a, b, c
    <3>3. reserved >= a BY <2>3, <3>2
    <3>4. reserved' \in Nat /\ c <= reserved' BY <2>3, <3>1, <3>2, <3>3
    <3> QED BY <3>4 DEF c
  <2> QED BY <2>4, <2>14 DEF OwingInv, T
<1> QED BY <1>13, <1>14

LEMMA InitOwing == ASSUME MaxFaults = 0, Init PROVE OwingInv
<1>1. DOMAIN inflight = {} /\ reserved = 0 /\ \A tk \in Tickers : trades[tk] = <<>> BY DEF Init
<1>2. \A tk \in Tickers : Len(trades[tk]) = 0 BY <1>1, ListEmpty
<1>3. 1..0 = {} OBVIOUS
<1>4. Owing(trades, inflight, x) = {} BY <1>1, <1>2, <1>3 DEF Owing
<1>5. SumOver(Sizes, {}) = 0 BY SumEmpty
<1> QED BY <1>1, <1>4, <1>5, InitCalm DEF OwingInv

LEMMA NextOwing ==
    ASSUME "cancel_all" \notin Operations, "reservation_timeout" \notin Operations,
           ExecInv, ExecInv', OwingInv, [Next]_vars
    PROVE  OwingInv'
<1>0. CalmInv BY DEF OwingInv
<1>1. CASE \E u \in Uids : Submit(u)
  <2>1. PICK u \in Uids : Submit(u) BY <1>1
  <2>2. CASE SubmitBegin(u) BY <2>2, SubmitBeginOwing
  <2>3. CASE PostArrives(u)
    <3>1. Keeps BY <1>0, <2>3, PostArrivesKeeps
    <3>2. reserved' = reserved /\ DOMAIN inflight' = DOMAIN inflight BY <2>3 DEF PostArrives
    <3> QED BY <3>1, <3>2, KeepsOwing
  <2>4. CASE SubmitReturns(u) BY <2>4, SubmitReturnsOwing
  <2>5. ~SubmitThrows(u) BY <1>0, NothingThrows
  <2> QED BY <2>1, <2>2, <2>3, <2>4, <2>5 DEF Submit
<1>2. CASE OnOrderUpdate
  <2>1. CASE Keeps /\ UNCHANGED <<reserved, inflight>> BY <2>1, KeepsOwing
  <2>2. CASE \E tk \in Tickers : \E i \in 1..Len(trades[tk]) : \E v : Taken(tk, i, v)
    BY <2>2, TakenOwing
  <2> QED BY <1>0, <1>2, <2>1, <2>2, UpdateTaken
<1>3. CASE \E tk \in Tickers, side \in {"Buy", "Sell"} : OnPositionUpdate(tk, side)
  <2>1. UNCHANGED <<reserved, inflight>> BY <1>3 DEF OnPositionUpdate
  <2>2. Keeps BY <1>0, <1>3, OnPositionUpdateKeeps
  <2> QED BY <2>1, <2>2, KeepsOwing
<1>4. CASE \E hit \in SUBSET Places, timeout \in BOOLEAN : TickDecide(hit, timeout)
  <2>1. PICK hit \in SUBSET Places, timeout \in BOOLEAN : TickDecide(hit, timeout) BY <1>4
  <2>2. reserved' = reserved BY <2>1 DEF TickDecide
  <2>3. /\ UNCHANGED <<x, unknown, result, inflight>>
        /\ \A tk \in Tickers :
              /\ Len(trades'[tk]) = Len(trades[tk])
              /\ \A i \in 1..Len(trades[tk]) : Named(trades[tk][i], trades'[tk][i])
    BY <1>0, <2>1, TickDecideNames
  <2>4. Onward(x, x') BY <1>0, <2>3, ExchangeRests
  <2>5. unknown' = None /\ result' = None BY <1>0, <2>3 DEF CalmInv
  <2> QED BY <2>2, <2>3, <2>4, <2>5, NamesOwing
<1>5. CASE TickClose
  <2>1. UNCHANGED <<reserved, inflight>>
    BY <1>5 DEF TickClose, TickCancelStop, TickCancelTp, TickCloseMarket, TickRecord
  <2> QED BY <1>0, <1>5, <2>1, TickCloseKeeps, KeepsOwing
<1>6. CASE \E tk \in Tickers :
              TimePasses(tk) \/ TickRearm(tk) \/ CloseTrade(tk) \/ CancelAll(tk)
  <2>1. PICK tk \in Tickers : TimePasses(tk) \/ TickRearm(tk) \/ CloseTrade(tk) \/ CancelAll(tk)
    BY <1>6
  <2>2. ~CancelAll(tk) BY DEF CancelAll
  <2>3. UNCHANGED <<reserved, inflight>> BY <2>1, <2>2 DEF TimePasses, TickRearm, CloseTrade
  <2>4. Keeps BY <1>0, <2>1, <2>2, TimePassesKeeps, TickRearmKeeps, CloseTradeKeeps
  <2> QED BY <2>3, <2>4, KeepsOwing
<1>7. ~PollResolves /\ ~PollTimesOut /\ ~HandleReconciled BY <1>0, NothingThrows
<1>8. CASE PopClosedTrades BY <1>8, PopClosedTradesOwing
<1>9. CASE \E id \in DOMAIN x.orders :
              \/ \E n \in 1..x.orders[id].size : EntryFills(id, n)
              \/ ExitFills(id)
              \/ ExchangeCancels(id)
  <2>1. UNCHANGED <<reserved, inflight>> BY <1>9 DEF EntryFills, ExitFills, ExchangeCancels
  <2>2. Keeps
    BY <1>0, <1>9, EntryFillsKeeps, ExitFillsKeeps, ExchangeCancelsKeeps
  <2> QED BY <2>1, <2>2, KeepsOwing
<1>10. CASE UNCHANGED vars
  <2>1. UNCHANGED <<x, trades, unknown, result, reserved, inflight>> BY <1>10 DEF vars
  <2>2. Onward(x, x') BY <1>0, <2>1, ExchangeRests
  <2>3. Keeps BY <1>0, <2>1, <2>2, ExchangeKeeps
  <2> QED BY <2>1, <2>3, KeepsOwing
<1> QED BY <1>1, <1>2, <1>3, <1>4, <1>5, <1>6, <1>7, <1>8, <1>9, <1>10 DEF Next

LEMMA CoversInv == ASSUME ExecInv, OwingInv PROVE ReservationCovers
<1> DEFINE S == Owing(trades, inflight, x)
           D == DOMAIN inflight
<1>1. S \subseteq Uids /\ D \subseteq S
  <2>1. submitted \subseteq Uids BY DEF ExecInv, LandedOK
  <2> QED BY <2>1, OwingIn DEF Owing
<1>2. reserved \in Nat /\ SumOver(Sizes, S) <= reserved BY DEF OwingInv
<1>3. ReservationCovers <=> reserved >= MapThenSumSet(LAMBDA u : Reservation(u), D)
  BY DEF ReservationCovers
<1> HIDE DEF S, D
<1>4. D \subseteq Uids BY <1>1
<1>5. MapThenSumSet(LAMBDA u : Reservation(u), D) = SumOver(Sizes, D) BY <1>4, ReservationsAre
<1>6. IsFiniteSet(S) /\ \A u \in S : Sizes[u] \in Nat BY <1>1, SizesAre
<1>7. IsFiniteSet(D) /\ \A u \in D : Sizes[u] \in Nat BY <1>4, SizesAre
<1>8. SumOver(Sizes, D) <= SumOver(Sizes, S) BY <1>1, <1>6, SumSubset
<1>9. SumOver(Sizes, D) \in Nat /\ SumOver(Sizes, S) \in Nat BY <1>6, <1>7, SumNat
<1>10. reserved >= SumOver(Sizes, D) BY <1>2, <1>8, <1>9
<1> QED BY <1>3, <1>5, <1>10

\* reserved_balance_usd_ never falls below what the submits in flight have
\* reserved: an entry that ends gives back the reservation of its own plan, once,
\* even when its last updates overtake the return of another plan's POST.  No
\* gateway call throws, cancel_all is not called and no reservation times out:
\* each of these gives back what an order in flight, or its late end, gives
\* back again.
THEOREM ReservationsCovered ==
    ASSUME MaxFaults = 0, "cancel_all" \notin Operations, "reservation_timeout" \notin Operations
    PROVE  Spec => []ReservationCovers
<1>1. Init => OwingInv BY InitOwing
<1>2. ExecInv /\ ExecInv' /\ OwingInv /\ [Next]_vars => OwingInv' BY NextOwing
<1>3. ExecInv /\ OwingInv => ReservationCovers BY CoversInv
<1> QED BY <1>1, <1>2, <1>3, ExecutorConsistent, PTL DEF Spec
=============================================================================
