---------------------------- MODULE MarketProofs ----------------------------
(* Proofs about Market.                                                       *)
(*                                                                            *)
(* Resubscribed: what the websocket client still has to write, added to what  *)
(* the exchange has been told, always covers the account and every ticker     *)
(* that is wanted.                                                            *)
(*                                                                            *)
(* BookFaithful: at every place between the exchange and a book, the wire,    *)
(* the message in the reader's hands, the queue of the strand and what waits  *)
(* for a snapshot, the last word about a level is what the exchange's book    *)
(* has; so when nothing is on its way, neither is a difference.               *)
EXTENDS Market, SumProofs, SequenceTheorems, TLAPS

\* What is put in the queue of the client.
Messages ==
    {Account, Gone} \union UNION {{Sub(t), Unsub(t), Ask(t)} : t \in Tickers}

\* Place i of the queue q while w is being written: the message at the front
\* is moved from by then.
Place(q, w, i) == IF i = 1 /\ w # NoMsg THEN w ELSE q[i]

Subscribes(m, t) == m = Sub(t) \/ m = Ask(t)

\* The last word about t that is still to be written is a subscription.
LastSubscribes(q, w, t) ==
    \E i \in 1..Len(q) :
        /\ Subscribes(Place(q, w, i), t)
        /\ \A j \in (i + 1)..Len(q) : Place(q, w, j) # Unsub(t)

\* Nothing still to be written unsubscribes t.
NoUnsub(q, w, t) == \A j \in 1..Len(q) : Place(q, w, j) # Unsub(t)

\* The words about t: the last one queued subscribes, or the exchange has the
\* subscription and none takes it back.
Told(q, w, s, t) == LastSubscribes(q, w, t) \/ (t \in s /\ NoUnsub(q, w, t))

AccountQueued(q, w) == \E i \in 1..Len(q) : Place(q, w, i) = Account

Covered(t) ==
    \/ t \in resub
    \/ main.op = "subscribe" /\ main.ticker = t
    \/ Told(writeQ, writeMsg, subs, t)

Up == connected /\ reading /\ ~dropped

LinkTypeOK ==
    /\ writeQ \in Seq(Messages) /\ writeMsg \in Messages \union {NoMsg}
    /\ {connected, timer, resolving, reading, dropped, account} \subseteq BOOLEAN
    /\ subs \subseteq Tickers /\ wanted \subseteq Tickers /\ resub \subseteq Tickers
    /\ main.op \in {"subscribe", "register", "unsubscribe"} => main.ticker \in Tickers

\* What is being written is still at the front of the queue.
FrontIsWritten == writeMsg # NoMsg => writeQ # <<>>

BeingOpened == connected \/ timer \/ resolving \/ stream = "opening"

AllCovered ==
    Up => /\ account \/ AccountQueued(writeQ, writeMsg)
          /\ \A t \in wanted : Covered(t)

\* A ticker about to be unsubscribed is not wanted.
LeavesWanted == main.op = "unsubscribe" => main.ticker \notin wanted

LinkInv == LinkTypeOK /\ FrontIsWritten /\ BeingOpened /\ AllCovered /\ LeavesWanted

-----------------------------------------------------------------------------
(* Messages and the queue. *)

LEMMA KindsDiffer ==
    ASSUME NEW m \in Messages
    PROVE  /\ m # NoMsg
           /\ m.kind = "subscribe" => m = Account
           /\ m.kind = "ticker_subscribe" => m = Sub(m.ticker) /\ m.ticker \in Tickers
           /\ m.kind = "orderbook_subscribe" => m = Ask(m.ticker) /\ m.ticker \in Tickers
           /\ m.kind = "ticker_unsubscribe" => m = Unsub(m.ticker) /\ m.ticker \in Tickers
BY DEF Messages, Account, Gone, NoMsg, Sub, Unsub, Ask

LEMMA KindsAre ==
    ASSUME NEW t \in Tickers
    PROVE  /\ {Sub(t), Unsub(t), Ask(t)} \subseteq Messages
           /\ Sub(t).kind = "ticker_subscribe" /\ Sub(t).ticker = t
           /\ Ask(t).kind = "orderbook_subscribe" /\ Ask(t).ticker = t
           /\ Unsub(t).kind = "ticker_unsubscribe" /\ Unsub(t).ticker = t
BY DEF Messages, Sub, Unsub, Ask

LEMMA AccountKind ==
    /\ Account \in Messages /\ Gone \in Messages
    /\ Account.kind = "subscribe" /\ Gone.kind = "moved_from"
BY DEF Messages, Account, Gone

\* A full queue stays a queue, and one with room gets the message at its end.
LEMMA PushIs ==
    ASSUME NEW q \in Seq(Messages), NEW m \in Messages
    PROVE  /\ Push(q, m) \in Seq(Messages) /\ Push(q, m) # <<>>
           /\ ~(Len(q) >= MaxQueue) =>
                 /\ Len(Push(q, m)) = Len(q) + 1
                 /\ \A i \in 1..Len(q) : Push(q, m)[i] = q[i]
                 /\ Push(q, m)[Len(q) + 1] = m
<1>1. MaxQueue \in Nat \ {0} BY MarketAssumption
<1>2. CASE Len(q) >= MaxQueue
  <2>1. q # <<>>
    <3>1. SUFFICES ASSUME q = <<>> PROVE FALSE OBVIOUS
    <3>2. Len(q) = 0 BY <3>1
    <3> QED BY <1>1, <1>2, <3>2
  <2>2. Tail(q) \in Seq(Messages) BY <2>1
  <2>3. Append(Tail(q), m) \in Seq(Messages) BY <2>2
  <2>4. Append(Tail(q), m) # <<>> BY <2>2, AppendProperties
  <2>5. Push(q, m) = Append(Tail(q), m) BY <1>2 DEF Push
  <2> QED BY <1>2, <2>3, <2>4, <2>5
<1>3. CASE ~(Len(q) >= MaxQueue)
  BY <1>3 DEF Push
<1> QED BY <1>2, <1>3

\* Writing the queue q leaves every message of it in its place.
LEMMA StartWriteIs ==
    ASSUME NEW q \in Seq(Messages), StartWrite(q)
    PROVE  /\ writeQ' \in Seq(Messages) /\ writeMsg' \in Messages \union {NoMsg}
           /\ FrontIsWritten'
           /\ Len(writeQ') = Len(q)
           /\ \A i \in 1..Len(q) : Place(writeQ', writeMsg', i) = q[i]
<1>1. CASE q = <<>> BY <1>1 DEF StartWrite, FrontIsWritten
<1>2. CASE q # <<>>
  <2>1. writeQ' = [q EXCEPT ![1] = Gone] /\ writeMsg' = Head(q)
    BY <1>2 DEF StartWrite
  <2>2. Head(q) = q[1] /\ Head(q) \in Messages BY <1>2, HeadTailProperties
  <2>3. writeMsg' # NoMsg BY <2>1, <2>2, KindsDiffer
  <2>4. /\ writeQ' \in Seq(Messages) /\ Len(writeQ') = Len(q)
        /\ \A i \in 1..Len(q) : i # 1 => writeQ'[i] = q[i]
    BY <1>2, <2>1, AccountKind, ExceptSeq
  <2>5. Len(q) \in Nat /\ Len(q) # 0 BY <1>2, EmptySeq
  <2> QED BY <2>1, <2>2, <2>3, <2>4, <2>5, EmptySeq DEF Place, FrontIsWritten
<1> QED BY <1>1, <1>2

\* Sending keeps what is queued in its place and adds the message behind it.
LEMMA SendIs ==
    ASSUME LinkTypeOK, FrontIsWritten, NEW m \in Messages, Send(m)
    PROVE  /\ writeQ' \in Seq(Messages) /\ writeMsg' \in Messages \union {NoMsg}
           /\ dropped' \in BOOLEAN /\ FrontIsWritten' /\ (dropped => dropped')
           /\ ~dropped' =>
                 /\ Len(writeQ') = Len(writeQ) + 1
                 /\ \A i \in 1..Len(writeQ) :
                       Place(writeQ', writeMsg', i) = Place(writeQ, writeMsg, i)
                 /\ Place(writeQ', writeMsg', Len(writeQ) + 1) = m
<1> USE DEF LinkTypeOK
<1>1. CASE stream # "none" /\ writeQ = <<>> /\ connected
  <2>1. writeQ' = <<Gone>> /\ writeMsg' = m /\ dropped' = dropped
    BY <1>1 DEF Send
  <2>2. m # NoMsg BY KindsDiffer
  <2>3. writeQ' \in Seq(Messages) /\ Len(writeQ') = 1 /\ writeQ' # <<>>
    BY <2>1, AccountKind
  <2>4. Len(writeQ) = 0 BY <1>1
  <2>5. Place(writeQ', writeMsg', 1) = m BY <2>1, <2>2 DEF Place
  <2> QED BY <2>1, <2>3, <2>4, <2>5 DEF FrontIsWritten
<1>2. CASE ~(stream # "none" /\ writeQ = <<>> /\ connected)
  <2>1. /\ writeQ' = Push(writeQ, m) /\ writeMsg' = writeMsg
        /\ dropped' = (dropped \/ Len(writeQ) >= MaxQueue)
    BY <1>2 DEF Send, Drops
  <2>2. writeQ' \in Seq(Messages) /\ writeQ' # <<>> BY <2>1, PushIs
  <2>3. ASSUME ~dropped'
        PROVE  /\ Len(writeQ') = Len(writeQ) + 1
               /\ \A i \in 1..Len(writeQ) : writeQ'[i] = writeQ[i]
               /\ writeQ'[Len(writeQ) + 1] = m
    BY <2>1, <2>3, PushIs
  <2>4. ASSUME ~dropped'
        PROVE  Place(writeQ', writeMsg', Len(writeQ) + 1) = m
    <3>1. CASE writeQ = <<>> BY <2>1, <2>3, <2>4, <3>1 DEF Place, FrontIsWritten
    <3>2. CASE writeQ # <<>>
      <4>1. Len(writeQ) + 1 # 1 BY <3>2
      <4> QED BY <2>3, <2>4, <4>1 DEF Place
    <3> QED BY <3>1, <3>2
  <2> QED BY <2>1, <2>2, <2>3, <2>4 DEF Place, FrontIsWritten
<1> QED BY <1>1, <1>2

-----------------------------------------------------------------------------
(* What is covered stays covered while messages are sent and written. *)

\* Queue q2 is q with m behind it.
Extends(q2, w2, q, w, m) ==
    /\ Len(q2) = Len(q) + 1
    /\ \A i \in 1..Len(q) : Place(q2, w2, i) = Place(q, w, i)
    /\ Place(q2, w2, Len(q) + 1) = m

LEMMA ExtendedQueue ==
    ASSUME NEW q \in Seq(Messages), NEW w, NEW q2 \in Seq(Messages), NEW w2,
           NEW m \in Messages, Extends(q2, w2, q, w, m), NEW s
    PROVE  /\ AccountQueued(q, w) \/ m = Account => AccountQueued(q2, w2)
           /\ \A t \in Tickers :
                 /\ Subscribes(m, t) => Told(q2, w2, s, t)
                 /\ Told(q, w, s, t) /\ m # Unsub(t) => Told(q2, w2, s, t)
<1> DEFINE n == Len(q)
<1>1. n \in Nat /\ Len(q2) = n + 1 BY DEF Extends
<1>2. /\ \A i \in 1..n : Place(q2, w2, i) = Place(q, w, i)
      /\ Place(q2, w2, n + 1) = m
  BY DEF Extends
<1>3. AccountQueued(q, w) \/ m = Account => AccountQueued(q2, w2)
  BY <1>1, <1>2 DEF AccountQueued
<1>4. ASSUME NEW t \in Tickers, Subscribes(m, t) PROVE LastSubscribes(q2, w2, t)
  <2>1. \A j \in (n + 2)..(n + 1) : Place(q2, w2, j) # Unsub(t) BY <1>1
  <2> QED BY <1>1, <1>2, <1>4, <2>1 DEF LastSubscribes
<1>5. ASSUME NEW t \in Tickers, LastSubscribes(q, w, t), m # Unsub(t)
      PROVE  LastSubscribes(q2, w2, t)
  <2>1. PICK i \in 1..n : /\ Subscribes(Place(q, w, i), t)
                          /\ \A j \in (i + 1)..n : Place(q, w, j) # Unsub(t)
    BY <1>5 DEF LastSubscribes
  <2>2. \A j \in (i + 1)..(n + 1) : Place(q2, w2, j) # Unsub(t)
    <3> SUFFICES ASSUME NEW j \in (i + 1)..(n + 1) PROVE Place(q2, w2, j) # Unsub(t)
      OBVIOUS
    <3>1. j = n + 1 \/ (j \in 1..n /\ j \in (i + 1)..n) BY <1>1
    <3> QED BY <1>2, <1>5, <2>1, <3>1
  <2>3. i \in 1..Len(q2) /\ Subscribes(Place(q2, w2, i), t) BY <1>1, <1>2, <2>1
  <2> QED BY <1>1, <2>2, <2>3 DEF LastSubscribes
<1>6. ASSUME NEW t \in Tickers, NoUnsub(q, w, t), m # Unsub(t) PROVE NoUnsub(q2, w2, t)
  <2> SUFFICES ASSUME NEW j \in 1..(n + 1) PROVE Place(q2, w2, j) # Unsub(t)
    BY <1>1 DEF NoUnsub
  <2>1. j = n + 1 \/ j \in 1..n BY <1>1
  <2> QED BY <1>2, <1>6, <2>1 DEF NoUnsub
<1> QED BY <1>3, <1>4, <1>5, <1>6 DEF Told

\* Queue q2 is q without the message w, which was being written.
Drained(q2, w2, q, w) ==
    /\ q # <<>> /\ w # NoMsg
    /\ Len(q2) = Len(Tail(q))
    /\ \A i \in 1..Len(q2) : Place(q2, w2, i) = Tail(q)[i]

LEMMA DrainedQueue ==
    ASSUME NEW q \in Seq(Messages), NEW w, NEW q2 \in Seq(Messages), NEW w2,
           Drained(q2, w2, q, w)
    PROVE  /\ AccountQueued(q, w) => (AccountQueued(q2, w2) \/ w = Account)
           /\ \A t \in Tickers :
                 /\ LastSubscribes(q, w, t) =>
                       \/ LastSubscribes(q2, w2, t)
                       \/ Subscribes(w, t) /\ NoUnsub(q2, w2, t)
                 /\ NoUnsub(q, w, t) => NoUnsub(q2, w2, t) /\ w # Unsub(t)
<1> DEFINE n == Len(q2)
<1>1. n \in Nat /\ Len(q) = n + 1
  BY HeadTailProperties, LenProperties DEF Drained
<1>2. \A i \in 1..n : Place(q2, w2, i) = Place(q, w, i + 1)
  <2> SUFFICES ASSUME NEW i \in 1..n PROVE Place(q2, w2, i) = Place(q, w, i + 1)
    OBVIOUS
  <2>1. Tail(q)[i] = q[i + 1] BY HeadTailProperties DEF Drained
  <2>2. i + 1 # 1 BY <1>1
  <2> QED BY <2>1, <2>2 DEF Place, Drained
<1>3. Place(q, w, 1) = w BY DEF Place, Drained
<1>4. AccountQueued(q, w) => (AccountQueued(q2, w2) \/ w = Account)
  <2>1. ASSUME NEW i \in 1..(n + 1), Place(q, w, i) = Account, i # 1
        PROVE  AccountQueued(q2, w2)
    <3>1. i - 1 \in 1..n /\ (i - 1) + 1 = i BY <1>1, <2>1
    <3> QED BY <1>2, <2>1, <3>1 DEF AccountQueued
  <2> QED BY <1>1, <1>3, <2>1 DEF AccountQueued
<1>5. ASSUME NEW t \in Tickers, NEW k \in Nat, \A j \in (k + 1)..(n + 1) : Place(q, w, j) # Unsub(t)
      PROVE  \A j \in k..n : j >= 1 => Place(q2, w2, j) # Unsub(t)
  <2> SUFFICES ASSUME NEW j \in k..n, j >= 1 PROVE Place(q2, w2, j) # Unsub(t)
    OBVIOUS
  <2>1. j \in 1..n /\ j + 1 \in (k + 1)..(n + 1) BY <1>1
  <2> QED BY <1>2, <1>5, <2>1
<1>6. ASSUME NEW t \in Tickers, NoUnsub(q, w, t)
      PROVE  NoUnsub(q2, w2, t) /\ w # Unsub(t)
  <2>1. 1 \in 1..(n + 1) BY <1>1
  <2>2. \A j \in (0 + 1)..(n + 1) : Place(q, w, j) # Unsub(t) BY <1>1, <1>6 DEF NoUnsub
  <2>3. \A j \in 0..n : j >= 1 => Place(q2, w2, j) # Unsub(t) BY <1>5, <2>2
  <2>4. \A j \in 1..n : Place(q2, w2, j) # Unsub(t) BY <1>1, <2>3
  <2> QED BY <1>1, <1>3, <2>1, <2>2, <2>4 DEF NoUnsub
<1>7. ASSUME NEW t \in Tickers, LastSubscribes(q, w, t)
      PROVE  LastSubscribes(q2, w2, t) \/ (Subscribes(w, t) /\ NoUnsub(q2, w2, t))
  <2>1. PICK i \in 1..(n + 1) : /\ Subscribes(Place(q, w, i), t)
                                /\ \A j \in (i + 1)..(n + 1) : Place(q, w, j) # Unsub(t)
    BY <1>1, <1>7 DEF LastSubscribes
  <2>2. \A j \in i..n : j >= 1 => Place(q2, w2, j) # Unsub(t) BY <1>1, <1>5, <2>1
  <2>3. CASE i = 1
    <3>1. NoUnsub(q2, w2, t) BY <1>1, <2>2, <2>3 DEF NoUnsub
    <3> QED BY <1>3, <2>1, <2>3, <3>1
  <2>4. CASE i # 1
    <3>1. i - 1 \in 1..n /\ (i - 1) + 1 = i BY <1>1, <2>4
    <3>2. Subscribes(Place(q2, w2, i - 1), t) BY <1>2, <2>1, <3>1
    <3>3. \A j \in ((i - 1) + 1)..n : Place(q2, w2, j) # Unsub(t) BY <1>1, <2>2, <3>1
    <3> QED BY <3>1, <3>2, <3>3 DEF LastSubscribes
  <2> QED BY <2>3, <2>4
<1> QED BY <1>4, <1>6, <1>7

-----------------------------------------------------------------------------
(* One step. *)

LEMMA SendCovers ==
    ASSUME LinkInv, NEW m \in Messages, Send(m),
           UNCHANGED <<connected, reading, account, subs>>
    PROVE  /\ writeQ' \in Seq(Messages) /\ writeMsg' \in Messages \union {NoMsg}
           /\ dropped' \in BOOLEAN /\ FrontIsWritten'
           /\ Up' => /\ Up
                     /\ account' \/ AccountQueued(writeQ', writeMsg')
                     /\ \A t \in Tickers :
                           (Subscribes(m, t) \/ (Told(writeQ, writeMsg, subs, t) /\ m # Unsub(t)))
                             => Told(writeQ', writeMsg', subs', t)
<1>1. LinkTypeOK /\ FrontIsWritten /\ AllCovered BY DEF LinkInv
<1>2. /\ writeQ' \in Seq(Messages) /\ writeMsg' \in Messages \union {NoMsg}
      /\ dropped' \in BOOLEAN /\ FrontIsWritten' /\ (dropped => dropped')
      /\ ~dropped' => Extends(writeQ', writeMsg', writeQ, writeMsg, m)
  BY <1>1, SendIs DEF Extends
<1>3. ASSUME Up'
      PROVE  /\ Up
             /\ account' \/ AccountQueued(writeQ', writeMsg')
             /\ \A t \in Tickers :
                   (Subscribes(m, t) \/ (Told(writeQ, writeMsg, subs, t) /\ m # Unsub(t)))
                     => Told(writeQ', writeMsg', subs', t)
  <2>1. Up /\ Extends(writeQ', writeMsg', writeQ, writeMsg, m) BY <1>2, <1>3 DEF Up
  <2>2. writeQ \in Seq(Messages) BY <1>1 DEF LinkTypeOK
  <2>3. writeQ' \in Seq(Messages) BY <1>2
  <2>4. /\ AccountQueued(writeQ, writeMsg) \/ m = Account
             => AccountQueued(writeQ', writeMsg')
        /\ \A t \in Tickers :
              /\ Subscribes(m, t) => Told(writeQ', writeMsg', subs, t)
              /\ Told(writeQ, writeMsg, subs, t) /\ m # Unsub(t)
                   => Told(writeQ', writeMsg', subs, t)
    BY <2>1, <2>2, <2>3, ExtendedQueue, ZenonT(30)
  <2>5. account \/ AccountQueued(writeQ, writeMsg) BY <1>1, <2>1 DEF AllCovered
  <2> QED BY <2>1, <2>4, <2>5
<1> QED BY <1>2, <1>3

\* Steps that leave what is queued, what the exchange was told and what is
\* wanted alone, and end no task but those that have nothing to send.
LEMMA Untouched ==
    ASSUME LinkInv,
           UNCHANGED <<account, subs, connected, reading, sending, wanted, resub>>,
           BeingOpened', {timer', resolving'} \subseteq BOOLEAN,
           main.op = "subscribe" => main' = main,
           main' = main \/ main'.op \notin {"subscribe", "register", "unsubscribe"}
    PROVE  LinkInv'
<1> USE DEF LinkInv, sending
<1>1. LinkTypeOK' BY DEF LinkTypeOK
<1>2. FrontIsWritten' BY DEF FrontIsWritten
<1>3. \A t : Told(writeQ, writeMsg, subs, t)' = Told(writeQ, writeMsg, subs, t)
  BY DEF Told, LastSubscribes, NoUnsub, Place
<1>4. AllCovered'
  <2> SUFFICES ASSUME Up'
               PROVE  /\ (account \/ AccountQueued(writeQ, writeMsg))'
                      /\ \A t \in wanted : Covered(t)'
    BY DEF AllCovered
  <2>1. Up BY DEF Up
  <2>2. (account \/ AccountQueued(writeQ, writeMsg))'
    BY <2>1 DEF AllCovered, AccountQueued, Place
  <2>3. ASSUME NEW t \in wanted PROVE Covered(t)'
    BY <1>3, <2>1 DEF AllCovered, Covered
  <2> QED BY <2>2, <2>3
<1>5. LeavesWanted' BY DEF LeavesWanted
<1> QED BY <1>1, <1>2, <1>4, <1>5

\* Steps that take the connection down, as far as the subscriptions go.
LEMMA Down ==
    ASSUME LinkInv, ~Up', BeingOpened',
           writeQ' = writeQ, writeMsg' \in {writeMsg, NoMsg},
           UNCHANGED <<dropped, wanted, resub, main>>,
           {connected', timer', resolving', reading', account'} \subseteq BOOLEAN,
           subs' \subseteq Tickers
    PROVE  LinkInv'
<1> USE DEF LinkInv
<1>1. LinkTypeOK' BY DEF LinkTypeOK
<1>2. FrontIsWritten' BY DEF FrontIsWritten
<1>3. AllCovered' BY DEF AllCovered
<1>4. LeavesWanted' BY DEF LeavesWanted
<1> QED BY <1>1, <1>2, <1>3, <1>4

LEMMA OpenOkKeeps == ASSUME LinkInv, OpenOk PROVE LinkInv'
<1> USE DEF LinkInv
<1>1. writeQ \in Seq(Messages) BY DEF LinkTypeOK
<1> DEFINE q == Push(writeQ, Account)
<1>2. q \in Seq(Messages) BY <1>1, PushIs, AccountKind
<1>3. /\ stream' = "open" /\ connected' = TRUE /\ reading' = TRUE
      /\ resub' = wanted /\ StartWrite(q)
      /\ dropped' = (dropped \/ Len(writeQ) >= MaxQueue)
      /\ UNCHANGED <<account, subs, timer, resolving, wanted, main>>
  BY DEF OpenOk, ToResubscribe, Drops, exchange, thread
<1>4. /\ writeQ' \in Seq(Messages) /\ writeMsg' \in Messages \union {NoMsg}
      /\ FrontIsWritten' /\ Len(writeQ') = Len(q)
      /\ \A i \in 1..Len(q) : Place(writeQ', writeMsg', i) = q[i]
  <2> HIDE DEF q
  <2> QED BY <1>2, <1>3, StartWriteIs
<1>5. LinkTypeOK' BY <1>3, <1>4 DEF LinkTypeOK
<1>6. BeingOpened' BY <1>3 DEF BeingOpened
<1>7. LeavesWanted' BY <1>3 DEF LeavesWanted
<1>8. AllCovered'
  <2> SUFFICES ASSUME Up' PROVE AccountQueued(writeQ', writeMsg')
    BY <1>3 DEF AllCovered, Covered
  <2>1. ~(Len(writeQ) >= MaxQueue) BY <1>3 DEF Up
  <2>2. Len(q) = Len(writeQ) + 1 /\ q[Len(writeQ) + 1] = Account
    BY <1>1, <2>1, PushIs, AccountKind
  <2>3. Len(writeQ) + 1 \in 1..Len(writeQ') BY <1>1, <1>4, <2>2
  <2> QED BY <1>4, <2>2, <2>3 DEF AccountQueued
<1> QED BY <1>4, <1>5, <1>6, <1>7, <1>8

LEMMA WriteOkKeeps == ASSUME LinkInv, WriteOk PROVE LinkInv'
<1> USE DEF LinkInv
<1>1. /\ writeMsg # NoMsg /\ StartWrite(Tail(writeQ))
      /\ IF reading THEN Serve(writeMsg) ELSE UNCHANGED <<subs, account>>
      /\ UNCHANGED <<stream, connected, timer, resolving, reading, dropped, wanted,
                     resub, main>>
  BY DEF WriteOk, exchange, feed, thread
<1>2. /\ writeQ \in Seq(Messages) /\ writeQ # <<>> /\ writeMsg \in Messages
      /\ Tail(writeQ) \in Seq(Messages)
  BY <1>1, HeadTailProperties DEF LinkTypeOK, FrontIsWritten
<1>3. /\ writeQ' \in Seq(Messages) /\ writeMsg' \in Messages \union {NoMsg}
      /\ FrontIsWritten' /\ Drained(writeQ', writeMsg', writeQ, writeMsg)
  BY <1>1, <1>2, StartWriteIs DEF Drained
<1>4. /\ AccountQueued(writeQ, writeMsg) =>
             (AccountQueued(writeQ', writeMsg') \/ writeMsg = Account)
      /\ \A t \in Tickers :
            /\ LastSubscribes(writeQ, writeMsg, t) =>
                  \/ LastSubscribes(writeQ', writeMsg', t)
                  \/ Subscribes(writeMsg, t) /\ NoUnsub(writeQ', writeMsg', t)
            /\ NoUnsub(writeQ, writeMsg, t) =>
                  NoUnsub(writeQ', writeMsg', t) /\ writeMsg # Unsub(t)
  <2>1. writeQ' \in Seq(Messages) /\ Drained(writeQ', writeMsg', writeQ, writeMsg)
    BY <1>3
  <2> QED BY <1>2, <2>1, DrainedQueue, ZenonT(30)
<1>5. /\ account' \in BOOLEAN /\ subs' \subseteq Tickers
      /\ reading => /\ account \/ writeMsg = Account => account'
                    /\ \A t \in Tickers : Subscribes(writeMsg, t) => t \in subs'
                    /\ \A t \in subs : writeMsg # Unsub(t) => t \in subs'
  <2>1. CASE ~reading BY <1>1, <2>1 DEF LinkTypeOK
  <2>2. CASE reading
    <3>1. /\ account' = (account \/ writeMsg = Account)
          /\ subs' = CASE writeMsg.kind \in {"ticker_subscribe", "orderbook_subscribe"} ->
                             subs \union {writeMsg.ticker}
                       [] writeMsg.kind = "ticker_unsubscribe" -> subs \ {writeMsg.ticker}
                       [] OTHER -> subs
      BY <1>1, <2>2 DEF Serve
    <3>2. account' \in BOOLEAN BY <3>1 DEF LinkTypeOK
    <3>3. subs' \subseteq Tickers BY <1>2, <3>1, KindsDiffer DEF LinkTypeOK
    <3>4. ASSUME NEW t \in Tickers, Subscribes(writeMsg, t) PROVE t \in subs'
      BY <3>1, <3>4, KindsAre DEF Subscribes
    <3>5. ASSUME NEW t \in subs, writeMsg # Unsub(t) PROVE t \in subs'
      BY <1>2, <3>1, <3>5, KindsDiffer
    <3> QED BY <3>1, <3>2, <3>3, <3>4, <3>5
  <2> QED BY <2>1, <2>2
<1>6. LinkTypeOK' BY <1>1, <1>3, <1>5 DEF LinkTypeOK
<1>7. BeingOpened' BY <1>1 DEF BeingOpened
<1>8. LeavesWanted' BY <1>1 DEF LeavesWanted
<1>9. AllCovered'
  <2> SUFFICES ASSUME Up'
               PROVE  /\ account' \/ AccountQueued(writeQ', writeMsg')
                      /\ \A t \in wanted : Covered(t)'
    BY <1>1 DEF AllCovered
  <2>1. Up /\ reading BY <1>1 DEF Up
  <2>2. account' \/ AccountQueued(writeQ', writeMsg')
    BY <1>4, <1>5, <2>1 DEF AllCovered
  <2>3. ASSUME NEW t \in wanted PROVE Covered(t)'
    <3>1. t \in Tickers /\ Covered(t) BY <2>1 DEF AllCovered, LinkTypeOK
    <3>2. Told(writeQ, writeMsg, subs, t) => Told(writeQ', writeMsg', subs', t)
      BY <1>4, <1>5, <2>1, <3>1 DEF Told
    <3> QED BY <1>1, <3>1, <3>2 DEF Covered
  <2> QED BY <2>2, <2>3
<1> QED BY <1>3, <1>6, <1>7, <1>8, <1>9

\* A step that sends m covers whoever it stops covering otherwise.
LEMMA SendKeeps ==
    ASSUME LinkInv, NEW m \in Messages, Send(m),
           UNCHANGED <<connected, timer, resolving, stream, reading, account, subs>>,
           wanted' = wanted, resub' \subseteq resub,
           main'.op \in {"subscribe", "register", "unsubscribe"} => main'.ticker \in Tickers,
           main'.op = "unsubscribe" => main' = main,
           \A t \in wanted : m # Unsub(t),
           \A t \in wanted : \/ Subscribes(m, t)
                             \/ /\ t \in resub => t \in resub'
                                /\ (main.op = "subscribe" /\ main.ticker = t) => main' = main
    PROVE  LinkInv'
<1> USE DEF LinkInv
<1>1. /\ writeQ' \in Seq(Messages) /\ writeMsg' \in Messages \union {NoMsg}
      /\ dropped' \in BOOLEAN /\ FrontIsWritten'
      /\ Up' => /\ Up
                /\ account' \/ AccountQueued(writeQ', writeMsg')
                /\ \A t \in Tickers :
                      (Subscribes(m, t) \/ (Told(writeQ, writeMsg, subs, t) /\ m # Unsub(t)))
                        => Told(writeQ', writeMsg', subs', t)
  BY SendCovers
<1>2. LinkTypeOK' BY <1>1 DEF LinkTypeOK
<1>3. BeingOpened' BY DEF BeingOpened
<1>4. LeavesWanted' BY DEF LeavesWanted
<1>5. AllCovered'
  <2> SUFFICES ASSUME Up', NEW t \in wanted PROVE Covered(t)'
    BY <1>1 DEF AllCovered
  <2>1. t \in Tickers /\ Up /\ Covered(t) BY <1>1 DEF AllCovered, LinkTypeOK
  <2>2. CASE Subscribes(m, t)
    <3>1. Told(writeQ', writeMsg', subs', t) BY <1>1, <2>1, <2>2
    <3> QED BY <3>1 DEF Covered
  <2>3. CASE ~Subscribes(m, t)
    <3>1. Told(writeQ, writeMsg, subs, t) => Told(writeQ', writeMsg', subs', t)
      BY <1>1, <2>1
    <3> QED BY <2>1, <2>3, <3>1 DEF Covered
  <2> QED BY <2>2, <2>3
<1> QED BY <1>1, <1>2, <1>3, <1>4, <1>5

LEMMA ResubscribeNextKeeps ==
    ASSUME LinkInv, NEW t \in Tickers, ResubscribeNext(t) PROVE LinkInv'
<1>1. /\ Send(Sub(t)) /\ resub' = resub \ {t}
      /\ UNCHANGED <<connected, timer, resolving, stream, reading, account, subs,
                     wanted, main>>
  BY DEF ResubscribeNext, exchange, thread
<1>2. Sub(t) \in Messages /\ Subscribes(Sub(t), t) BY KindsAre DEF Subscribes
<1>3. \A u \in wanted : Sub(t) # Unsub(u) BY DEF Sub, Unsub
<1>4. \A u \in wanted : u # t => (u \in resub => u \in resub') BY <1>1
<1> HIDE DEF LinkInv
<1>5. main'.op \in {"subscribe", "register", "unsubscribe"} => main'.ticker \in Tickers
  BY <1>1 DEF LinkInv, LinkTypeOK
<1> QED BY <1>1, <1>2, <1>3, <1>4, <1>5, SendKeeps

LEMMA SendSubscribeKeeps == ASSUME LinkInv, SendSubscribe PROVE LinkInv'
<1> DEFINE t == main.ticker
<1>1. /\ main.op = "subscribe" /\ Send(Sub(t)) /\ main' = Task("register", t)
      /\ UNCHANGED <<connected, timer, resolving, stream, reading, account, subs,
                     wanted, resub>>
  BY DEF SendSubscribe, exchange, feed
<1>2. t \in Tickers BY <1>1 DEF LinkInv, LinkTypeOK
<1>3. Sub(t) \in Messages /\ Subscribes(Sub(t), t) BY <1>2, KindsAre DEF Subscribes
<1>4. \A u \in wanted : Sub(t) # Unsub(u) BY DEF Sub, Unsub
<1>5. main'.op = "register" /\ main'.ticker = t BY <1>1 DEF Task
<1>6. \A u \in wanted : u # t => ~(main.op = "subscribe" /\ main.ticker = u) OBVIOUS
<1> HIDE DEF t
<1> QED BY <1>1, <1>2, <1>3, <1>4, <1>5, <1>6, SendKeeps

LEMMA SendUnsubscribeKeeps == ASSUME LinkInv, SendUnsubscribe PROVE LinkInv'
<1> DEFINE t == main.ticker
<1>1. /\ main.op = "unsubscribe" /\ Send(Unsub(t)) /\ main' = Idle
      /\ UNCHANGED <<connected, timer, resolving, stream, reading, account, subs,
                     wanted, resub>>
  BY DEF SendUnsubscribe, exchange, feed
<1>2. t \in Tickers /\ t \notin wanted
  BY <1>1 DEF LinkInv, LinkTypeOK, LeavesWanted
<1>3. Unsub(t) \in Messages BY <1>2, KindsAre
<1>4. \A u \in wanted : Unsub(t) # Unsub(u) BY <1>2 DEF Unsub
<1>5. main'.op = "idle" BY <1>1 DEF Idle
<1> HIDE DEF t
<1> QED BY <1>1, <1>2, <1>3, <1>4, <1>5, SendKeeps

LEMMA FetchFailsKeeps ==
    ASSUME LinkInv, NEW t \in Tickers, FetchFails(t) PROVE LinkInv'
<1>1. /\ Send(Ask(t))
      /\ UNCHANGED <<connected, timer, resolving, stream, reading, account, subs,
                     wanted, resub, main>>
  BY DEF FetchFails, exchange, feed, thread
<1>2. Ask(t) \in Messages BY KindsAre
<1>3. \A u \in wanted : Ask(t) # Unsub(u) BY DEF Ask, Unsub
<1>4. main'.op \in {"subscribe", "register", "unsubscribe"} => main'.ticker \in Tickers
  BY <1>1 DEF LinkInv, LinkTypeOK
<1> QED BY <1>1, <1>2, <1>3, <1>4, SendKeeps

\* The affinity handler begins with a ticker: what others are covered by stays.
LEMMA SwitchKeeps ==
    ASSUME LinkInv, NEW t \in Tickers, Enable(t) \/ Disable(t) PROVE LinkInv'
<1> USE DEF LinkInv
<1>1. /\ main = Idle
      /\ \/ main' = Task("subscribe", t) /\ wanted' = wanted \union {t}
         \/ main' = Task("unsubscribe", t) /\ wanted' = wanted \ {t}
      /\ UNCHANGED <<account, subs, stream, connected, timer, resolving, reading,
                     writeQ, writeMsg, dropped, resub>>
  BY DEF Enable, Disable, exchange, link, sending
<1>2. main.op = "idle" BY <1>1 DEF Idle
<1>3. \/ main'.op = "subscribe" /\ main'.ticker = t /\ wanted' = wanted \union {t}
      \/ main'.op = "unsubscribe" /\ main'.ticker = t /\ wanted' = wanted \ {t}
  BY <1>1 DEF Task
<1>4. LinkTypeOK' BY <1>1, <1>3 DEF LinkTypeOK
<1>5. FrontIsWritten' /\ BeingOpened' BY <1>1 DEF FrontIsWritten, BeingOpened
<1>6. LeavesWanted' BY <1>3 DEF LeavesWanted
<1>7. AllCovered'
  <2> SUFFICES ASSUME Up'
               PROVE  /\ (account \/ AccountQueued(writeQ, writeMsg))'
                      /\ \A u \in wanted' : Covered(u)'
    BY DEF AllCovered
  <2>1. Up BY <1>1 DEF Up
  <2>2. (account \/ AccountQueued(writeQ, writeMsg))'
    BY <1>1, <2>1 DEF AllCovered, AccountQueued, Place
  <2>3. ASSUME NEW u \in wanted' PROVE Covered(u)'
    <3>1. CASE u \in wanted
      <4>1. u \in resub \/ Told(writeQ, writeMsg, subs, u)
        BY <1>2, <2>1, <3>1 DEF AllCovered, Covered
      <4>2. Told(writeQ, writeMsg, subs, u)' = Told(writeQ, writeMsg, subs, u)
        BY <1>1 DEF Told, LastSubscribes, NoUnsub, Place
      <4> QED BY <1>1, <4>1, <4>2 DEF Covered
    <3>2. CASE u \notin wanted
      <4>1. main'.op = "subscribe" /\ main'.ticker = u BY <1>3, <2>3, <3>2
      <4> QED BY <4>1 DEF Covered
    <3> QED BY <3>1, <3>2
  <2> QED BY <2>2, <2>3
<1> QED BY <1>4, <1>5, <1>6, <1>7

-----------------------------------------------------------------------------
(* The theorem. *)

LEMMA LinkStarts == Init => LinkInv
<1> SUFFICES ASSUME Init PROVE LinkInv OBVIOUS
<1>1. main.op = "idle" BY DEF Init, Idle
<1>2. LeavesWanted /\ FrontIsWritten /\ dropped = FALSE
  BY <1>1 DEF Init, LeavesWanted, FrontIsWritten
<1>3. CASE Starting
  <2>1. writeQ = <<Account>> /\ wanted = {} /\ subs = {} /\ account = FALSE
        /\ connected = FALSE /\ reading = FALSE /\ resolving = TRUE
    BY <1>3 DEF Starting
  <2>2. writeQ \in Seq(Messages) BY <2>1, AccountKind
  <2>3. LinkTypeOK BY <1>1, <1>2, <2>1, <2>2 DEF Init, LinkTypeOK
  <2>4. BeingOpened /\ AllCovered BY <2>1 DEF BeingOpened, AllCovered, Up
  <2> QED BY <1>2, <2>3, <2>4 DEF LinkInv
<1>4. CASE Trading
  <2>1. /\ writeQ = <<>> /\ wanted = Tickers /\ subs = Tickers /\ account = TRUE
        /\ connected = TRUE /\ reading = TRUE /\ resolving = FALSE
    BY <1>4 DEF Trading
  <2>2. writeQ \in Seq(Messages) /\ Len(writeQ) = 0 BY <2>1
  <2>3. LinkTypeOK BY <1>1, <1>2, <2>1, <2>2 DEF Init, LinkTypeOK
  <2>4. \A t \in wanted : t \in subs /\ NoUnsub(writeQ, writeMsg, t)
    BY <2>1, <2>2 DEF NoUnsub
  <2>5. BeingOpened /\ AllCovered
    BY <2>1, <2>4 DEF BeingOpened, AllCovered, Covered, Told
  <2> QED BY <1>2, <2>3, <2>5 DEF LinkInv
<1> QED BY <1>3, <1>4 DEF Init

LEMMA IoKeeps == ASSUME LinkInv, Io PROVE LinkInv'
<1>1. LinkTypeOK /\ BeingOpened BY DEF LinkInv
<1> USE <1>1 DEF LinkTypeOK
<1>2. CASE TimerFires
  <2>1. BeingOpened' BY <1>2 DEF TimerFires, BeingOpened
  <2> QED BY <1>2, <2>1, Untouched DEF TimerFires, exchange, feed, thread
<1>3. CASE ResolveFails
  <2>1. BeingOpened' BY <1>3 DEF ResolveFails, BeingOpened
  <2> QED BY <1>3, <2>1, Untouched DEF ResolveFails, exchange, feed, thread
<1>4. CASE OpenFails
  <2>1. BeingOpened' BY <1>4 DEF OpenFails, BeingOpened
  <2> QED BY <1>4, <2>1, Untouched DEF OpenFails, exchange, feed, thread
<1>5. CASE ResolveOk
  <2>1. BeingOpened' /\ ~Up' BY <1>5 DEF ResolveOk, BeingOpened, Up
  <2>2. subs' = {} /\ account' = FALSE BY <1>5 DEF ResolveOk, SessionOver
  <2>3. (connected /\ ~reading /\ writeMsg = NoMsg) \in BOOLEAN
        /\ (timer \/ reading \/ writeMsg # NoMsg \/ stream = "opening") \in BOOLEAN
    OBVIOUS
  <2> QED BY <1>5, <2>1, <2>2, <2>3, Down DEF ResolveOk, feed, thread
<1>6. CASE ReadFails
  <2>1. BeingOpened' /\ ~Up' BY <1>6 DEF ReadFails, BeingOpened, Up
  <2>2. subs' = {} /\ account' = FALSE BY <1>6 DEF ReadFails, SessionOver
  <2> QED BY <1>6, <2>1, <2>2, Down DEF ReadFails, feed, thread, sending
<1>7. CASE PingFails
  <2>1. BeingOpened' /\ ~Up' BY <1>7 DEF PingFails, BeingOpened, Up
  <2> QED BY <1>7, <2>1, Down DEF PingFails, exchange, feed, thread, sending
<1>8. CASE WriteFails
  <2>1. BeingOpened' /\ ~Up' BY <1>8 DEF WriteFails, BeingOpened, Up
  <2> QED BY <1>8, <2>1, Down DEF WriteFails, exchange, feed, thread
<1>9. CASE ReadSnapshot \/ ReadUpdate
  <2>1. UNCHANGED <<subs, account, link, feed, thread>>
    BY <1>9 DEF ReadSnapshot, ReadUpdate
  <2>2. BeingOpened' BY <2>1 DEF BeingOpened, link
  <2> QED BY <2>1, <2>2, Untouched DEF link, feed, thread
<1> QED
  BY <1>2, <1>3, <1>4, <1>5, <1>6, <1>7, <1>8, <1>9, OpenOkKeeps, WriteOkKeeps,
     ResubscribeNextKeeps DEF Io

LEMMA MainKeeps == ASSUME LinkInv, Main PROVE LinkInv'
<1>1. LinkTypeOK /\ BeingOpened BY DEF LinkInv
<1>2. ASSUME UNCHANGED <<exchange, link, feed>>,
             main.op # "subscribe",
             main'.op \notin {"subscribe", "register", "unsubscribe"}
      PROVE  LinkInv'
  <2>1. BeingOpened' BY <1>1, <1>2 DEF BeingOpened, link
  <2>2. {timer', resolving'} \subseteq BOOLEAN BY <1>1, <1>2 DEF LinkTypeOK, link
  <2> QED BY <1>2, <2>1, <2>2, Untouched DEF exchange, link, feed
<1>3. CASE Register BY <1>2, <1>3 DEF Register, Idle
<1>4. CASE DeliverFetched BY <1>2, <1>4 DEF DeliverFetched, Idle
<1>5. ASSUME NEW t \in Tickers, FetchSnapshot(t) PROVE LinkInv'
  BY <1>2, <1>5 DEF FetchSnapshot, Fetched, Idle
<1> QED
  BY <1>3, <1>4, <1>5, SendSubscribeKeeps, SendUnsubscribeKeeps, SwitchKeeps,
     FetchFailsKeeps DEF Main

LEMMA LinkStep == LinkInv /\ [Next]_vars => LinkInv'
<1> SUFFICES ASSUME LinkInv, [Next]_vars PROVE LinkInv' OBVIOUS
<1>1. LinkTypeOK /\ BeingOpened BY DEF LinkInv
<1>2. ASSUME UNCHANGED <<subs, account, link, feed, thread>> PROVE LinkInv'
  <2>1. BeingOpened' BY <1>1, <1>2 DEF BeingOpened, link
  <2>2. {timer', resolving'} \subseteq BOOLEAN BY <1>1, <1>2 DEF LinkTypeOK, link
  <2> QED BY <1>2, <2>1, <2>2, Untouched DEF link, feed, thread
<1>3. CASE ProcessUpdate BY <1>2, <1>3 DEF ProcessUpdate, exchange
<1>4. CASE StartProcessor BY <1>2, <1>4 DEF StartProcessor, exchange
<1>5. ASSUME NEW t \in Tickers, MarketMoves(t) PROVE LinkInv'
  BY <1>2, <1>5 DEF MarketMoves
<1>6. CASE UNCHANGED vars BY <1>2, <1>6 DEF vars, exchange
<1> QED BY <1>3, <1>4, <1>5, <1>6, IoKeeps, MainKeeps DEF Next

LEMMA LinkInvMeans == LinkInv => Resubscribed
<1> SUFFICES ASSUME LinkInv PROVE Resubscribed OBVIOUS
<1> USE DEF LinkInv
<1>1. ASSUME connected, reading, writeQ = <<>>, IoFree, main = Idle, ~dropped
      PROVE  account /\ wanted \subseteq subs
  <2>1. Up /\ resub = {} /\ main.op = "idle" /\ Len(writeQ) = 0
    BY <1>1 DEF Up, IoFree, Idle
  <2>2. ~AccountQueued(writeQ, writeMsg) BY <2>1 DEF AccountQueued
  <2>3. \A t \in wanted : ~LastSubscribes(writeQ, writeMsg, t)
    BY <2>1 DEF LastSubscribes
  <2> QED BY <2>1, <2>2, <2>3 DEF AllCovered, Covered, Told
<1>2. BeingOpened OBVIOUS
<1> QED BY <1>1, <1>2 DEF Resubscribed, BeingOpened

\* Whatever reconnects, failed writes, resubscriptions and changes of the set
\* of tickers interleave: the connection is being opened when it is down, and
\* once it is up and the client has nothing left to write, the exchange has the
\* subscription of the account and of every ticker that is wanted.
THEOREM ResubscribedAlways == Spec => []Resubscribed
<1>1. Init => LinkInv BY LinkStarts
<1>2. LinkInv /\ [Next]_vars => LinkInv' BY LinkStep
<1>3. LinkInv => Resubscribed BY LinkInvMeans
<1> QED BY <1>1, <1>2, <1>3, PTL DEF Spec

-----------------------------------------------------------------------------
(* What is on its way to a book, level by level. *)

Rough   == [bid : SUBSET Prices, ask : SUBSET Prices]
Changes == [side : {"bid", "ask"}, price : Prices, on : BOOLEAN]
Points  == [side : {"bid", "ask"}, price : Prices]
Wired   == [kind : {"update"}, ticker : Tickers, changes : Seq(Changes), long : BOOLEAN]
             \union [kind : {"snapshot"}, ticker : Tickers, book : Rough]
Jobs    == [ticker : Tickers, changes : Seq(Changes), direct : BOOLEAN]

\* The book b has the level z.
In(b, z) == z.price \in b[z.side]

\* The change c decides about the level z: that it is there, or that it is not.
Decides(c, z) ==
    \/ c.side = z.side /\ c.price = z.price
    \/ c.on /\ c.side = "bid" /\ z.side = "ask" /\ z.price <= c.price
    \/ c.on /\ c.side = "ask" /\ z.side = "bid" /\ z.price >= c.price
Says(c, z)      == c.on /\ c.side = z.side
Agrees(c, z, b) == Decides(c, z) => (In(b, z) <=> Says(c, z))

Moves(m, t)   == m.kind = "update" /\ m.ticker = t
Seeds(m, t)   == m.kind = "snapshot" /\ m.ticker = t
Hits(m, t, z) == Moves(m, t) /\ \E i \in DOMAIN m.changes : Decides(m.changes[i], z)

\* What the message m says of the level z of t is what the book b has.
Right(m, t, b, z) ==
    /\ Moves(m, t) => \A i \in DOMAIN m.changes : Agrees(m.changes[i], z, b)
    /\ Seeds(m, t) => (In(b, z) <=> In(m.book, z))

Hit(q, t, z)         == \E j \in DOMAIN q : Hits(q[j], t, z)
Seeded(q, t)         == \E j \in DOMAIN q : Seeds(q[j], t)
HitAfter(q, t, i, z) == \E j \in DOMAIN q : j > i /\ Hits(q[j], t, z)
SeedAfter(q, t, i)   == \E j \in DOMAIN q : j > i /\ Seeds(q[j], t)

\* The last word of the messages q about the level z is right.
Chain(q, t, b, z) == \A i \in DOMAIN q : ~HitAfter(q, t, i, z) => Right(q[i], t, b, z)

\* So is that of the last snapshot in q and the updates behind it.
LastSeed(q, t, b, z) ==
    \A i \in DOMAIN q : (Seeds(q[i], t) /\ ~SeedAfter(q, t, i) /\ ~HitAfter(q, t, i, z))
                           => Right(q[i], t, b, z)

-----------------------------------------------------------------------------
(* The order book. *)

\* Two books with the same levels are one.
LEMMA SameBook ==
    ASSUME NEW a \in Rough, NEW b \in Rough, \A z \in Points : In(a, z) <=> In(b, z)
    PROVE  a = b
<1>1. \A p \in Prices : p \in a.bid <=> p \in b.bid
  <2> SUFFICES ASSUME NEW p \in Prices PROVE p \in a.bid <=> p \in b.bid OBVIOUS
  <2>1. [side |-> "bid", price |-> p] \in Points BY DEF Points
  <2> QED BY <2>1 DEF In
<1>2. \A p \in Prices : p \in a.ask <=> p \in b.ask
  <2> SUFFICES ASSUME NEW p \in Prices PROVE p \in a.ask <=> p \in b.ask OBVIOUS
  <2>1. [side |-> "ask", price |-> p] \in Points BY DEF Points
  <2> QED BY <2>1 DEF In
<1>3. a.bid = b.bid /\ a.ask = b.ask BY <1>1, <1>2 DEF Rough
<1> QED BY <1>3 DEF Rough

LEMMA ChangeIs ==
    ASSUME NEW b \in Rough, NEW c \in Changes
    PROVE  /\ ApplyChange(b, c) \in Rough
           /\ \A z \in Points :
                 In(ApplyChange(b, c), z) <=> IF Decides(c, z) THEN Says(c, z) ELSE In(b, z)
<1> DEFINE a == ApplyChange(b, c)
<1>1. /\ b.bid \subseteq Prices /\ b.ask \subseteq Prices /\ c.price \in Prices
      /\ c.side \in {"bid", "ask"} /\ c.on \in BOOLEAN
      /\ \A p \in Prices : p \in Int
  BY MarketAssumption DEF Rough, Changes
<1>2. \A x \in SUBSET Prices, y \in SUBSET Prices : [bid |-> x, ask |-> y] \in Rough
  BY DEF Rough
<1>3. \A z \in Points : z.price \in Prices /\ (z.side = "bid" \/ z.side = "ask") BY DEF Points
<1>4. CASE c.on /\ c.side = "bid"
  <2>1. a = [bid |-> b.bid \union {c.price}, ask |-> {q \in b.ask : q > c.price}]
    BY <1>4 DEF ApplyChange
  <2>2. a \in Rough BY <1>1, <1>2, <2>1
  <2>3. ASSUME NEW z \in Points, z.side = "bid"
        PROVE  In(a, z) <=> IF Decides(c, z) THEN Says(c, z) ELSE In(b, z)
    <3>1. In(a, z) <=> z.price = c.price \/ z.price \in b.bid BY <2>1, <2>3 DEF In
    <3> QED BY <1>4, <2>3, <3>1 DEF In, Decides, Says
  <2>4. ASSUME NEW z \in Points, z.side = "ask"
        PROVE  In(a, z) <=> IF Decides(c, z) THEN Says(c, z) ELSE In(b, z)
    <3>1. In(a, z) <=> z.price > c.price /\ z.price \in b.ask BY <2>1, <2>4 DEF In
    <3>2. z.price > c.price <=> ~(z.price <= c.price) BY <1>1, <1>3
    <3> QED BY <1>4, <2>4, <3>1, <3>2 DEF In, Decides, Says
  <2> QED BY <1>3, <2>2, <2>3, <2>4, Zenon
<1>5. CASE c.on /\ c.side = "ask"
  <2>1. a = [bid |-> {p \in b.bid : p < c.price}, ask |-> b.ask \union {c.price}]
    BY <1>5 DEF ApplyChange
  <2>2. a \in Rough BY <1>1, <1>2, <2>1
  <2>3. ASSUME NEW z \in Points, z.side = "ask"
        PROVE  In(a, z) <=> IF Decides(c, z) THEN Says(c, z) ELSE In(b, z)
    <3>1. In(a, z) <=> z.price = c.price \/ z.price \in b.ask BY <2>1, <2>3 DEF In
    <3> QED BY <1>5, <2>3, <3>1 DEF In, Decides, Says
  <2>4. ASSUME NEW z \in Points, z.side = "bid"
        PROVE  In(a, z) <=> IF Decides(c, z) THEN Says(c, z) ELSE In(b, z)
    <3>1. In(a, z) <=> z.price < c.price /\ z.price \in b.bid BY <2>1, <2>4 DEF In
    <3>2. z.price < c.price <=> ~(z.price >= c.price) BY <1>1, <1>3
    <3> QED BY <1>5, <2>4, <3>1, <3>2 DEF In, Decides, Says
  <2> QED BY <1>3, <2>2, <2>3, <2>4, Zenon
<1>6. CASE ~c.on
  <2>1. a = [b EXCEPT ![c.side] = @ \ {c.price}] BY <1>6 DEF ApplyChange
  <2>2. a \in Rough BY <1>1, <2>1 DEF Rough
  <2>3. ASSUME NEW z \in Points
        PROVE  In(a, z) <=> IF Decides(c, z) THEN Says(c, z) ELSE In(b, z)
    <3>1. a[z.side] = IF z.side = c.side THEN b[z.side] \ {c.price} ELSE b[z.side]
      BY <1>1, <1>3, <2>1 DEF Rough
    <3>2. In(a, z) <=> z.price \in b[z.side] /\ ~(z.side = c.side /\ z.price = c.price)
      BY <3>1 DEF In
    <3> QED BY <1>6, <3>2 DEF In, Decides, Says
  <2> QED BY <2>2, <2>3, Zenon
<1> QED BY <1>1, <1>4, <1>5, <1>6

\* The recursion of FoldLeft over the subsets of the places of cs.
Applied(g, b, cs) ==
    g = [s \in SUBSET DOMAIN cs |->
           IF s = {} THEN b ELSE ApplyChange(g[s \ {Max(s)}], cs[Max(s)])]

LEMMA AppliedExists ==
    ASSUME NEW b, NEW cs, IsFiniteSet(DOMAIN cs), DOMAIN cs \subseteq Int
    PROVE  \E g : Applied(g, b, cs)
<1> DEFINE S == DOMAIN cs
           Step(g) == [s \in SUBSET S |->
                         IF s = {} THEN b ELSE ApplyChange(g[s \ {Max(s)}], cs[Max(s)])]
           Until(g, n) == /\ DOMAIN g = SUBSET S
                          /\ g = [s \in SUBSET S |-> g[s]]
                          /\ \A s \in SUBSET S : Cardinality(s) <= n => g[s] = Step(g)[s]
           P == {n \in Nat : \E g : Until(g, n)}
<1>1. \A s \in SUBSET S : IsFiniteSet(s) /\ Cardinality(s) \in Nat
  BY FS_Subset, FS_CardinalityType
<1>2. 0 \in P
  <2> DEFINE g == [s \in SUBSET S |-> b]
  <2>1. \A s \in SUBSET S : Cardinality(s) <= 0 => s = {} BY <1>1, FS_EmptySet
  <2>2. Until(g, 0) BY <2>1
  <2>3. \E k : Until(k, 0)
    <3> HIDE DEF g, Until
    <3> QED BY <2>2
  <2> HIDE DEF Until
  <2> QED BY <2>3
<1>3. ASSUME NEW n \in Nat, n \in P PROVE n + 1 \in P
  <2>1. PICK g : Until(g, n) BY <1>3
  <2> DEFINE h == Step(g)
  <2>2. DOMAIN h = SUBSET S /\ h = [s \in SUBSET S |-> h[s]] OBVIOUS
  <2>3. ASSUME NEW s \in SUBSET S, Cardinality(s) <= n + 1 PROVE h[s] = Step(h)[s]
    <3>1. CASE s = {} BY <3>1
    <3>2. CASE s # {}
      <4> DEFINE t == s \ {Max(s)}
      <4>1. t \in SUBSET S /\ Cardinality(t) <= n
        <5>1. Max(s) \in s BY <1>1, <3>2, MaxIn
        <5>2. Cardinality(s) = Cardinality(t) + 1 /\ Cardinality(t) \in Nat
          BY <1>1, <5>1, TakenOut
        <5> QED BY <2>3, <5>2
      <4>2. g[t] = h[t] BY <2>1, <4>1
      <4>3. h[s] = ApplyChange(g[t], cs[Max(s)]) BY <3>2
      <4>4. Step(h)[s] = ApplyChange(h[t], cs[Max(s)]) BY <3>2
      <4> HIDE DEF t, h, Step
      <4> QED BY <4>2, <4>3, <4>4
    <3> QED BY <3>1, <3>2
  <2>4. Until(h, n + 1) BY <2>2, <2>3
  <2>5. \E k : Until(k, n + 1)
    <3> HIDE DEF h, Until
    <3> QED BY <2>4
  <2>6. n + 1 \in Nat OBVIOUS
  <2> HIDE DEF Until
  <2> QED BY <2>5, <2>6
<1>4. Nat \subseteq P
  <2> HIDE DEF P
  <2> QED BY <1>2, <1>3, SetInduction
<1>5. Cardinality(S) \in P BY <1>1, <1>4
<1>6. PICK g : Until(g, Cardinality(S)) BY <1>5
<1>7. ASSUME NEW s \in SUBSET S PROVE g[s] = Step(g)[s]
  <2>1. Cardinality(s) <= Cardinality(S) BY FS_Subset
  <2> QED BY <1>6, <2>1
<1>8. g = Step(g)
  <2>1. Step(g) = [s \in SUBSET S |-> Step(g)[s]] OBVIOUS
  <2> HIDE DEF Step
  <2> QED BY <1>6, <1>7, <2>1
<1> QED BY <1>8 DEF Applied

\* When the changes of an update agree with one book, the order they come in
\* does not matter: what they decide is as in that book, the rest as before.
LEMMA UpdateIs ==
    ASSUME NEW b \in Rough, NEW u, u.changes \in Seq(Changes)
    PROVE  /\ ApplyUpdate(b, u) \in Rough
           /\ \A z \in Points : \A m :
                 (\A i \in DOMAIN u.changes : Agrees(u.changes[i], z, m)) =>
                    (In(ApplyUpdate(b, u), z) <=>
                       IF \E i \in DOMAIN u.changes : Decides(u.changes[i], z)
                       THEN In(m, z) ELSE In(b, z))
<1> DEFINE cs == u.changes
           S  == DOMAIN cs
<1>1. /\ S = 1..Len(cs) /\ Len(cs) \in Nat /\ IsFiniteSet(S) /\ S \subseteq Int
      /\ \A i \in S : cs[i] \in Changes
  <2>1. S = 1..Len(cs) /\ Len(cs) \in Nat BY LenProperties
  <2>2. IsFiniteSet(1..Len(cs))
    <3>1. 1 \in Int /\ Len(cs) \in Int BY <2>1
    <3> HIDE DEF cs
    <3> QED BY <3>1, FS_Interval
  <2>3. \A i \in 1..Len(cs) : cs[i] \in Changes BY ElementOfSeq
  <2> QED BY <2>1, <2>2, <2>3
<1> DEFINE g == CHOOSE g : Applied(g, b, cs)
<1>2. Applied(g, b, cs)
  <2>1. \E k : Applied(k, b, cs) BY <1>1, AppliedExists
  <2> QED BY <2>1
<1>3. ApplyUpdate(b, u) = g[S]
  BY DEF ApplyUpdate, FoldLeft, MapThenFoldSet, Applied
<1> HIDE DEF g, cs
<1>4. \A s \in SUBSET S : s # {} => Max(s) \in s /\ g[s] = ApplyChange(g[s \ {Max(s)}], cs[Max(s)])
  <2> SUFFICES ASSUME NEW s \in SUBSET S, s # {}
               PROVE  Max(s) \in s /\ g[s] = ApplyChange(g[s \ {Max(s)}], cs[Max(s)])
    OBVIOUS
  <2>1. Max(s) \in s
    <3>1. IsFiniteSet(s) /\ s \subseteq Int BY <1>1, FS_Subset
    <3> QED BY <3>1, MaxIn
  <2> QED BY <1>2, <2>1 DEF Applied
<1>5. g[{}] = b BY <1>2 DEF Applied
<1>6. \A s \in SUBSET S : g[s] \in Rough
  <2> DEFINE P == {s \in SUBSET S : g[s] \in Rough}
  <2>1. {} \in P BY <1>5
  <2>2. ASSUME NEW s \in SUBSET S, s # {}, \A x \in s : s \ {x} \in P PROVE s \in P
    <3> DEFINE x == Max(s)
    <3>1. x \in s /\ g[s] = ApplyChange(g[s \ {x}], cs[x]) BY <1>4, <2>2
    <3> HIDE DEF x
    <3>2. g[s \ {x}] \in Rough /\ cs[x] \in Changes BY <1>1, <2>2, <3>1
    <3>3. g[s] \in Rough BY <3>1, <3>2, ChangeIs
    <3> QED BY <3>3
  <2>3. SUBSET S \subseteq P
    <3>1. P \subseteq SUBSET S /\ IsFiniteSet(S) BY <1>1
    <3> HIDE DEF P, S
    <3> QED BY <2>1, <2>2, <3>1, BySize
  <2> QED BY <2>3
<1>7. ASSUME NEW z \in Points, NEW m, \A i \in S : Agrees(cs[i], z, m)
      PROVE  \A s \in SUBSET S :
                In(g[s], z) <=> IF \E i \in s : Decides(cs[i], z) THEN In(m, z) ELSE In(b, z)
  <2> DEFINE Good(s) == In(g[s], z) <=>
                          IF \E i \in s : Decides(cs[i], z) THEN In(m, z) ELSE In(b, z)
             P == {s \in SUBSET S : Good(s)}
  <2>1. {} \in P BY <1>5
  <2>2. ASSUME NEW s \in SUBSET S, s # {}, \A x \in s : s \ {x} \in P PROVE s \in P
    <3> DEFINE x == Max(s)
    <3>1. x \in s /\ g[s] = ApplyChange(g[s \ {x}], cs[x]) BY <1>4, <2>2
    <3>2. g[s \ {x}] \in Rough /\ cs[x] \in Changes BY <1>1, <1>6, <3>1
    <3> HIDE DEF x
    <3>3. In(g[s], z) <=> IF Decides(cs[x], z) THEN Says(cs[x], z) ELSE In(g[s \ {x}], z)
      BY <3>1, <3>2, ChangeIs
    <3>4. Good(s \ {x}) BY <2>2, <3>1
    <3>5. Decides(cs[x], z) => (In(m, z) <=> Says(cs[x], z)) BY <1>7, <3>1 DEF Agrees
    <3>6. (\E i \in s : Decides(cs[i], z))
             <=> (Decides(cs[x], z) \/ \E i \in s \ {x} : Decides(cs[i], z))
      BY <3>1
    <3>7. Good(s) BY <3>3, <3>4, <3>5, <3>6
    <3> QED BY <3>7
  <2>3. SUBSET S \subseteq P
    <3>1. P \subseteq SUBSET S /\ IsFiniteSet(S) BY <1>1
    <3> HIDE DEF P, S
    <3> QED BY <2>1, <2>2, <3>1, BySize
  <2> QED BY <2>3
<1> QED BY <1>3, <1>6, <1>7 DEF cs

\* The changes of a move in whatever order they are sent are all of them.
LEMMA AllSent ==
    ASSUME NEW S, IsFiniteSet(S), NEW cs \in SetToAllKPermutations(S), Len(cs) = Cardinality(S)
    PROVE  cs \in Seq(S) /\ \A d \in S : \E i \in DOMAIN cs : cs[i] = d
<1>1. PICK r \in SUBSET S : cs \in SetToSeqs(r) BY DEF SetToAllKPermutations
<1>2. IsFiniteSet(r) /\ Cardinality(r) \in Nat BY <1>1, FS_Subset, FS_CardinalityType
<1> DEFINE D == 1..Cardinality(r)
<1>3. cs \in [D -> r] /\ \A i, j \in D : i # j => cs[i] # cs[j] BY <1>1 DEF SetToSeqs
<1>4. cs \in Seq(r) /\ Len(cs) = Cardinality(r) /\ DOMAIN cs = D BY <1>2, <1>3
<1>5. r = S
  <2>1. Cardinality(r) = Cardinality(S) BY <1>4
  <2> QED BY <1>1, <2>1, FS_Subset
<1>6. IsFiniteSet(D) /\ Cardinality(D) = Cardinality(r)
  <2>1. 1 \in Int /\ Cardinality(r) \in Int BY <1>2
  <2>2. /\ IsFiniteSet(1..Cardinality(r))
        /\ Cardinality(1..Cardinality(r)) =
              IF 1 > Cardinality(r) THEN 0 ELSE Cardinality(r) - 1 + 1
    BY <2>1, FS_Interval
  <2> QED BY <1>2, <2>2
<1>7. cs \in Injection(D, r) BY <1>3 DEF Injection, IsInjective
<1>8. cs \in Surjection(D, r)
  <2> HIDE DEF D
  <2> QED BY <1>2, <1>6, <1>7, FS_Injection
<1>9. \A d \in S : \E i \in D : cs[i] = d BY <1>5, <1>8 DEF Surjection
<1> QED BY <1>4, <1>5, <1>9

LEMMA MoveIs ==
    ASSUME NEW a \in Rough, NEW b \in Books,
           NEW cs \in SetToAllKPermutations(Diff(a, b)), Len(cs) = Cardinality(Diff(a, b))
    PROVE  /\ cs \in Seq(Changes)
           /\ \A z \in Points :
                 /\ \A i \in DOMAIN cs : Agrees(cs[i], z, b)
                 /\ (\A i \in DOMAIN cs : ~Decides(cs[i], z)) => (In(a, z) <=> In(b, z))
<1> DEFINE S == Diff(a, b)
<1>1. b \in Rough /\ \A p \in b.bid, q \in b.ask : p < q BY DEF Books, Rough
<1>2. \A d \in S : /\ d \in Changes
                   /\ d.on <=> d.price \in b[d.side]
  <2> SUFFICES ASSUME NEW s \in {"bid", "ask"},
                      NEW p \in (a[s] \ b[s]) \union (b[s] \ a[s])
               PROVE  LET d == [side |-> s, price |-> p, on |-> p \in b[s]]
                      IN  d \in Changes /\ (d.on <=> d.price \in b[d.side])
    BY DEF Diff
  <2>1. a[s] \subseteq Prices /\ b[s] \subseteq Prices BY <1>1 DEF Rough
  <2>2. (p \in b[s]) \in BOOLEAN OBVIOUS
  <2> QED BY <2>1, <2>2 DEF Changes
<1>3. IsFiniteSet(S)
  <2>1. S \subseteq Changes BY <1>2
  <2>2. IsFiniteSet(Changes)
    <3> DEFINE all == {"bid", "ask"} \X (Prices \X BOOLEAN)
    <3>1. IsFiniteSet({"bid", "ask"}) /\ IsFiniteSet(BOOLEAN) /\ IsFiniteSet(Prices)
      <4>1. IsFiniteSet({"bid"}) /\ IsFiniteSet({TRUE}) BY FS_Singleton
      <4>2. IsFiniteSet({"bid"} \union {"ask"}) /\ IsFiniteSet({TRUE} \union {FALSE})
        BY <4>1, FS_AddElement
      <4>3. {"bid"} \union {"ask"} = {"bid", "ask"} /\ {TRUE} \union {FALSE} = BOOLEAN
        OBVIOUS
      <4> QED BY <4>2, <4>3, MarketAssumption
    <3>2. IsFiniteSet(all) BY <3>1, FS_Product
    <3> DEFINE f == [x \in all |-> [side |-> x[1], price |-> x[2][1], on |-> x[2][2]]]
    <3>3. f \in Surjection(all, Changes)
      <4>1. f \in [all -> Changes] BY DEF Changes
      <4>2. ASSUME NEW c \in Changes PROVE \E x \in all : f[x] = c
        <5>1. <<c.side, <<c.price, c.on>>>> \in all BY DEF Changes
        <5>2. f[<<c.side, <<c.price, c.on>>>>] = c BY <5>1 DEF Changes
        <5> QED BY <5>1, <5>2
      <4> HIDE DEF f, all
      <4> QED BY <4>1, <4>2 DEF Surjection
    <3> HIDE DEF f, all
    <3> QED BY <3>2, <3>3, FS_Surjection
  <2> QED BY <2>1, <2>2, FS_Subset
<1>4. cs \in Seq(S) /\ \A d \in S : \E i \in DOMAIN cs : cs[i] = d
  <2> HIDE DEF S
  <2>1. cs \in SetToAllKPermutations(S) /\ Len(cs) = Cardinality(S) BY DEF S
  <2> QED BY <1>3, <2>1, AllSent
<1>5. S \subseteq Changes BY <1>2
<1> HIDE DEF S
<1>6. cs \in Seq(Changes) BY <1>4, <1>5, SeqMonotonic
<1>7. \A i \in DOMAIN cs : cs[i] \in S BY <1>4, LenProperties, ElementOfSeq
<1>8. ASSUME NEW z \in Points, NEW i \in DOMAIN cs PROVE Agrees(cs[i], z, b)
  <2> DEFINE c == cs[i]
  <2>1. c \in Changes /\ (c.on <=> c.price \in b[c.side]) BY <1>2, <1>7
  <2> HIDE DEF c
  <2>2. ASSUME c.side = z.side, c.price = z.price PROVE Agrees(c, z, b)
    BY <2>1, <2>2 DEF Agrees, In, Says
  <2>3. ASSUME c.on, c.side = "bid", z.side = "ask", z.price <= c.price PROVE Agrees(c, z, b)
    <3>1. c.price \in b.bid BY <2>1, <2>3
    <3>2. z.price \notin b.ask
      <4>1. \A q \in b.ask : c.price < q BY <1>1, <3>1
      <4>2. z.price \in Int /\ c.price \in Int
        BY <2>1, MarketAssumption DEF Points, Changes
      <4> QED BY <2>3, <4>1, <4>2
    <3> QED BY <2>3, <3>2 DEF Agrees, In, Says
  <2>4. ASSUME c.on, c.side = "ask", z.side = "bid", z.price >= c.price PROVE Agrees(c, z, b)
    <3>1. c.price \in b.ask BY <2>1, <2>4
    <3>2. z.price \notin b.bid
      <4>1. \A q \in b.bid : q < c.price BY <1>1, <3>1
      <4>2. z.price \in Int /\ c.price \in Int
        BY <2>1, MarketAssumption DEF Points, Changes
      <4> QED BY <2>4, <4>1, <4>2
    <3> QED BY <2>4, <3>2 DEF Agrees, In, Says
  <2>5. Agrees(c, z, b) BY <2>2, <2>3, <2>4 DEF Agrees, Decides
  <2> QED BY <2>5 DEF c
<1>9. ASSUME NEW z \in Points, \A i \in DOMAIN cs : ~Decides(cs[i], z)
      PROVE  In(a, z) <=> In(b, z)
  <2> DEFINE d == [side |-> z.side, price |-> z.price, on |-> z.price \in b[z.side]]
  <2>1. CASE z.price \in (a[z.side] \ b[z.side]) \union (b[z.side] \ a[z.side])
    <3>1. d \in S BY <2>1 DEF S, Diff, Points
    <3>2. PICK i \in DOMAIN cs : cs[i] = d BY <1>4, <3>1
    <3>3. Decides(d, z) BY DEF Decides
    <3> QED BY <1>9, <3>2, <3>3
  <2>2. CASE z.price \notin (a[z.side] \ b[z.side]) \union (b[z.side] \ a[z.side])
    BY <2>2 DEF In
  <2> QED BY <2>1, <2>2
<1> QED BY <1>6, <1>8, <1>9

-----------------------------------------------------------------------------
(* Messages joining a queue at its end and leaving it at its front. *)

LEMMA Joining ==
    ASSUME NEW S, NEW q \in Seq(S), NEW m \in S, NEW t, NEW b, NEW z
    PROVE  LET r == Append(q, m) IN
           /\ Hit(r, t, z) <=> Hit(q, t, z) \/ Hits(m, t, z)
           /\ Seeded(r, t) <=> Seeded(q, t) \/ Seeds(m, t)
           /\ Right(m, t, b, z) /\ (Chain(q, t, b, z) \/ Hits(m, t, z)) => Chain(r, t, b, z)
           /\ /\ Seeds(m, t) => Right(m, t, b, z)
              /\ LastSeed(q, t, b, z) \/ Seeds(m, t) \/ Hits(m, t, z)
              => LastSeed(r, t, b, z)
<1> DEFINE r == Append(q, m)
           n == Len(q)
<1>1. /\ n \in Nat /\ DOMAIN q = 1..n /\ DOMAIN r = 1..(n + 1) /\ r[n + 1] = m
      /\ \A i \in 1..n : r[i] = q[i]
  BY LenProperties
<1> HIDE DEF r, n
<1>2. \A i \in 1..(n + 1) : i \in 1..n \/ i = n + 1 BY <1>1
<1>3. \A i \in 1..n : i \in 1..(n + 1) /\ n + 1 > i /\ ~(i > n + 1) BY <1>1
<1>4. n + 1 \in 1..(n + 1) /\ ~(n + 1 > n + 1) BY <1>1
<1>5. Hit(r, t, z) <=> Hit(q, t, z) \/ Hits(m, t, z)
  <2>1. Hit(r, t, z) => Hit(q, t, z) \/ Hits(m, t, z) BY <1>1, <1>2 DEF Hit
  <2>2. Hit(q, t, z) => Hit(r, t, z) BY <1>1, <1>3 DEF Hit
  <2>3. Hits(m, t, z) => Hit(r, t, z) BY <1>1, <1>4 DEF Hit
  <2> QED BY <2>1, <2>2, <2>3
<1>6. Seeded(r, t) <=> Seeded(q, t) \/ Seeds(m, t)
  <2>1. Seeded(r, t) => Seeded(q, t) \/ Seeds(m, t) BY <1>1, <1>2 DEF Seeded
  <2>2. Seeded(q, t) => Seeded(r, t) BY <1>1, <1>3 DEF Seeded
  <2>3. Seeds(m, t) => Seeded(r, t) BY <1>1, <1>4 DEF Seeded
  <2> QED BY <2>1, <2>2, <2>3
<1>7. \A i \in 1..n : /\ HitAfter(r, t, i, z) <=> HitAfter(q, t, i, z) \/ Hits(m, t, z)
                      /\ SeedAfter(r, t, i) <=> SeedAfter(q, t, i) \/ Seeds(m, t)
  <2> SUFFICES ASSUME NEW i \in 1..n
               PROVE  /\ HitAfter(r, t, i, z) <=> HitAfter(q, t, i, z) \/ Hits(m, t, z)
                      /\ SeedAfter(r, t, i) <=> SeedAfter(q, t, i) \/ Seeds(m, t)
    OBVIOUS
  <2>1. HitAfter(r, t, i, z) => HitAfter(q, t, i, z) \/ Hits(m, t, z)
    BY <1>1, <1>2 DEF HitAfter
  <2>2. HitAfter(q, t, i, z) => HitAfter(r, t, i, z) BY <1>1, <1>3 DEF HitAfter
  <2>3. Hits(m, t, z) => HitAfter(r, t, i, z) BY <1>1, <1>3, <1>4 DEF HitAfter
  <2>4. SeedAfter(r, t, i) => SeedAfter(q, t, i) \/ Seeds(m, t)
    BY <1>1, <1>2 DEF SeedAfter
  <2>5. SeedAfter(q, t, i) => SeedAfter(r, t, i) BY <1>1, <1>3 DEF SeedAfter
  <2>6. Seeds(m, t) => SeedAfter(r, t, i) BY <1>1, <1>3, <1>4 DEF SeedAfter
  <2> QED BY <2>1, <2>2, <2>3, <2>4, <2>5, <2>6
<1>8. ASSUME Right(m, t, b, z), Chain(q, t, b, z) \/ Hits(m, t, z) PROVE Chain(r, t, b, z)
  <2> SUFFICES ASSUME NEW i \in 1..(n + 1), ~HitAfter(r, t, i, z) PROVE Right(r[i], t, b, z)
    BY <1>1 DEF Chain
  <2>1. CASE i = n + 1 BY <1>1, <1>8, <2>1
  <2>2. CASE i \in 1..n BY <1>1, <1>7, <1>8, <2>2 DEF Chain
  <2> QED BY <1>2, <2>1, <2>2
<1>9. ASSUME Seeds(m, t) => Right(m, t, b, z),
             LastSeed(q, t, b, z) \/ Seeds(m, t) \/ Hits(m, t, z)
      PROVE  LastSeed(r, t, b, z)
  <2> SUFFICES ASSUME NEW i \in 1..(n + 1), Seeds(r[i], t), ~SeedAfter(r, t, i),
                      ~HitAfter(r, t, i, z)
               PROVE  Right(r[i], t, b, z)
    BY <1>1 DEF LastSeed
  <2>1. CASE i = n + 1 BY <1>1, <1>9, <2>1
  <2>2. CASE i \in 1..n BY <1>1, <1>7, <1>9, <2>2 DEF LastSeed
  <2> QED BY <1>2, <2>1, <2>2
<1> QED BY <1>5, <1>6, <1>8, <1>9 DEF r

LEMMA Leaving ==
    ASSUME NEW S, NEW q \in Seq(S), q # <<>>, NEW t, NEW b, NEW z
    PROVE  LET m == Head(q)
               r == Tail(q) IN
           /\ Hit(q, t, z) <=> Hit(r, t, z) \/ Hits(m, t, z)
           /\ Seeded(q, t) <=> Seeded(r, t) \/ Seeds(m, t)
           /\ Chain(q, t, b, z) => /\ Chain(r, t, b, z)
                                   /\ ~Hit(r, t, z) => Right(m, t, b, z)
           /\ LastSeed(q, t, b, z) =>
                /\ LastSeed(r, t, b, z)
                /\ Seeds(m, t) /\ ~Seeded(r, t) /\ ~Hit(r, t, z) => Right(m, t, b, z)
<1> DEFINE m == Head(q)
           r == Tail(q)
           n == Len(r)
<1>1. /\ n \in Nat /\ DOMAIN q = 1..(n + 1) /\ DOMAIN r = 1..n /\ q[1] = m
      /\ \A i \in 1..n : r[i] = q[i + 1]
  BY LenProperties, HeadTailProperties
<1> HIDE DEF m, r, n
<1>2. \A i \in 1..(n + 1) : i = 1 \/ (i - 1 \in 1..n /\ (i - 1) + 1 = i) BY <1>1
<1>3. \A i \in 1..n : i + 1 \in 1..(n + 1) /\ i + 1 > 1 BY <1>1
<1>4. 1 \in 1..(n + 1) BY <1>1
<1>5. /\ \A j \in 1..(n + 1), i \in 1..n : j > i + 1 => j - 1 \in 1..n /\ (j - 1) + 1 = j /\ j - 1 > i
      /\ \A j \in 1..n, i \in 1..n : j > i <=> j + 1 > i + 1
      /\ \A j \in 1..(n + 1) : j > 1 => j - 1 \in 1..n /\ (j - 1) + 1 = j
  BY <1>1
<1>6. Hit(q, t, z) <=> Hit(r, t, z) \/ Hits(m, t, z)
  <2>1. Hit(q, t, z) => Hit(r, t, z) \/ Hits(m, t, z) BY <1>1, <1>2 DEF Hit
  <2>2. Hit(r, t, z) => Hit(q, t, z) BY <1>1, <1>3 DEF Hit
  <2>3. Hits(m, t, z) => Hit(q, t, z) BY <1>1, <1>4 DEF Hit
  <2> QED BY <2>1, <2>2, <2>3
<1>7. Seeded(q, t) <=> Seeded(r, t) \/ Seeds(m, t)
  <2>1. Seeded(q, t) => Seeded(r, t) \/ Seeds(m, t) BY <1>1, <1>2 DEF Seeded
  <2>2. Seeded(r, t) => Seeded(q, t) BY <1>1, <1>3 DEF Seeded
  <2>3. Seeds(m, t) => Seeded(q, t) BY <1>1, <1>4 DEF Seeded
  <2> QED BY <2>1, <2>2, <2>3
<1>8. \A i \in 1..n : /\ HitAfter(q, t, i + 1, z) => HitAfter(r, t, i, z)
                      /\ SeedAfter(q, t, i + 1) => SeedAfter(r, t, i)
  <2>1. \A i \in 1..n : HitAfter(q, t, i + 1, z) => HitAfter(r, t, i, z)
    BY <1>1, <1>5 DEF HitAfter
  <2>2. \A i \in 1..n : SeedAfter(q, t, i + 1) => SeedAfter(r, t, i)
    BY <1>1, <1>5 DEF SeedAfter
  <2> QED BY <2>1, <2>2
<1>9. HitAfter(q, t, 1, z) => Hit(r, t, z) BY <1>1, <1>5 DEF HitAfter, Hit
<1>10. SeedAfter(q, t, 1) => Seeded(r, t) BY <1>1, <1>5 DEF SeedAfter, Seeded
<1>11. ASSUME Chain(q, t, b, z)
       PROVE  Chain(r, t, b, z) /\ (~Hit(r, t, z) => Right(m, t, b, z))
  <2>1. \A i \in 1..n : ~HitAfter(r, t, i, z) => Right(r[i], t, b, z)
    BY <1>1, <1>3, <1>8, <1>11 DEF Chain
  <2>2. ~Hit(r, t, z) => Right(m, t, b, z) BY <1>1, <1>4, <1>9, <1>11 DEF Chain
  <2> QED BY <1>1, <2>1, <2>2 DEF Chain
<1>12. ASSUME LastSeed(q, t, b, z)
       PROVE  /\ LastSeed(r, t, b, z)
              /\ Seeds(m, t) /\ ~Seeded(r, t) /\ ~Hit(r, t, z) => Right(m, t, b, z)
  <2>1. \A i \in 1..n : (Seeds(r[i], t) /\ ~SeedAfter(r, t, i) /\ ~HitAfter(r, t, i, z))
                           => Right(r[i], t, b, z)
    BY <1>1, <1>3, <1>8, <1>12 DEF LastSeed
  <2>2. Seeds(m, t) /\ ~Seeded(r, t) /\ ~Hit(r, t, z) => Right(m, t, b, z)
    BY <1>1, <1>4, <1>9, <1>10, <1>12 DEF LastSeed
  <2> QED BY <1>1, <2>1, <2>2 DEF LastSeed
<1> QED BY <1>6, <1>7, <1>11, <1>12 DEF m, r

\* A queue without messages of t says nothing of it.
LEMMA Silent ==
    ASSUME NEW q, NEW t, For(t, q) = {}, NEW b, NEW z
    PROVE  /\ ~Hit(q, t, z) /\ ~Seeded(q, t)
           /\ Chain(q, t, b, z) /\ LastSeed(q, t, b, z)
<1>1. \A i \in DOMAIN q : q[i].ticker # t BY DEF For
<1>2. ~Hit(q, t, z) /\ ~Seeded(q, t) BY <1>1 DEF Hit, Hits, Moves, Seeded, Seeds
<1>3. Chain(q, t, b, z) /\ LastSeed(q, t, b, z)
  BY <1>1 DEF Chain, LastSeed, Right, Moves, Seeds
<1> QED BY <1>2, <1>3

-----------------------------------------------------------------------------
(* The processor's queue, as messages. *)

AsUpdate(j)  == Update(j.ticker, j.changes, FALSE)
Queued(q)    == [i \in DOMAIN q |-> AsUpdate(q[i])]

\* An entry the processor will not understand, or not apply.
Doomed(q, t) == \E i \in DOMAIN q : q[i].ticker = t /\ ~q[i].direct

LEMMA QueuedIs ==
    ASSUME NEW q \in Seq(Jobs)
    PROVE  /\ Queued(q) \in Seq(Wired)
           /\ \A j \in Jobs : AsUpdate(j) \in Wired /\ Queued(Append(q, j)) = Append(Queued(q), AsUpdate(j))
           /\ q # <<>> => /\ Queued(q) # <<>> /\ Head(q) \in Jobs
                          /\ Head(Queued(q)) = AsUpdate(Head(q))
                          /\ Queued(Tail(q)) = Tail(Queued(q))
           /\ \A t : For(t, q) = {} => For(t, Queued(q)) = {}
<1>1. \A j \in Jobs : AsUpdate(j) \in Wired BY DEF AsUpdate, Update, Jobs, Wired
<1>2. \A r \in Seq(Jobs) : /\ Queued(r) \in Seq(Wired) /\ Len(Queued(r)) = Len(r)
                           /\ \A i \in 1..Len(r) : Queued(r)[i] = AsUpdate(r[i])
  <2> SUFFICES ASSUME NEW r \in Seq(Jobs)
               PROVE  /\ Queued(r) \in Seq(Wired) /\ Len(Queued(r)) = Len(r)
                      /\ \A i \in 1..Len(r) : Queued(r)[i] = AsUpdate(r[i])
    OBVIOUS
  <2>1. DOMAIN r = 1..Len(r) /\ Len(r) \in Nat /\ \A i \in 1..Len(r) : r[i] \in Jobs
    BY LenProperties, ElementOfSeq
  <2>2. Queued(r) = [i \in 1..Len(r) |-> AsUpdate(r[i])] BY <2>1 DEF Queued
  <2>3. Queued(r) \in [1..Len(r) -> Wired] BY <1>1, <2>1, <2>2
  <2> HIDE DEF Queued
  <2> QED BY <2>1, <2>2, <2>3
<1>3. ASSUME NEW j \in Jobs PROVE Queued(Append(q, j)) = Append(Queued(q), AsUpdate(j))
  <2>1. Append(q, j) \in Seq(Jobs) OBVIOUS
  <2>2. Append(Queued(q), AsUpdate(j)) \in Seq(Wired) /\ Queued(Append(q, j)) \in Seq(Wired)
    <3>1. Queued(q) \in Seq(Wired) /\ AsUpdate(j) \in Wired BY <1>1, <1>2
    <3>2. Append(Queued(q), AsUpdate(j)) \in Seq(Wired) BY <3>1
    <3> QED BY <1>2, <2>1, <3>2
  <2>3. Len(Queued(Append(q, j))) = Len(q) + 1 /\ Len(Append(Queued(q), AsUpdate(j))) = Len(q) + 1
    <3>1. Len(Append(q, j)) = Len(q) + 1 OBVIOUS
    <3>2. Queued(q) \in Seq(Wired) /\ Len(Queued(q)) = Len(q) BY <1>2
    <3>3. Len(Append(Queued(q), AsUpdate(j))) = Len(Queued(q)) + 1 BY <3>2
    <3> QED BY <1>2, <2>1, <3>1, <3>2, <3>3
  <2>4. \A i \in 1..(Len(q) + 1) : Queued(Append(q, j))[i] = Append(Queued(q), AsUpdate(j))[i]
    <3> SUFFICES ASSUME NEW i \in 1..(Len(q) + 1)
                 PROVE  Queued(Append(q, j))[i] = Append(Queued(q), AsUpdate(j))[i]
      OBVIOUS
    <3>1. Len(q) \in Nat /\ Len(Append(q, j)) = Len(q) + 1 OBVIOUS
    <3>2. Queued(Append(q, j))[i] = AsUpdate(Append(q, j)[i]) BY <1>2, <2>1, <3>1
    <3>3. CASE i = Len(q) + 1
      <4>1. Append(q, j)[i] = j BY <3>3
      <4>2. Append(Queued(q), AsUpdate(j))[i] = AsUpdate(j) BY <1>1, <1>2, <3>3
      <4> QED BY <3>2, <4>1, <4>2
    <3>4. CASE i \in 1..Len(q)
      <4>1. Append(q, j)[i] = q[i] BY <3>4
      <4>2. Append(Queued(q), AsUpdate(j))[i] = Queued(q)[i] BY <1>1, <1>2, <3>4
      <4>3. Queued(q)[i] = AsUpdate(q[i]) BY <1>2, <3>4
      <4> QED BY <3>2, <4>1, <4>2, <4>3
    <3>5. i = Len(q) + 1 \/ i \in 1..Len(q) BY <3>1
    <3> QED BY <3>3, <3>4, <3>5
  <2> QED BY <2>2, <2>3, <2>4, SeqEqual
<1>4. ASSUME q # <<>>
      PROVE  /\ Queued(q) # <<>> /\ Head(q) \in Jobs /\ Head(Queued(q)) = AsUpdate(Head(q))
             /\ Queued(Tail(q)) = Tail(Queued(q))
  <2>1. /\ Head(q) \in Jobs /\ Tail(q) \in Seq(Jobs) /\ Len(Tail(q)) = Len(q) - 1
        /\ Len(q) \in Nat \ {0} /\ \A i \in 1..Len(Tail(q)) : Tail(q)[i] = q[i + 1]
    BY <1>4, HeadTailProperties, EmptySeq
  <2>2. Queued(q) # <<>> /\ Queued(q) \in Seq(Wired) /\ Len(Queued(q)) = Len(q)
    BY <1>2, <2>1
  <2>3. /\ Tail(Queued(q)) \in Seq(Wired) /\ Len(Tail(Queued(q))) = Len(q) - 1
        /\ \A i \in 1..(Len(q) - 1) : Tail(Queued(q))[i] = Queued(q)[i + 1]
    BY <2>2, HeadTailProperties
  <2>4. Head(Queued(q)) = AsUpdate(Head(q)) BY <1>2, <1>4, <2>1, <2>2
  <2>5. Queued(Tail(q)) \in Seq(Wired) /\ Len(Queued(Tail(q))) = Len(q) - 1 BY <1>2, <2>1
  <2>6. \A i \in 1..(Len(q) - 1) : Queued(Tail(q))[i] = Tail(Queued(q))[i]
    <3> SUFFICES ASSUME NEW i \in 1..(Len(q) - 1)
                 PROVE  Queued(Tail(q))[i] = Tail(Queued(q))[i]
      OBVIOUS
    <3>1. i + 1 \in 1..Len(q) /\ i \in 1..Len(Tail(q)) BY <2>1
    <3>2. Queued(Tail(q))[i] = AsUpdate(Tail(q)[i]) BY <1>2, <2>1, <3>1
    <3>3. Tail(Queued(q))[i] = AsUpdate(q[i + 1]) BY <1>2, <2>3, <3>1
    <3> QED BY <2>1, <3>1, <3>2, <3>3
  <2> QED BY <2>1, <2>2, <2>3, <2>4, <2>5, <2>6, SeqEqual
<1>5. ASSUME NEW t, For(t, q) = {} PROVE For(t, Queued(q)) = {}
  <2>1. \A i \in DOMAIN q : q[i].ticker # t BY <1>5 DEF For
  <2>2. DOMAIN Queued(q) = DOMAIN q /\ \A i \in DOMAIN q : Queued(q)[i].ticker = q[i].ticker
    BY DEF Queued, AsUpdate, Update
  <2> QED BY <2>1, <2>2 DEF For
<1> QED BY <1>1, <1>2, <1>3, <1>4, <1>5

LEMMA DoomedIs ==
    ASSUME NEW q \in Seq(Jobs), NEW t
    PROVE  /\ \A j \in Jobs : Doomed(Append(q, j), t) <=> Doomed(q, t) \/ (j.ticker = t /\ ~j.direct)
           /\ q # <<>> => (Doomed(q, t) <=> Doomed(Tail(q), t) \/ (Head(q).ticker = t /\ ~Head(q).direct))
           /\ For(t, q) = {} => ~Doomed(q, t)
<1>1. DOMAIN q = 1..Len(q) /\ Len(q) \in Nat BY LenProperties
<1>2. ASSUME NEW j \in Jobs
      PROVE  Doomed(Append(q, j), t) <=> Doomed(q, t) \/ (j.ticker = t /\ ~j.direct)
  <2> DEFINE r == Append(q, j)
             n == Len(q)
  <2>1. /\ DOMAIN r = 1..(n + 1) /\ r[n + 1] = j /\ \A i \in 1..n : r[i] = q[i]
    BY LenProperties
  <2>2. \A i \in 1..(n + 1) : i \in 1..n \/ i = n + 1 BY <1>1
  <2>3. n + 1 \in 1..(n + 1) /\ \A i \in 1..n : i \in 1..(n + 1) BY <1>1
  <2> HIDE DEF r, n
  <2>4. Doomed(r, t) => Doomed(q, t) \/ (j.ticker = t /\ ~j.direct)
    BY <1>1, <2>1, <2>2 DEF Doomed, n
  <2>5. Doomed(q, t) => Doomed(r, t) BY <1>1, <2>1, <2>3 DEF Doomed, n
  <2>6. (j.ticker = t /\ ~j.direct) => Doomed(r, t) BY <2>1, <2>3 DEF Doomed
  <2> QED BY <2>4, <2>5, <2>6 DEF r
<1>3. ASSUME q # <<>>
      PROVE  Doomed(q, t) <=> Doomed(Tail(q), t) \/ (Head(q).ticker = t /\ ~Head(q).direct)
  <2> DEFINE r == Tail(q)
             n == Len(r)
  <2>1. /\ n \in Nat /\ DOMAIN q = 1..(n + 1) /\ DOMAIN r = 1..n /\ q[1] = Head(q)
        /\ \A i \in 1..n : r[i] = q[i + 1]
    BY <1>3, LenProperties, HeadTailProperties
  <2> HIDE DEF r, n
  <2>2. \A i \in 1..(n + 1) : i = 1 \/ (i - 1 \in 1..n /\ (i - 1) + 1 = i) BY <2>1
  <2>3. 1 \in 1..(n + 1) /\ \A i \in 1..n : i + 1 \in 1..(n + 1) BY <2>1
  <2>4. Doomed(q, t) => Doomed(r, t) \/ (Head(q).ticker = t /\ ~Head(q).direct)
    <3> SUFFICES ASSUME NEW i \in 1..(n + 1), q[i].ticker = t, ~q[i].direct
                 PROVE  Doomed(r, t) \/ (Head(q).ticker = t /\ ~Head(q).direct)
      BY <2>1 DEF Doomed
    <3>1. CASE i = 1 BY <2>1, <3>1
    <3>2. CASE i # 1
      <4>1. i - 1 \in 1..n /\ (i - 1) + 1 = i BY <2>2, <3>2
      <4>2. r[i - 1] = q[i] BY <2>1, <4>1
      <4> QED BY <2>1, <4>1, <4>2 DEF Doomed
    <3> QED BY <3>1, <3>2
  <2>5. Doomed(r, t) => Doomed(q, t) BY <2>1, <2>3 DEF Doomed
  <2>6. (Head(q).ticker = t /\ ~Head(q).direct) => Doomed(q, t) BY <2>1, <2>3 DEF Doomed
  <2> QED BY <2>4, <2>5, <2>6 DEF r
<1>4. For(t, q) = {} => ~Doomed(q, t) BY DEF For, Doomed
<1> QED BY <1>2, <1>3, <1>4

-----------------------------------------------------------------------------
(* The invariant. *)

PipeOK ==
    /\ market \in [Tickers -> Books] /\ book \in [Tickers -> Rough]
    /\ wire \in Seq(Wired) /\ procQ \in Seq(Jobs)
    /\ wanted \subseteq ctrl /\ ctrl \subseteq Tickers
    /\ lost \in [Tickers -> SUBSET Causes] /\ running \in BOOLEAN
    /\ main.op = "rest" => main.ticker \in Tickers /\ main.book \in Rough
    /\ Flat => \A i \in DOMAIN procQ : ~procQ[i].direct

\* The book of t is meant to follow the exchange's.
Clean(t) == t \in wanted /\ lost[t] = {}

\* The messages under way say something of the level z, or count for nothing.
Waiting(t, z) ==
    \/ Seeded(wire, t) \/ Hit(wire, t, z)
    \/ Flat /\ Hit(Queued(procQ), t, z)
    \/ ~Flat /\ Doomed(procQ, t)

SeedRight(t, z) == t \in subs => LastSeed(wire, t, market[t], z)

FetchRight(t, z) ==
    (main.op = "rest" /\ main.ticker = t /\ t \in subs /\ ~Hit(wire, t, z))
       => (In(market[t], z) <=> In(main.book, z))

ChainRight(t, z) ==
    Clean(t) => /\ Chain(wire, t, market[t], z)
                /\ (Flat /\ ~Hit(wire, t, z)) => Chain(Queued(procQ), t, market[t], z)

BookRight(t, z) ==
    (Clean(t) /\ t \in subs /\ ~Waiting(t, z)) => (In(market[t], z) <=> In(book[t], z))

Follows(t, z) == SeedRight(t, z) /\ FetchRight(t, z) /\ ChainRight(t, z) /\ BookRight(t, z)

FollowInv == \A t \in Tickers : \A z \in Points : Follows(t, z)

\* Steps that leave the way from the exchange to the book of t alone.
LEMMA SameWay ==
    ASSUME NEW t \in Tickers, NEW z \in Points, Follows(t, z),
           market'[t] = market[t], wire' = wire, procQ' = procQ, book'[t] = book[t],
           t \in subs' => t \in subs, Clean(t)' => Clean(t),
           main'.op = "rest" /\ main'.ticker = t => main' = main \/ main'.book = market[t]
    PROVE  Follows(t, z)'
<1>1. SeedRight(t, z)' BY DEF Follows, SeedRight, LastSeed, SeedAfter, HitAfter
<1>2. Hit(wire, t, z)' = Hit(wire, t, z) /\ Seeded(wire, t)' = Seeded(wire, t)
  BY DEF Hit, Seeded
<1>3. FetchRight(t, z)' BY <1>2 DEF Follows, FetchRight
<1>4. ChainRight(t, z)' BY <1>2 DEF Follows, ChainRight
<1>5. Waiting(t, z)' = Waiting(t, z) BY DEF Waiting
<1>6. BookRight(t, z)' BY <1>5 DEF Follows, BookRight
<1> QED BY <1>1, <1>3, <1>4, <1>6 DEF Follows

LEMMA WiredIs ==
    ASSUME NEW m \in Wired
    PROVE  /\ m.ticker \in Tickers /\ m.kind \in {"update", "snapshot"}
           /\ m.kind = "update" => m.changes \in Seq(Changes)
           /\ m.kind = "snapshot" => m.book \in Rough
BY DEF Wired

LEMMA SnapshotIs ==
    ASSUME PipeOK, NEW t \in Tickers
    PROVE  /\ Snapshot(t) \in Wired /\ market[t] \in Rough
           /\ Snapshot(t).kind = "snapshot" /\ Snapshot(t).ticker = t
           /\ Snapshot(t).book = market[t]
<1>1. market[t] \in Rough BY DEF PipeOK, Books, Rough
<1> QED BY <1>1 DEF Snapshot, Wired

-----------------------------------------------------------------------------
(* The steps. *)

\* The session ends: nothing is under way any more, and nothing is claimed.
LEMMA OverFollows ==
    ASSUME PipeOK, NEW t \in Tickers, NEW z \in Points, SessionOver, wanted' = wanted
    PROVE  Follows(t, z)'
<1>1. t \notin subs' BY DEF SessionOver
<1>2. ~Clean(t)'
  <2>1. t \in wanted => lost'[t] = lost[t] \union {"link"} BY DEF SessionOver, PipeOK
  <2> QED BY <2>1 DEF Clean
<1> QED BY <1>1, <1>2 DEF Follows, SeedRight, FetchRight, ChainRight, BookRight

LEMMA WriteFollows ==
    ASSUME PipeOK, LinkInv, NEW t \in Tickers, NEW z \in Points, Follows(t, z), WriteOk
    PROVE  Follows(t, z)'
<1>1. /\ IF reading THEN Serve(writeMsg) ELSE UNCHANGED <<market, subs, wire>>
      /\ UNCHANGED <<wanted, procQ, book, main, lost>> /\ main.op # "rest"
      /\ writeMsg # NoMsg
  BY DEF WriteOk, exchange, feed, pipeline, thread, IoFree
<1>2. Clean(t)' = Clean(t) BY <1>1 DEF Clean
<1>3. CASE ~reading BY <1>1, <1>2, <1>3, SameWay
<1>4. CASE reading /\ writeMsg.kind \notin {"ticker_subscribe", "orderbook_subscribe"}
  <2>1. wire' = wire /\ market' = market /\ subs' \subseteq subs BY <1>1, <1>4 DEF Serve
  <2> QED BY <1>1, <1>2, <2>1, SameWay
<1>5. CASE reading /\ writeMsg.kind \in {"ticker_subscribe", "orderbook_subscribe"}
  <2> DEFINE u == writeMsg.ticker
             m == Snapshot(u)
  <2>1. /\ subs' = subs \union {u} /\ wire' = Append(wire, m) /\ market' = market
    BY <1>1, <1>5 DEF Serve
  <2>2. u \in Tickers
    <3>1. writeMsg \in Messages BY <1>1 DEF LinkInv, LinkTypeOK
    <3> QED BY <1>5, <3>1, KindsDiffer
  <2>3. m \in Wired /\ m.kind = "snapshot" /\ m.ticker = u /\ m.book = market[u]
    BY <2>2, SnapshotIs
  <2>4. wire \in Seq(Wired) BY DEF PipeOK
  <2> HIDE DEF m
  <2>5. Right(m, t, market[t], z) /\ ~Hits(m, t, z) /\ (Seeds(m, t) <=> u = t)
    BY <2>3 DEF Right, Hits, Moves, Seeds
  <2>6. /\ Hit(wire', t, z) <=> Hit(wire, t, z)
        /\ Seeded(wire', t) <=> Seeded(wire, t) \/ u = t
        /\ Chain(wire, t, market[t], z) => Chain(wire', t, market[t], z)
        /\ LastSeed(wire, t, market[t], z) \/ u = t => LastSeed(wire', t, market[t], z)
    BY <2>1, <2>3, <2>4, <2>5, Joining
  <2>7. SeedRight(t, z)' BY <2>1, <2>6 DEF Follows, SeedRight
  <2>8. FetchRight(t, z)' BY <1>1 DEF FetchRight
  <2>9. ChainRight(t, z)' BY <1>1, <1>2, <2>1, <2>6 DEF Follows, ChainRight
  <2>10. ~Waiting(t, z)' => ~Waiting(t, z) /\ u # t BY <1>1, <2>6 DEF Waiting
  <2>11. BookRight(t, z)' BY <1>1, <1>2, <2>1, <2>10 DEF Follows, BookRight
  <2> QED BY <2>7, <2>8, <2>9, <2>11 DEF Follows
<1> QED BY <1>3, <1>4, <1>5

\* What Deliver does to the book of t, and what it makes up for.
LEMMA HealedIs ==
    ASSUME PipeOK, NEW t \in Tickers, NEW q, lost'[t] = Healed(t, q), lost'[t] = {}, lost[t] # {}
    PROVE  For(t, q) = {} /\ For(t, procQ) = {}
BY DEF Healed

LEMMA SnapshotFollows ==
    ASSUME PipeOK, NEW t \in Tickers, NEW z \in Points, Follows(t, z), ReadSnapshot
    PROVE  Follows(t, z)'
<1> DEFINE s == Head(wire)
           u == s.ticker
<1>1. /\ wire # <<>> /\ s.kind = "snapshot" /\ wire' = Tail(wire)
      /\ IF u \in wanted THEN Deliver(u, s, wire') ELSE UNCHANGED <<book, lost>>
      /\ UNCHANGED <<market, subs, wanted, procQ, main>> /\ main.op # "rest"
  BY DEF ReadSnapshot, feed, pipeline, thread, IoFree
<1>2. wire \in Seq(Wired) /\ Queued(procQ) = Queued(procQ)' /\ wanted \subseteq Tickers
  BY <1>1 DEF PipeOK
<1>3. s \in Wired /\ u \in Tickers /\ s.book \in Rough
  <2>1. s \in Wired BY <1>1, <1>2, HeadTailProperties
  <2> QED BY <1>1, <2>1, WiredIs
<1>4. /\ Hit(wire, t, z) <=> Hit(wire', t, z) \/ Hits(s, t, z)
      /\ Seeded(wire, t) <=> Seeded(wire', t) \/ Seeds(s, t)
      /\ Chain(wire, t, market[t], z) => /\ Chain(wire', t, market[t], z)
                                         /\ ~Hit(wire', t, z) => Right(s, t, market[t], z)
      /\ LastSeed(wire, t, market[t], z) =>
            /\ LastSeed(wire', t, market[t], z)
            /\ Seeds(s, t) /\ ~Seeded(wire', t) /\ ~Hit(wire', t, z)
                 => Right(s, t, market[t], z)
  BY <1>1, <1>2, Leaving
<1> HIDE DEF s, u
<1>5. ~Hits(s, t, z) /\ (Seeds(s, t) <=> u = t) BY <1>1 DEF Hits, Moves, Seeds, u
<1>6. SeedRight(t, z)' BY <1>1, <1>4 DEF Follows, SeedRight
<1>7. FetchRight(t, z)' BY <1>1 DEF FetchRight
<1>8. CASE u # t \/ t \notin wanted
  <2>1. book'[t] = book[t] /\ lost'[t] = lost[t]
    <3>1. CASE u \notin wanted BY <1>1, <3>1
    <3>2. CASE u \in wanted
      <4>1. u # t /\ Deliver(u, s, wire') BY <1>1, <1>8, <3>2
      <4> QED BY <4>1 DEF Deliver, PipeOK
    <3> QED BY <3>1, <3>2
  <2>2. Clean(t)' = Clean(t) BY <1>1, <2>1 DEF Clean
  <2>3. ChainRight(t, z)' BY <1>1, <1>4, <1>5, <2>2 DEF Follows, ChainRight
  <2>4. Clean(t)' => (Waiting(t, z)' <=> Waiting(t, z))
    BY <1>1, <1>4, <1>5, <1>8, <2>2 DEF Waiting, Clean
  <2>5. BookRight(t, z)' BY <1>1, <2>1, <2>2, <2>4 DEF Follows, BookRight
  <2> QED BY <1>6, <1>7, <2>3, <2>5 DEF Follows
<1>9. CASE u = t /\ t \in wanted
  <2>1. book'[t] = s.book /\ lost'[t] = Healed(t, wire')
    <3>1. Deliver(t, s, wire') BY <1>1, <1>9
    <3> QED BY <3>1 DEF Deliver, ApplySnapshot, PipeOK
  <2>2. CASE lost[t] = {}
    <3>1. Clean(t) BY <1>9, <2>2 DEF Clean
    <3>2. ChainRight(t, z)' BY <1>1, <1>4, <1>5, <3>1 DEF Follows, ChainRight
    <3>3. ~Hit(wire', t, z) => (In(market[t], z) <=> In(s.book, z))
      BY <1>4, <1>5, <1>9, <3>1 DEF Follows, ChainRight, Right
    <3>4. BookRight(t, z)' BY <1>1, <2>1, <3>3 DEF BookRight, Waiting
    <3> QED BY <1>6, <1>7, <3>2, <3>4 DEF Follows
  <2>3. CASE lost[t] # {} /\ lost'[t] = {}
    <3>1. For(t, wire') = {} /\ For(t, procQ) = {} BY <2>1, <2>3, HealedIs
    <3>2. ~Hit(wire', t, z) /\ ~Seeded(wire', t) /\ Chain(wire', t, market[t], z)
      BY <3>1, Silent
    <3>3. Chain(Queued(procQ), t, market[t], z)
      <4>1. For(t, Queued(procQ)) = {} BY <3>1, QueuedIs DEF PipeOK
      <4> QED BY <4>1, Silent
    <3>4. ChainRight(t, z)' BY <1>1, <3>2, <3>3 DEF ChainRight
    <3>5. t \in subs => (In(market[t], z) <=> In(s.book, z))
      BY <1>4, <1>5, <1>9, <3>2 DEF Follows, SeedRight, Right
    <3>6. BookRight(t, z)' BY <1>1, <2>1, <3>5 DEF BookRight
    <3> QED BY <1>6, <1>7, <3>4, <3>6 DEF Follows
  <2>4. CASE lost'[t] # {}
    <3>1. ~Clean(t)' BY <2>4 DEF Clean
    <3> QED BY <1>6, <1>7, <3>1 DEF Follows, ChainRight, BookRight
  <2> QED BY <2>2, <2>3, <2>4
<1> QED BY <1>8, <1>9

LEMMA DeliverFollows ==
    ASSUME PipeOK, NEW t \in Tickers, NEW z \in Points, Follows(t, z), DeliverFetched
    PROVE  Follows(t, z)'
<1> DEFINE u == main.ticker
<1>1. /\ main.op = "rest" /\ Deliver(u, main, wire) /\ main' = Idle
      /\ UNCHANGED <<market, subs, wire, wanted, procQ>>
  BY DEF DeliverFetched, exchange, feed, pipeline
<1>2. u \in Tickers /\ main.book \in Rough /\ main'.op # "rest" BY <1>1 DEF PipeOK, Idle
<1>3. CASE u # t
  <2>1. book'[t] = book[t] /\ lost'[t] = lost[t] BY <1>1, <1>3 DEF Deliver, PipeOK
  <2>2. Clean(t)' = Clean(t) BY <1>1, <2>1 DEF Clean
  <2> QED BY <1>1, <1>2, <2>1, <2>2, SameWay
<1>4. CASE u = t
  <2>1. book'[t] = main.book /\ lost'[t] = Healed(t, wire)
    BY <1>1, <1>2, <1>4 DEF Deliver, ApplySnapshot, PipeOK
  <2>2. SeedRight(t, z)' BY <1>1 DEF Follows, SeedRight
  <2>3. FetchRight(t, z)' BY <1>2 DEF FetchRight
  <2>4. ~Hit(wire, t, z) /\ t \in subs => (In(market[t], z) <=> In(main.book, z))
    BY <1>1, <1>4 DEF Follows, FetchRight
  <2>5. BookRight(t, z)' BY <1>1, <2>1, <2>4 DEF BookRight, Waiting
  <2>6. ChainRight(t, z)'
    <3>1. CASE lost[t] = {}
      <4>1. Clean(t)' => Clean(t) BY <1>1, <3>1 DEF Clean
      <4> QED BY <1>1, <4>1 DEF Follows, ChainRight
    <3>2. CASE lost[t] # {} /\ lost'[t] = {}
      <4>1. For(t, wire) = {} /\ For(t, procQ) = {} BY <2>1, <3>2, HealedIs
      <4>2. Chain(wire, t, market[t], z) BY <4>1, Silent
      <4>3. Chain(Queued(procQ), t, market[t], z)
        <5>1. For(t, Queued(procQ)) = {} BY <4>1, QueuedIs DEF PipeOK
        <5> QED BY <5>1, Silent
      <4> QED BY <1>1, <4>2, <4>3 DEF ChainRight
    <3>3. CASE lost'[t] # {} BY <3>3 DEF ChainRight, Clean
    <3> QED BY <3>1, <3>2, <3>3
  <2> QED BY <2>2, <2>3, <2>5, <2>6 DEF Follows
<1> QED BY <1>3, <1>4

\* An update in front of the others brings the book closer.
LEMMA AppliedIs ==
    ASSUME NEW b \in Rough, NEW m, m.changes \in Seq(Changes), NEW t, Moves(m, t),
           NEW z \in Points, NEW k, Right(m, t, k, z), ~Hits(m, t, z) => (In(k, z) <=> In(b, z))
    PROVE  In(k, z) <=> In(ApplyUpdate(b, m), z)
<1>1. \A i \in DOMAIN m.changes : Agrees(m.changes[i], z, k) BY DEF Right
<1>2. Hits(m, t, z) <=> \E i \in DOMAIN m.changes : Decides(m.changes[i], z) BY DEF Hits
<1>3. In(ApplyUpdate(b, m), z) <=>
         IF \E i \in DOMAIN m.changes : Decides(m.changes[i], z) THEN In(k, z) ELSE In(b, z)
  BY <1>1, UpdateIs
<1> QED BY <1>2, <1>3

LEMMA UpdateFollows ==
    ASSUME PipeOK, NEW t \in Tickers, NEW z \in Points, Follows(t, z), ReadUpdate
    PROVE  Follows(t, z)'
<1> DEFINE m == Head(wire)
           u == m.ticker
           direct == ~running /\ ~Flat /\ u \in wanted
           why == IF m.long THEN (IF direct THEN {} ELSE {"size"})
                  ELSE IF Full(procQ) THEN {"overflow"} ELSE {}
           j == [ticker |-> u, changes |-> m.changes, direct |-> direct]
<1>1. /\ wire # <<>> /\ m.kind = "update" /\ wire' = Tail(wire)
      /\ procQ' = IF m.long \/ Full(procQ) THEN procQ ELSE Append(procQ, j)
      /\ book' = IF direct THEN [book EXCEPT ![u] = ApplyUpdate(@, m)] ELSE book
      /\ lost' = IF u \in ctrl THEN [lost EXCEPT ![u] = @ \union why] ELSE lost
      /\ UNCHANGED <<market, subs, wanted, main>> /\ main.op # "rest"
  BY DEF ReadUpdate, feed, thread, IoFree
<1>2. wire \in Seq(Wired) /\ procQ \in Seq(Jobs) /\ wanted \subseteq ctrl BY DEF PipeOK
<1>3. m \in Wired /\ u \in Tickers /\ m.changes \in Seq(Changes)
  <2>1. m \in Wired BY <1>1, <1>2, HeadTailProperties
  <2> QED BY <1>1, <2>1, WiredIs
<1>4. /\ j \in Jobs /\ j.ticker = u /\ j.changes = m.changes
      /\ (j.direct <=> direct)
  <2>1. direct \in BOOLEAN OBVIOUS
  <2> QED BY <1>3, <2>1 DEF Jobs
<1>5. /\ Hit(wire, t, z) <=> Hit(wire', t, z) \/ Hits(m, t, z)
      /\ Seeded(wire, t) <=> Seeded(wire', t) \/ Seeds(m, t)
      /\ Chain(wire, t, market[t], z) => /\ Chain(wire', t, market[t], z)
                                         /\ ~Hit(wire', t, z) => Right(m, t, market[t], z)
      /\ LastSeed(wire, t, market[t], z) => LastSeed(wire', t, market[t], z)
  BY <1>1, <1>2, Leaving
<1>6. why # {} \/ lost' = lost
  <2>1. ASSUME why = {} PROVE lost' = lost
    <3>1. [lost EXCEPT ![u] = @ \union {}] = lost BY DEF PipeOK
    <3> HIDE DEF why
    <3> QED BY <1>1, <2>1, <3>1
  <2> QED BY <2>1
<1>7. u \in ctrl => lost'[u] = lost[u] \union why
  <2> HIDE DEF why
  <2> QED BY <1>1, <1>3 DEF PipeOK
<1>8. \A x \in Tickers : x # u => lost'[x] = lost[x] /\ book'[x] = book[x]
  <2> HIDE DEF why, direct
  <2> QED BY <1>1 DEF PipeOK
<1>9. direct => book'[u] = ApplyUpdate(book[u], m)
  <2> HIDE DEF direct, m, u
  <2> QED BY <1>1, <1>3 DEF PipeOK
<1>10. why = {} => (m.long /\ direct) \/ (~m.long /\ ~Full(procQ)) OBVIOUS
<1>11. direct => ~Flat OBVIOUS
<1>12. direct => u \in wanted OBVIOUS
<1> HIDE DEF m, u, why, j
<1>13. ~Seeds(m, t) /\ (Moves(m, t) <=> u = t) BY <1>1 DEF Seeds, Moves, u
<1>14. SeedRight(t, z)' BY <1>1, <1>5 DEF Follows, SeedRight
<1>15. FetchRight(t, z)' BY <1>1 DEF FetchRight
<1>16. /\ Hit(Queued(Append(procQ, j)), t, z)
             <=> Hit(Queued(procQ), t, z) \/ Hits(AsUpdate(j), t, z)
       /\ Right(AsUpdate(j), t, market[t], z)
             /\ (Chain(Queued(procQ), t, market[t], z) \/ Hits(AsUpdate(j), t, z))
             => Chain(Queued(Append(procQ, j)), t, market[t], z)
  <2>1. Queued(procQ) \in Seq(Wired) /\ AsUpdate(j) \in Wired
        /\ Queued(Append(procQ, j)) = Append(Queued(procQ), AsUpdate(j))
    BY <1>2, <1>4, QueuedIs
  <2> QED BY <2>1, Joining
<1>17. /\ Hits(AsUpdate(j), t, z) <=> Hits(m, t, z)
       /\ Right(m, t, market[t], z) => Right(AsUpdate(j), t, market[t], z)
  <2>1. /\ AsUpdate(j).kind = "update" /\ AsUpdate(j).ticker = u
        /\ AsUpdate(j).changes = m.changes
    BY <1>4 DEF AsUpdate, Update
  <2>2. Moves(AsUpdate(j), t) <=> Moves(m, t) BY <1>1, <2>1 DEF Moves, u
  <2>3. ~Seeds(AsUpdate(j), t) BY <2>1 DEF Seeds
  <2> QED BY <2>1, <2>2, <2>3 DEF Hits, Right
<1>18. Doomed(Append(procQ, j), t) <=> Doomed(procQ, t) \/ (u = t /\ ~direct)
  BY <1>2, <1>4, DoomedIs
<1>19. Clean(t)' => Clean(t) /\ (u = t => why = {})
  <2>1. CASE u # t BY <1>1, <1>8, <2>1 DEF Clean
  <2>2. CASE u = t BY <1>1, <1>2, <1>7, <2>2 DEF Clean
  <2> QED BY <2>1, <2>2
<1> HIDE DEF direct
<1>20. CASE u # t
  <2>1. ~Hits(m, t, z) BY <1>13, <1>20 DEF Hits
  <2>2. Right(AsUpdate(j), t, market[t], z)
    BY <1>17, <1>13, <1>20 DEF Right
  <2>3. ChainRight(t, z)'
    BY <1>1, <1>5, <1>16, <1>17, <1>19, <2>1, <2>2 DEF Follows, ChainRight
  <2>4. Waiting(t, z)' <=> Waiting(t, z)
    BY <1>1, <1>5, <1>13, <1>16, <1>17, <1>18, <1>20, <2>1 DEF Waiting
  <2>5. BookRight(t, z)' BY <1>1, <1>8, <1>19, <1>20, <2>4 DEF Follows, BookRight
  <2> QED BY <1>14, <1>15, <2>3, <2>5 DEF Follows
<1>21. CASE u = t
  <2>1. CASE ~Clean(t)'
    BY <1>14, <1>15, <2>1 DEF Follows, ChainRight, BookRight
  <2>2. CASE Clean(t)'
    <3>1. /\ Clean(t) /\ Chain(wire', t, market[t], z)
          /\ ~Hit(wire', t, z) => Right(m, t, market[t], z)
          /\ Flat /\ ~Hit(wire, t, z) => Chain(Queued(procQ), t, market[t], z)
      BY <1>5, <1>19, <2>2 DEF Follows, ChainRight
    <3>2. CASE direct
      <4>1. ChainRight(t, z)' BY <1>1, <1>11, <3>1, <3>2 DEF ChainRight
      <4>2. Doomed(procQ', t) <=> Doomed(procQ, t) BY <1>1, <1>18, <3>2
      <4>3. ASSUME ~Waiting(t, z)', t \in subs
            PROVE  In(market[t], z) <=> In(book'[t], z)
        <5>1. ~Hit(wire', t, z) /\ ~Seeded(wire', t) /\ ~Doomed(procQ', t)
          BY <1>11, <3>2, <4>3 DEF Waiting
        <5>2. ~Hits(m, t, z) => ~Waiting(t, z)
          BY <1>5, <1>11, <1>13, <3>2, <4>2, <5>1 DEF Waiting
        <5>3. ~Hits(m, t, z) => (In(market[t], z) <=> In(book[t], z))
          BY <3>1, <4>3, <5>2 DEF Follows, BookRight
        <5>4. book[t] \in Rough /\ Moves(m, t) BY <1>13, <1>21 DEF PipeOK
        <5>5. m.changes \in Seq(Changes) /\ Right(m, t, market[t], z) BY <1>3, <3>1, <5>1
        <5>6. In(market[t], z) <=> In(ApplyUpdate(book[t], m), z)
          BY <5>3, <5>4, <5>5, AppliedIs
        <5> QED BY <1>9, <1>21, <3>2, <5>6
      <4>4. BookRight(t, z)' BY <1>1, <4>3 DEF BookRight
      <4> QED BY <1>14, <1>15, <4>1, <4>4 DEF Follows
    <3>3. CASE ~direct
      <4>1. ~m.long /\ ~Full(procQ) BY <1>10, <1>19, <1>21, <2>2, <3>3
      <4>2. procQ' = Append(procQ, j) /\ book' = book BY <1>1, <3>3, <4>1
      <4>3. ChainRight(t, z)'
        BY <1>1, <1>5, <1>16, <1>17, <3>1, <4>2 DEF ChainRight
      <4>4. ~Waiting(t, z)' => ~Waiting(t, z)
        BY <1>5, <1>13, <1>16, <1>17, <1>18, <1>21, <3>3, <4>2 DEF Waiting
      <4>5. BookRight(t, z)' BY <1>1, <3>1, <4>2, <4>4 DEF Follows, BookRight
      <4> QED BY <1>14, <1>15, <4>3, <4>5 DEF Follows
    <3> QED BY <3>2, <3>3
  <2> QED BY <2>1, <2>2
<1> QED BY <1>20, <1>21

LEMMA ProcessFollows ==
    ASSUME PipeOK, NEW t \in Tickers, NEW z \in Points, Follows(t, z), ProcessUpdate
    PROVE  Follows(t, z)'
<1> DEFINE j == Head(procQ)
           u == j.ticker
<1>1. /\ procQ # <<>> /\ procQ' = Tail(procQ)
      /\ book' = IF Flat /\ proc[u] = "live"
                 THEN [book EXCEPT ![u] = ApplyUpdate(@, j)] ELSE book
      /\ lost' = CASE u \notin ctrl \/ j.direct -> lost
                   [] ~Flat -> [lost EXCEPT ![u] = @ \union {"form"}]
                   [] Flat /\ proc[u] # "live" ->
                        [lost EXCEPT ![u] = @ \union {"unregistered"}]
                   [] OTHER -> lost
      /\ UNCHANGED <<market, subs, wire, wanted, main>>
  BY DEF ProcessUpdate, exchange, feed, thread
<1>2. procQ \in Seq(Jobs) /\ wanted \subseteq ctrl BY DEF PipeOK
<1>3. j \in Jobs /\ u \in Tickers /\ j.changes \in Seq(Changes)
  <2>1. j \in Jobs BY <1>1, <1>2, HeadTailProperties
  <2> QED BY <2>1 DEF Jobs
<1>4. Flat => ~j.direct
  <2>1. 1 \in DOMAIN procQ /\ j = procQ[1] BY <1>1, <1>2, LenProperties, EmptySeq
  <2> QED BY <2>1 DEF PipeOK
<1>5. /\ Hit(Queued(procQ), t, z) <=> Hit(Queued(procQ'), t, z) \/ Hits(AsUpdate(j), t, z)
      /\ Chain(Queued(procQ), t, market[t], z) =>
            /\ Chain(Queued(procQ'), t, market[t], z)
            /\ ~Hit(Queued(procQ'), t, z) => Right(AsUpdate(j), t, market[t], z)
  <2>1. /\ Queued(procQ) \in Seq(Wired) /\ Queued(procQ) # <<>>
        /\ Head(Queued(procQ)) = AsUpdate(j) /\ Queued(procQ') = Tail(Queued(procQ))
    BY <1>1, <1>2, QueuedIs
  <2> QED BY <2>1, Leaving
<1>6. Doomed(procQ, t) <=> Doomed(procQ', t) \/ (u = t /\ ~j.direct)
  BY <1>1, <1>2, DoomedIs
<1>7. \A x \in Tickers : x # u => lost'[x] = lost[x] /\ book'[x] = book[x]
  <2> HIDE DEF j, u
  <2> QED BY <1>1 DEF PipeOK
<1>8. u \in wanted /\ lost'[u] = {} =>
         /\ lost[u] = {} /\ ~Flat => j.direct
         /\ Flat => book'[u] = ApplyUpdate(book[u], j)
  <2> HIDE DEF j, u
  <2>1. CASE u \notin ctrl \/ j.direct BY <1>1, <1>2, <1>4, <2>1
  <2>2. CASE u \in ctrl /\ ~j.direct /\ ~Flat
    <3>1. lost' = [lost EXCEPT ![u] = @ \union {"form"}] BY <1>1, <2>2
    <3> QED BY <1>3, <3>1 DEF PipeOK
  <2>3. CASE u \in ctrl /\ ~j.direct /\ Flat /\ proc[u] # "live"
    <3>1. lost' = [lost EXCEPT ![u] = @ \union {"unregistered"}] BY <1>1, <2>3
    <3> QED BY <1>3, <3>1 DEF PipeOK
  <2>4. CASE u \in ctrl /\ ~j.direct /\ Flat /\ proc[u] = "live"
    <3>1. lost' = lost /\ book' = [book EXCEPT ![u] = ApplyUpdate(@, j)] BY <1>1, <2>4
    <3> QED BY <1>3, <2>4, <3>1 DEF PipeOK
  <2> QED BY <2>1, <2>2, <2>3, <2>4
<1>9. ~Flat => book' = book BY <1>1
<1>10. /\ AsUpdate(j).kind = "update" /\ AsUpdate(j).ticker = u
       /\ AsUpdate(j).changes = j.changes
  BY DEF AsUpdate, Update
<1> HIDE DEF j, u
<1>11. SeedRight(t, z)' BY <1>1 DEF Follows, SeedRight
<1>12. FetchRight(t, z)' BY <1>1 DEF Follows, FetchRight
<1>13. Clean(t)' => Clean(t)
  <2>1. CASE u = t BY <1>1, <1>8, <2>1 DEF Clean
  <2>2. CASE u # t BY <1>1, <1>7, <2>2 DEF Clean
  <2> QED BY <2>1, <2>2
<1>14. ChainRight(t, z)' BY <1>1, <1>5, <1>13 DEF Follows, ChainRight
<1>15. CASE u # t
  <2>1. ~Hits(AsUpdate(j), t, z) BY <1>10, <1>15 DEF Hits, Moves
  <2>2. Waiting(t, z)' <=> Waiting(t, z) BY <1>1, <1>5, <1>6, <1>15, <2>1 DEF Waiting
  <2>3. BookRight(t, z)' BY <1>1, <1>7, <1>13, <1>15, <2>2 DEF Follows, BookRight
  <2> QED BY <1>11, <1>12, <1>14, <2>3 DEF Follows
<1>16. CASE u = t
  <2>1. ASSUME Clean(t)', t \in subs, ~Waiting(t, z)'
        PROVE  In(market[t], z) <=> In(book'[t], z)
    <3>1. Clean(t) /\ u \in wanted /\ lost'[u] = {}
      BY <1>1, <1>13, <1>16, <2>1 DEF Clean
    <3>2. CASE ~Flat
      <4>1. ~Waiting(t, z) BY <1>1, <1>6, <1>8, <2>1, <3>1, <3>2 DEF Waiting
      <4> QED BY <1>9, <2>1, <3>1, <3>2, <4>1 DEF Follows, BookRight
    <3>3. CASE Flat
      <4>1. ~Hit(wire, t, z) /\ ~Seeded(wire, t) /\ ~Hit(Queued(procQ'), t, z)
        BY <1>1, <2>1, <3>3 DEF Waiting
      <4>2. Right(AsUpdate(j), t, market[t], z)
        BY <1>5, <3>1, <3>3, <4>1 DEF Follows, ChainRight
      <4>3. ~Hits(AsUpdate(j), t, z) => ~Waiting(t, z)
        BY <1>5, <3>3, <4>1 DEF Waiting
      <4>4. ~Hits(AsUpdate(j), t, z) => (In(market[t], z) <=> In(book[t], z))
        BY <2>1, <3>1, <4>3 DEF Follows, BookRight
      <4>5. Moves(AsUpdate(j), t) /\ book[t] \in Rough BY <1>10, <1>16 DEF Moves, PipeOK
      <4>6. In(market[t], z) <=> In(ApplyUpdate(book[t], AsUpdate(j)), z)
        BY <1>3, <1>10, <4>2, <4>4, <4>5, AppliedIs
      <4>7. ApplyUpdate(book[t], AsUpdate(j)) = ApplyUpdate(book[t], j)
        BY <1>10 DEF ApplyUpdate
      <4> QED BY <1>8, <1>16, <3>1, <3>3, <4>6, <4>7
    <3> QED BY <3>2, <3>3
  <2>2. BookRight(t, z)' BY <1>1, <2>1 DEF BookRight
  <2> QED BY <1>11, <1>12, <1>14, <2>2 DEF Follows
<1> QED BY <1>15, <1>16

\* A move of the exchange's book, and the update that tells of it.
LEMMA MoveSent ==
    ASSUME PipeOK, NEW u \in Tickers, MarketMoves(u)
    PROVE  \E b \in Books, cs \in Seq(Changes), long \in BOOLEAN :
              /\ market' = [market EXCEPT ![u] = b]
              /\ u \in subs => wire' = Append(wire, Update(u, cs, long))
              /\ \A z \in Points :
                    u \in subs =>
                       /\ \A i \in DOMAIN cs : Agrees(cs[i], z, b)
                       /\ (\A i \in DOMAIN cs : ~Decides(cs[i], z))
                            => (In(market[u], z) <=> In(b, z))
<1>1. PICK b \in Books, long \in Oversize :
         /\ market' = [market EXCEPT ![u] = b]
         /\ u \in subs =>
              \E cs \in SetToAllKPermutations(Diff(market[u], b)) :
                 /\ Len(cs) = Cardinality(Diff(market[u], b))
                 /\ wire' = Append(wire, Update(u, cs, long))
  BY DEF MarketMoves
<1>2. long \in BOOLEAN /\ market[u] \in Rough
  BY MarketAssumption, SnapshotIs
<1>3. CASE u \in subs
  <2>1. PICK cs \in SetToAllKPermutations(Diff(market[u], b)) :
           /\ Len(cs) = Cardinality(Diff(market[u], b))
           /\ wire' = Append(wire, Update(u, cs, long))
    BY <1>1, <1>3
  <2>2. /\ cs \in Seq(Changes)
        /\ \A z \in Points :
              /\ \A i \in DOMAIN cs : Agrees(cs[i], z, b)
              /\ (\A i \in DOMAIN cs : ~Decides(cs[i], z)) => (In(market[u], z) <=> In(b, z))
    BY <1>2, <2>1, MoveIs
  <2> QED BY <1>1, <1>2, <2>1, <2>2
<1>4. CASE u \notin subs
  <2>1. <<>> \in Seq(Changes) OBVIOUS
  <2> QED BY <1>1, <1>2, <1>4, <2>1
<1> QED BY <1>3, <1>4

LEMMA MoveFollows ==
    ASSUME PipeOK, NEW t \in Tickers, NEW z \in Points, Follows(t, z),
           NEW u \in Tickers, MarketMoves(u)
    PROVE  Follows(t, z)'
<1>1. /\ lost' = IF u \in ctrl \ subs THEN [lost EXCEPT ![u] = @ \union {"unsent"}] ELSE lost
      /\ u \notin subs => wire' = wire
      /\ UNCHANGED <<subs, wanted, procQ, book, main>>
  BY DEF MarketMoves, feed, pipeline, thread
<1>2. PICK b \in Books, cs \in Seq(Changes), long \in BOOLEAN :
         /\ market' = [market EXCEPT ![u] = b]
         /\ u \in subs => wire' = Append(wire, Update(u, cs, long))
         /\ \A y \in Points :
               u \in subs => /\ \A i \in DOMAIN cs : Agrees(cs[i], y, b)
                             /\ (\A i \in DOMAIN cs : ~Decides(cs[i], y))
                                  => (In(market[u], y) <=> In(b, y))
  BY MoveSent
<1>3. market'[u] = b /\ \A x \in Tickers : x # u => market'[x] = market[x]
  BY <1>2 DEF PipeOK
<1>4. Clean(t)' => Clean(t)
  <2>1. lost'[t] = {} => lost[t] = {} BY <1>1 DEF PipeOK
  <2> QED BY <1>1, <2>1 DEF Clean
<1>5. CASE u \notin subs
  <2>1. CASE u # t BY <1>1, <1>3, <1>4, <1>5, <2>1, SameWay
  <2>2. CASE u = t
    <3>1. ~Clean(t)'
      <4>1. t \in ctrl => lost'[t] = lost[t] \union {"unsent"} BY <1>1, <1>5, <2>2 DEF PipeOK
      <4> QED BY <1>1, <4>1 DEF Clean, PipeOK
    <3> QED BY <1>1, <1>5, <2>2, <3>1
        DEF Follows, SeedRight, FetchRight, ChainRight, BookRight
  <2> QED BY <2>1, <2>2
<1>6. CASE u \in subs
  <2> DEFINE m == Update(u, cs, long)
  <2>1. /\ m \in Wired /\ m.kind = "update" /\ m.ticker = u /\ m.changes = cs
        /\ wire' = Append(wire, m) /\ wire \in Seq(Wired)
    BY <1>2, <1>6 DEF Update, Wired, PipeOK
  <2> HIDE DEF m
  <2>2. /\ Hit(wire', t, z) <=> Hit(wire, t, z) \/ Hits(m, t, z)
        /\ Seeded(wire', t) <=> Seeded(wire, t) \/ Seeds(m, t)
        /\ Right(m, t, market'[t], z) /\ (Chain(wire, t, market'[t], z) \/ Hits(m, t, z))
              => Chain(wire', t, market'[t], z)
        /\ /\ Seeds(m, t) => Right(m, t, market'[t], z)
           /\ LastSeed(wire, t, market'[t], z) \/ Seeds(m, t) \/ Hits(m, t, z)
           => LastSeed(wire', t, market'[t], z)
    BY <2>1, Joining
  <2>3. ~Seeds(m, t) /\ (Moves(m, t) <=> u = t) BY <2>1 DEF Seeds, Moves
  <2>4. Right(m, t, market'[t], z) BY <1>2, <1>3, <1>6, <2>1, <2>3 DEF Right
  <2>5. ~Hits(m, t, z) => (In(market'[t], z) <=> In(market[t], z))
    <3>1. CASE u # t BY <1>3, <3>1
    <3>2. CASE u = t
      <4>1. Moves(m, t) /\ m.changes = cs BY <2>1, <2>3, <3>2
      <4>2. ~Hits(m, t, z) => \A i \in DOMAIN cs : ~Decides(cs[i], z) BY <4>1 DEF Hits
      <4> QED BY <1>2, <1>3, <1>6, <3>2, <4>2
    <3> QED BY <3>1, <3>2
  <2>6. \A q : ~Hits(m, t, z) => /\ Chain(q, t, market[t], z) => Chain(q, t, market'[t], z)
                                 /\ LastSeed(q, t, market[t], z) => LastSeed(q, t, market'[t], z)
    BY <2>5 DEF Chain, LastSeed, Right, Agrees
  <2>7. SeedRight(t, z)' BY <1>1, <2>2, <2>3, <2>6 DEF Follows, SeedRight
  <2>8. FetchRight(t, z)' BY <1>1, <2>2, <2>5 DEF Follows, FetchRight
  <2>9. ASSUME Clean(t)'
        PROVE  /\ Chain(wire', t, market'[t], z)
               /\ (Flat /\ ~Hit(wire', t, z)) => Chain(Queued(procQ), t, market'[t], z)
    <3>1. /\ Chain(wire, t, market[t], z)
          /\ (Flat /\ ~Hit(wire, t, z)) => Chain(Queued(procQ), t, market[t], z)
      BY <1>4, <2>9 DEF Follows, ChainRight
    <3>2. CASE Hits(m, t, z) BY <2>2, <2>4, <3>2
    <3>3. CASE ~Hits(m, t, z) BY <2>2, <2>4, <2>6, <3>1, <3>3
    <3> QED BY <3>2, <3>3
  <2>10. ChainRight(t, z)' BY <1>1, <2>9 DEF ChainRight
  <2>11. ~Waiting(t, z)' => ~Waiting(t, z) /\ ~Hits(m, t, z) BY <1>1, <2>2 DEF Waiting
  <2>12. BookRight(t, z)' BY <1>1, <1>4, <2>5, <2>11 DEF Follows, BookRight
  <2> QED BY <2>7, <2>8, <2>10, <2>12 DEF Follows
<1> QED BY <1>5, <1>6

\* Steps that touch neither what is under way nor the books.
LEMMA PipeSame ==
    ASSUME PipeOK, wire' \in Seq(Wired),
           UNCHANGED <<market, book, procQ, running, wanted, ctrl>>,
           lost' \in [Tickers -> SUBSET Causes],
           main'.op = "rest" => main' = main
    PROVE  PipeOK'
BY DEF PipeOK

LEMMA SessionOverIs ==
    ASSUME PipeOK, SessionOver
    PROVE  /\ wire' \in Seq(Wired) /\ market' = market
           /\ lost' \in [Tickers -> SUBSET Causes]
<1>1. lost' \in [Tickers -> SUBSET Causes] BY DEF SessionOver, PipeOK, Causes
<1> QED BY <1>1 DEF SessionOver

LEMMA PipeIo == ASSUME PipeOK, LinkInv, Io PROVE PipeOK'
<1>0. wire \in Seq(Wired) /\ lost \in [Tickers -> SUBSET Causes] BY DEF PipeOK
<1>1. CASE \/ TimerFires \/ ResolveFails \/ OpenFails \/ OpenOk \/ PingFails \/ WriteFails
           \/ \E t \in Tickers : ResubscribeNext(t)
  <2>1. UNCHANGED <<market, wire, book, procQ, running, wanted, ctrl, lost, main>>
    BY <1>1 DEF TimerFires, ResolveFails, OpenFails, OpenOk, PingFails, WriteFails,
                ResubscribeNext, exchange, feed, pipeline, thread
  <2> QED BY <1>0, <2>1, PipeSame
<1>2. CASE ResolveOk \/ ReadFails
  <2>1. SessionOver /\ UNCHANGED <<book, procQ, running, wanted, ctrl, main>>
    BY <1>2 DEF ResolveOk, ReadFails, feed, pipeline, thread
  <2> QED BY <2>1, SessionOverIs, PipeSame
<1>3. CASE WriteOk
  <2>1. /\ UNCHANGED <<market, book, procQ, running, wanted, ctrl, lost, main>>
        /\ wire' = wire \/ (wire' = Append(wire, Snapshot(writeMsg.ticker))
                              /\ writeMsg.kind \in {"ticker_subscribe", "orderbook_subscribe"})
        /\ writeMsg # NoMsg
    BY <1>3 DEF WriteOk, Serve, exchange, feed, pipeline, thread
  <2>2. wire' \in Seq(Wired)
    <3>1. CASE wire' = wire BY <1>0, <3>1
    <3>2. CASE wire' # wire
      <4>1. writeMsg \in Messages BY <2>1 DEF LinkInv, LinkTypeOK
      <4>2. writeMsg.ticker \in Tickers BY <2>1, <3>2, <4>1, KindsDiffer
      <4>3. Snapshot(writeMsg.ticker) \in Wired BY <4>2, SnapshotIs
      <4> QED BY <1>0, <2>1, <3>2, <4>3
    <3> QED BY <3>1, <3>2
  <2> QED BY <1>0, <2>1, <2>2, PipeSame
<1>4. CASE ReadSnapshot
  <2> DEFINE s == Head(wire)
  <2>1. /\ wire # <<>> /\ s.kind = "snapshot" /\ wire' = Tail(wire)
        /\ IF s.ticker \in wanted THEN Deliver(s.ticker, s, wire') ELSE UNCHANGED <<book, lost>>
        /\ UNCHANGED <<market, procQ, running, wanted, ctrl, main>>
    BY <1>4 DEF ReadSnapshot, feed, pipeline, thread
  <2>2. s \in Wired /\ wire' \in Seq(Wired) BY <1>0, <2>1, HeadTailProperties
  <2>3. s.ticker \in Tickers /\ s.book \in Rough BY <2>1, <2>2, WiredIs
  <2> HIDE DEF s
  <2>4. book' \in [Tickers -> Rough] /\ lost' \in [Tickers -> SUBSET Causes]
    BY <2>1, <2>3 DEF Deliver, ApplySnapshot, Healed, PipeOK
  <2> QED BY <2>1, <2>2, <2>4 DEF PipeOK
<1>5. CASE ReadUpdate
  <2> DEFINE u == Head(wire)
             t == u.ticker
             direct == ~running /\ ~Flat /\ t \in wanted
             why == IF u.long THEN (IF direct THEN {} ELSE {"size"})
                    ELSE IF Full(procQ) THEN {"overflow"} ELSE {}
             j == [ticker |-> t, changes |-> u.changes, direct |-> direct]
  <2>1. /\ wire # <<>> /\ u.kind = "update" /\ wire' = Tail(wire)
        /\ procQ' = IF u.long \/ Full(procQ) THEN procQ ELSE Append(procQ, j)
        /\ book' = IF direct THEN [book EXCEPT ![t] = ApplyUpdate(@, u)] ELSE book
        /\ lost' = IF t \in ctrl THEN [lost EXCEPT ![t] = @ \union why] ELSE lost
        /\ UNCHANGED <<market, running, wanted, ctrl, main>>
    BY <1>5 DEF ReadUpdate, feed, thread
  <2>2. u \in Wired /\ wire' \in Seq(Wired) BY <1>0, <2>1, HeadTailProperties
  <2>3. t \in Tickers /\ u.changes \in Seq(Changes) BY <2>1, <2>2, WiredIs
  <2>4. j \in Jobs /\ (j.direct <=> direct)
    <3>1. direct \in BOOLEAN OBVIOUS
    <3> QED BY <2>3, <3>1 DEF Jobs
  <2>5. why \subseteq Causes BY DEF Causes
  <2>6. Flat => ~j.direct BY <2>4
  <2> HIDE DEF why, j, direct, t, u
  <2>7. lost' \in [Tickers -> SUBSET Causes] BY <1>0, <2>1, <2>3, <2>5
  <2>8. book' \in [Tickers -> Rough]
    <3>1. book[t] \in Rough BY <2>3 DEF PipeOK
    <3>2. ApplyUpdate(book[t], u) \in Rough BY <2>3, <3>1, UpdateIs
    <3> QED BY <2>1, <2>3, <3>2 DEF PipeOK
  <2>9. procQ' \in Seq(Jobs) /\ (Flat => \A i \in DOMAIN procQ' : ~procQ'[i].direct)
    <3>1. procQ \in Seq(Jobs) /\ (Flat => \A i \in DOMAIN procQ : ~procQ[i].direct)
      BY DEF PipeOK
    <3>2. CASE procQ' = procQ BY <3>1, <3>2
    <3>3. CASE procQ' = Append(procQ, j)
      <4>1. procQ' \in Seq(Jobs) BY <2>4, <3>1, <3>3
      <4>2. ASSUME Flat, NEW i \in DOMAIN procQ' PROVE ~procQ'[i].direct
        <5>1. i \in 1..(Len(procQ) + 1) BY <2>4, <3>1, <3>3, <4>1, <4>2, LenProperties
        <5>2. CASE i = Len(procQ) + 1 BY <2>4, <2>6, <3>1, <3>3, <4>2, <5>2
        <5>3. CASE i # Len(procQ) + 1
          <6>1. i \in 1..Len(procQ) /\ DOMAIN procQ = 1..Len(procQ)
            BY <3>1, <5>1, <5>3, LenProperties
          <6>2. procQ'[i] = procQ[i] BY <2>4, <3>1, <3>3, <6>1
          <6> QED BY <3>1, <4>2, <6>1, <6>2
        <5> QED BY <5>2, <5>3
      <4> QED BY <4>1, <4>2
    <3> QED BY <2>1, <3>2, <3>3
  <2> QED BY <2>1, <2>2, <2>7, <2>8, <2>9 DEF PipeOK
<1> QED BY <1>1, <1>2, <1>3, <1>4, <1>5 DEF Io

LEMMA PipeMain == ASSUME PipeOK, LinkInv, Main PROVE PipeOK'
<1>0. wire \in Seq(Wired) /\ lost \in [Tickers -> SUBSET Causes] BY DEF PipeOK
<1>1. CASE SendSubscribe \/ Register
  <2>1. /\ UNCHANGED <<market, wire, book, procQ, running, wanted, ctrl, lost>>
        /\ main'.op # "rest"
    BY <1>1 DEF SendSubscribe, Register, exchange, feed, pipeline, Task, Idle
  <2> QED BY <1>0, <2>1, PipeSame
<1>2. CASE \E t \in Tickers : FetchFails(t)
  <2>1. UNCHANGED <<market, wire, book, procQ, running, wanted, ctrl, lost, main>>
    BY <1>2 DEF FetchFails, exchange, feed, pipeline, thread
  <2> QED BY <1>0, <2>1, PipeSame
<1>3. ASSUME NEW t \in Tickers, FetchSnapshot(t) PROVE PipeOK'
  <2>1. /\ UNCHANGED <<market, wire, book, procQ, running, wanted, ctrl, lost>>
        /\ main' = Fetched(t)
    BY <1>3 DEF FetchSnapshot, exchange, feed, pipeline
  <2>2. main'.ticker = t /\ main'.book = market[t] /\ market[t] \in Rough
    BY <2>1, SnapshotIs DEF Fetched
  <2> QED BY <2>1, <2>2 DEF PipeOK
<1>4. CASE SendUnsubscribe
  <2>1. /\ UNCHANGED <<market, wire, book, procQ, running, wanted, lost>>
        /\ ctrl' = ctrl \ {main.ticker} /\ main' = Idle
        /\ main.op = "unsubscribe"
    BY <1>4 DEF SendUnsubscribe, exchange, feed
  <2>2. main'.op # "rest" BY <2>1 DEF Idle
  <2>3. wanted' \subseteq ctrl' BY <2>1 DEF PipeOK, LinkInv, LeavesWanted
  <2> QED BY <2>1, <2>2, <2>3 DEF PipeOK
<1>5. ASSUME NEW t \in Tickers, Enable(t) PROVE PipeOK'
  <2>1. /\ UNCHANGED <<market, wire, procQ, running>>
        /\ ctrl' = ctrl \union {t} /\ wanted' = wanted \union {t}
        /\ book' = [book EXCEPT ![t] = EmptyBook]
        /\ lost' = [lost EXCEPT ![t] = {"unseeded"}]
        /\ main' = Task("subscribe", t)
    BY <1>5 DEF Enable, exchange, pipeline
  <2>2. main'.op # "rest" BY <2>1 DEF Task
  <2>3. EmptyBook \in Rough BY DEF EmptyBook, Rough
  <2>4. {"unseeded"} \in SUBSET Causes BY DEF Causes
  <2> QED BY <2>1, <2>2, <2>3, <2>4 DEF PipeOK
<1>6. ASSUME NEW t \in Tickers, Disable(t) PROVE PipeOK'
  <2>1. /\ UNCHANGED <<market, wire, book, procQ, running, ctrl, lost>>
        /\ wanted' = wanted \ {t} /\ main' = Task("unsubscribe", t)
    BY <1>6 DEF Disable, exchange, pipeline
  <2>2. main'.op # "rest" BY <2>1 DEF Task
  <2> QED BY <2>1, <2>2 DEF PipeOK
<1>7. CASE DeliverFetched
  <2>1. /\ main.op = "rest" /\ Deliver(main.ticker, main, wire) /\ main' = Idle
        /\ UNCHANGED <<market, wire, procQ, running, wanted, ctrl>>
    BY <1>7 DEF DeliverFetched, exchange, feed, pipeline
  <2>2. main.ticker \in Tickers /\ main.book \in Rough /\ main'.op # "rest"
    BY <2>1 DEF PipeOK, Idle
  <2>3. book' \in [Tickers -> Rough] /\ lost' \in [Tickers -> SUBSET Causes]
    BY <2>1, <2>2 DEF Deliver, ApplySnapshot, Healed, PipeOK
  <2> QED BY <2>1, <2>2, <2>3 DEF PipeOK
<1> QED BY <1>1, <1>2, <1>3, <1>4, <1>5, <1>6, <1>7 DEF Main

LEMMA PipeStep == ASSUME PipeOK, LinkInv, [Next]_vars PROVE PipeOK'
<1>1. CASE ProcessUpdate
  <2> DEFINE j == Head(procQ)
             u == j.ticker
  <2>1. /\ procQ # <<>> /\ procQ' = Tail(procQ)
        /\ book' = IF Flat /\ proc[u] = "live"
                   THEN [book EXCEPT ![u] = ApplyUpdate(@, j)] ELSE book
        /\ lost' = CASE u \notin ctrl \/ j.direct -> lost
                     [] ~Flat -> [lost EXCEPT ![u] = @ \union {"form"}]
                     [] Flat /\ proc[u] # "live" ->
                          [lost EXCEPT ![u] = @ \union {"unregistered"}]
                     [] OTHER -> lost
        /\ UNCHANGED <<market, wire, running, wanted, ctrl, main>>
    BY <1>1 DEF ProcessUpdate, exchange, feed, thread
  <2>2. procQ \in Seq(Jobs) BY DEF PipeOK
  <2>3. j \in Jobs /\ procQ' \in Seq(Jobs) BY <2>1, <2>2, HeadTailProperties
  <2>4. u \in Tickers /\ j.changes \in Seq(Changes) BY <2>3 DEF Jobs
  <2> HIDE DEF j, u
  <2>5. book' \in [Tickers -> Rough]
    <3>1. book[u] \in Rough BY <2>4 DEF PipeOK
    <3>2. ApplyUpdate(book[u], j) \in Rough BY <2>4, <3>1, UpdateIs
    <3> QED BY <2>1, <2>4, <3>2 DEF PipeOK
  <2>6. lost' \in [Tickers -> SUBSET Causes]
    <3>1. \/ lost' = lost \/ lost' = [lost EXCEPT ![u] = @ \union {"form"}]
          \/ lost' = [lost EXCEPT ![u] = @ \union {"unregistered"}]
      BY <2>1 DEF PipeOK
    <3>2. "form" \in Causes /\ "unregistered" \in Causes BY DEF Causes
    <3> QED BY <2>4, <3>1, <3>2 DEF PipeOK
  <2>7. Flat => \A i \in DOMAIN procQ' : ~procQ'[i].direct
    <3> SUFFICES ASSUME Flat, NEW i \in DOMAIN procQ' PROVE ~procQ'[i].direct OBVIOUS
    <3>1. /\ DOMAIN procQ' = 1..Len(procQ') /\ DOMAIN procQ = 1..Len(procQ)
          /\ Len(procQ') = Len(procQ) - 1 /\ procQ'[i] = procQ[i + 1]
      BY <2>1, <2>2, <2>3, LenProperties, HeadTailProperties
    <3>2. i + 1 \in DOMAIN procQ BY <2>2, <3>1, LenProperties
    <3> QED BY <3>1, <3>2 DEF PipeOK
  <2> QED BY <2>1, <2>3, <2>5, <2>6, <2>7 DEF PipeOK
<1>2. CASE StartProcessor
  BY <1>2 DEF StartProcessor, exchange, feed, thread, PipeOK
<1>3. ASSUME NEW u \in Tickers, MarketMoves(u) PROVE PipeOK'
  <2>1. /\ lost' = IF u \in ctrl \ subs THEN [lost EXCEPT ![u] = @ \union {"unsent"}] ELSE lost
        /\ u \notin subs => wire' = wire
        /\ UNCHANGED <<procQ, book, running, wanted, ctrl, main>>
    BY <1>3 DEF MarketMoves, feed, pipeline, thread
  <2>2. PICK b \in Books, cs \in Seq(Changes), long \in BOOLEAN :
           /\ market' = [market EXCEPT ![u] = b]
           /\ u \in subs => wire' = Append(wire, Update(u, cs, long))
    BY <1>3, MoveSent
  <2>3. Update(u, cs, long) \in Wired BY DEF Update, Wired
  <2>4. wire' \in Seq(Wired)
    <3>1. wire \in Seq(Wired) BY DEF PipeOK
    <3>2. Append(wire, Update(u, cs, long)) \in Seq(Wired) BY <2>3, <3>1
    <3> QED BY <2>1, <2>2, <3>1, <3>2
  <2>5. market' \in [Tickers -> Books] BY <2>2 DEF PipeOK
  <2>6. lost' \in [Tickers -> SUBSET Causes] BY <2>1 DEF PipeOK, Causes
  <2> QED BY <2>1, <2>4, <2>5, <2>6 DEF PipeOK
<1>4. CASE UNCHANGED vars
  BY <1>4 DEF vars, exchange, feed, pipeline, thread, PipeOK
<1> QED BY <1>1, <1>2, <1>3, <1>4, PipeIo, PipeMain DEF Next

LEMMA FollowStep ==
    ASSUME PipeOK, LinkInv, FollowInv, [Next]_vars PROVE FollowInv'
<1> SUFFICES ASSUME NEW t \in Tickers, NEW z \in Points PROVE Follows(t, z)'
  BY DEF FollowInv
<1>0. Follows(t, z) BY DEF FollowInv
<1>1. ASSUME UNCHANGED <<market, subs, wire, wanted, procQ, book, main, lost>>
      PROVE  Follows(t, z)'
  <2>1. Clean(t)' = Clean(t) BY <1>1 DEF Clean
  <2> QED BY <1>0, <1>1, <2>1, SameWay
<1>2. CASE Io
  <2>1. CASE \/ TimerFires \/ ResolveFails \/ OpenFails \/ OpenOk \/ PingFails \/ WriteFails
             \/ \E u \in Tickers : ResubscribeNext(u)
    <3>1. UNCHANGED <<market, subs, wire, wanted, procQ, book, main, lost>>
      BY <2>1 DEF TimerFires, ResolveFails, OpenFails, OpenOk, PingFails, WriteFails,
                  ResubscribeNext, exchange, feed, pipeline, thread
    <3> QED BY <1>1, <3>1
  <2>2. CASE ResolveOk \/ ReadFails
    <3>1. SessionOver /\ wanted' = wanted BY <2>2 DEF ResolveOk, ReadFails, feed
    <3> QED BY <3>1, OverFollows
  <2> QED BY <1>0, <1>2, <2>1, <2>2, WriteFollows, SnapshotFollows, UpdateFollows DEF Io
<1>3. CASE Main
  <2>1. CASE SendSubscribe \/ Register \/ SendUnsubscribe
    <3>1. /\ UNCHANGED <<market, subs, wire, wanted, procQ, book, lost>>
          /\ main'.op # "rest"
      BY <2>1 DEF SendSubscribe, Register, SendUnsubscribe, exchange, feed, pipeline,
                  Task, Idle
    <3>2. Clean(t)' = Clean(t) BY <3>1 DEF Clean
    <3> QED BY <1>0, <3>1, <3>2, SameWay
  <2>2. CASE \E u \in Tickers : FetchFails(u)
    <3>1. UNCHANGED <<market, subs, wire, wanted, procQ, book, main, lost>>
      BY <2>2 DEF FetchFails, exchange, feed, pipeline, thread
    <3> QED BY <1>1, <3>1
  <2>3. ASSUME NEW u \in Tickers, FetchSnapshot(u) PROVE Follows(t, z)'
    <3>1. /\ UNCHANGED <<market, subs, wire, wanted, procQ, book, lost>>
          /\ main' = Fetched(u)
      BY <2>3 DEF FetchSnapshot, exchange, feed, pipeline
    <3>2. main'.ticker = u /\ main'.book = market[u] BY <3>1 DEF Fetched
    <3>3. Clean(t)' = Clean(t) BY <3>1 DEF Clean
    <3> QED BY <1>0, <3>1, <3>2, <3>3, SameWay
  <2>4. ASSUME NEW u \in Tickers, Enable(u) \/ Disable(u) PROVE Follows(t, z)'
    <3>1. /\ UNCHANGED <<market, subs, wire, procQ>>
          /\ \/ /\ wanted' = wanted \union {u}
                /\ book' = [book EXCEPT ![u] = EmptyBook]
                /\ lost' = [lost EXCEPT ![u] = {"unseeded"}]
             \/ wanted' \subseteq wanted /\ UNCHANGED <<book, lost>>
          /\ main' = Task("subscribe", u) \/ main' = Task("unsubscribe", u)
      BY <2>4 DEF Enable, Disable, exchange, pipeline
    <3>2. main'.op # "rest" BY <3>1 DEF Task
    <3>3. CASE UNCHANGED <<book, lost>> /\ wanted' \subseteq wanted
      <4>1. Clean(t)' => Clean(t) BY <3>3 DEF Clean
      <4> QED BY <1>0, <3>1, <3>2, <3>3, <4>1, SameWay
    <3>4. CASE /\ wanted' = wanted \union {u}
               /\ book' = [book EXCEPT ![u] = EmptyBook]
               /\ lost' = [lost EXCEPT ![u] = {"unseeded"}]
      <4>1. CASE u # t
        <5>1. book'[t] = book[t] /\ lost'[t] = lost[t] BY <3>4, <4>1 DEF PipeOK
        <5>2. Clean(t)' => Clean(t) BY <3>4, <4>1, <5>1 DEF Clean
        <5> QED BY <1>0, <3>1, <3>2, <5>1, <5>2, SameWay
      <4>2. CASE u = t
        <5>1. lost'[t] = {"unseeded"} BY <3>4, <4>2 DEF PipeOK
        <5>2. ~Clean(t)' BY <5>1 DEF Clean
        <5> QED BY <1>0, <3>1, <3>2, <5>2
            DEF Follows, SeedRight, FetchRight, ChainRight, BookRight
      <4> QED BY <4>1, <4>2
    <3> QED BY <3>1, <3>3, <3>4
  <2> QED BY <1>0, <1>3, <2>1, <2>2, <2>3, <2>4, DeliverFollows DEF Main
<1>4. CASE ProcessUpdate BY <1>0, <1>4, ProcessFollows
<1>5. CASE StartProcessor
  BY <1>1, <1>5 DEF StartProcessor, exchange, feed, thread
<1>6. ASSUME NEW u \in Tickers, MarketMoves(u) PROVE Follows(t, z)'
  BY <1>0, <1>6, MoveFollows
<1>7. CASE UNCHANGED vars BY <1>1, <1>7 DEF vars, exchange, feed, pipeline, thread
<1> QED BY <1>2, <1>3, <1>4, <1>5, <1>6, <1>7 DEF Next

LEMMA FollowStarts == Init => PipeOK /\ FollowInv
<1> SUFFICES ASSUME Init PROVE PipeOK /\ FollowInv OBVIOUS
<1>1. /\ wire = <<>> /\ procQ = <<>> /\ book = market /\ main = Idle
      /\ lost = [t \in Tickers |-> {}]
  BY DEF Init
<1>2. /\ market \in [Tickers -> Books] /\ wanted = ctrl /\ ctrl \subseteq Tickers
      /\ running \in BOOLEAN
  <2>1. EmptyBook \in Books BY DEF EmptyBook, Books
  <2> QED BY <2>1 DEF Init, Starting, Trading
<1>3. main.op # "rest" BY <1>1 DEF Idle
<1>4. PipeOK
  <2>1. book \in [Tickers -> Rough] BY <1>1, <1>2 DEF Books, Rough
  <2>2. wire \in Seq(Wired) /\ procQ \in Seq(Jobs) /\ DOMAIN procQ = {} BY <1>1
  <2> QED BY <1>1, <1>2, <1>3, <2>1, <2>2 DEF PipeOK
<1>5. ASSUME NEW t \in Tickers, NEW z \in Points PROVE Follows(t, z)
  <2>1. For(t, wire) = {} /\ For(t, procQ) = {} BY <1>1 DEF For
  <2>2. Chain(wire, t, market[t], z) /\ LastSeed(wire, t, market[t], z) BY <2>1, Silent
  <2>3. Chain(Queued(procQ), t, market[t], z)
    <3>1. For(t, Queued(procQ)) = {} BY <1>4, <2>1, QueuedIs DEF PipeOK
    <3> QED BY <3>1, Silent
  <2> QED BY <1>1, <1>3, <2>2, <2>3
      DEF Follows, SeedRight, FetchRight, ChainRight, BookRight
<1> QED BY <1>4, <1>5 DEF FollowInv

LEMMA FollowMeans == PipeOK /\ FollowInv => BookFaithful
<1> SUFFICES ASSUME PipeOK, FollowInv,
                    NEW t \in ctrl, lost[t] = {}, t \in subs \intersect wanted,
                    For(t, wire) = {}, For(t, procQ) = {}
             PROVE  book[t] = market[t]
  BY DEF BookFaithful
<1>1. t \in Tickers /\ book[t] \in Rough /\ market[t] \in Rough BY SnapshotIs DEF PipeOK
<1>2. ASSUME NEW z \in Points PROVE In(book[t], z) <=> In(market[t], z)
  <2>1. ~Hit(wire, t, z) /\ ~Seeded(wire, t) BY Silent
  <2>2. ~Hit(Queued(procQ), t, z)
    <3>1. For(t, Queued(procQ)) = {} BY QueuedIs DEF PipeOK
    <3> QED BY <3>1, Silent
  <2>3. ~Doomed(procQ, t) BY DoomedIs DEF PipeOK
  <2>4. Clean(t) /\ ~Waiting(t, z) BY <2>1, <2>2, <2>3 DEF Clean, Waiting
  <2> QED BY <1>1, <2>4 DEF FollowInv, Follows, BookRight
<1> QED BY <1>1, <1>2, SameBook

\* Whatever order snapshots, updates, resyncs, reconnects and switches of the
\* set of tickers come in: once nothing of a ticker is under way and none of
\* the named losses happened since the last good snapshot, its book is the
\* exchange's.
THEOREM BookFaithfulAlways == Spec => []BookFaithful
<1>1. Init => LinkInv /\ PipeOK /\ FollowInv BY LinkStarts, FollowStarts
<1>2. LinkInv /\ PipeOK /\ FollowInv /\ [Next]_vars => (LinkInv /\ PipeOK /\ FollowInv)'
  BY LinkStep, PipeStep, FollowStep
<1>3. LinkInv /\ PipeOK /\ FollowInv => BookFaithful BY FollowMeans
<1> QED BY <1>1, <1>2, <1>3, PTL DEF Spec
===============================================================================
