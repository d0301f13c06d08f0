----------------------------- MODULE Dashboard -----------------------------
(* The dashboard: what the bot shows to a browser.  The main thread puts     *)
(* together a state 20 times a second, full or fast, and posts it; the       *)
(* dashboard thread keeps the latest, merges it into what it knows every     *)
(* 50 ms and queues it for each websocket session; the browser merges what   *)
(* it receives into its store.  The processor thread reports icebergs.       *)
(*                                                                           *)
(* A figure is the number of the tick that read it.  acct stands for the     *)
(* fields that are numbers, lists for trades and levels (empty when moved    *)
(* from), heavy for what only a full update carries, chart and book for the  *)
(* coin they are of.                                                         *)
EXTENDS Integers, FiniteSets, Sequences

CONSTANTS Clients, Coins,
          LeaderCoin,      \* the coin shown before any is selected
          Controlled,  \* coins with a controller
          QueueCap,    \* m_max_write_queue_size
          MaxTicks, MaxPicks, MaxIcebergs, MaxDrops, \* bounds
          MaxEvents    \* bound on the four together

NoCoin == "no coin"

ASSUME DashAssumption ==
    /\ NoCoin \notin Coins /\ LeaderCoin \in Coins /\ Controlled \subseteq Coins
    /\ QueueCap \in Nat \ {0, 1}
    /\ {MaxTicks, MaxPicks, MaxIcebergs, MaxDrops, MaxEvents} \subseteq Nat

VARIABLES tick,      \* dashboard_tick on the main thread
          cache,     \* cached_journal_, cached_chart_history_, cached_bids_top20_
          selected,  \* selected_ticker_
          requests,  \* selections on their way to the server
          current,   \* current_state_
          pendingState, \* pending_state_
          dirty,     \* pending_dirty_
          waiting,   \* the conflation timer runs
          strand,    \* handlers posted to the dashboard's strand
          casting,   \* the state that update_state is about to broadcast
          link,      \* client -> "down", "accepting" or "open"
          sessions,  \* sessions_, of the clients that are connected
          ghosts,    \* sessions_ of connections that broke unnoticed
          outbox,    \* client -> its session's queue, and what is being written
          view,      \* client -> the store of the browser
          tally,     \* picks, icebergs and drops so far
          updated,      \* history: clients with a broadcast since they joined or anyone picked
          missed,    \* history: clients without the last full update
          torn       \* history: clients that got the chart of one coin as another's

dashVars == <<tick, cache, selected, requests, current, pendingState, dirty, waiting, strand,
              casting, link, sessions, ghosts, outbox, view, tally, updated, missed, torn>>

\* Groups of variables.
botVars == <<tick, cache, selected, requests>>
serverVars == <<current, pendingState, dirty, waiting, strand, casting>>
netVars == <<link, sessions, ghosts, outbox, view>>
histVars == <<updated, missed, torn>>

NotCasting == [full |-> FALSE, sel |-> "nothing"]
Nothing == [full |-> FALSE]
More == tick.n + tally.picks + tally.icebergs + tally.drops < MaxEvents
Once(k, limit) ==
    /\ tally[k] < limit /\ More
    /\ tally' = [tally EXCEPT ![k] = @ + 1]

-----------------------------------------------------------------------------
(* dashboard_tick on the main thread: the selected coin is read twice. *)

Shown == IF selected = NoCoin THEN LeaderCoin ELSE selected

\* The first tick is a full one; later one in two or three is.
TickStarts ==
    /\ tick.pc = "rest" /\ tick.n < MaxTicks /\ More
    /\ sessions # {} \/ ghosts > 0
    /\ \E full \in BOOLEAN :
          /\ tick.n = 0 => full
          /\ tick' = [pc |-> IF full THEN "rebuild" ELSE "send", full |-> full, n |-> tick.n + 1]
    /\ UNCHANGED <<cache, selected, requests, tally, serverVars, netVars, histVars>>

\* The chart and the book of a coin without a controller: those of the last.
BuildHeavy ==
    /\ tick.pc = "rebuild"
    /\ tick' = [tick EXCEPT !.pc = "send"]
    /\ cache' = [heavy |-> tick.n,
                 chart |-> IF Shown \in Controlled THEN Shown ELSE cache.chart,
                 book  |-> IF Shown \in Controlled THEN Shown ELSE cache.book]
    /\ UNCHANGED <<selected, requests, tally, serverVars, netVars, histVars>>

NewState ==
    [full |-> tick.full, acct |-> tick.n, lists |-> tick.n, sel |-> Shown,
     heavy |-> cache.heavy, chart |-> IF tick.full THEN cache.chart ELSE NoCoin,
     book |-> IF Shown \in Controlled THEN Shown ELSE cache.book,
     ice |-> 0, gen |-> 0]

\* update_state_async
Send ==
    /\ tick.pc = "send"
    /\ tick' = [tick EXCEPT !.pc = "rest"]
    /\ strand' = Append(strand, [do |-> "keep", state |-> NewState])
    /\ UNCHANGED <<cache, selected, requests, current, pendingState, dirty, waiting, casting,
                   tally, netVars, histVars>>

-----------------------------------------------------------------------------
(* The strand of the dashboard thread. *)

DashFree == casting = NotCasting

\* A moved-from state keeps its numbers and loses its lists and strings.
Moved(s) == [s EXCEPT !.lists = 0, !.heavy = 0, !.chart = NoCoin, !.book = NoCoin,
                      !.sel = NoCoin, !.ice = 0]

Keep ==
    /\ DashFree /\ strand # <<>> /\ Head(strand).do = "keep"
    /\ strand' = Tail(strand)
    /\ pendingState' = Head(strand).state
    /\ dirty' = TRUE
    /\ UNCHANGED <<current, waiting, casting, tally, botVars, netVars, histVars>>

\* expires_after cancels a wait that has not ended.
Schedule ==
    /\ DashFree /\ strand # <<>> /\ Head(strand).do = "schedule"
    /\ strand' = Tail(strand)
    /\ waiting' = TRUE
    /\ UNCHANGED <<current, pendingState, dirty, casting, tally, botVars, netVars, histVars>>

TimerEnds ==
    /\ waiting
    /\ waiting' = FALSE
    /\ strand' = Append(strand, [do |-> "conflate", state |-> Nothing])
    /\ UNCHANGED <<current, pendingState, dirty, casting, tally, botVars, netVars, histVars>>

\* Only while there are sessions.
Reschedule == waiting' = (sessions # {} \/ ghosts > 0)

\* The handler of the timer, up to where it gives up the mutex.
Conflate ==
    /\ DashFree /\ strand # <<>> /\ Head(strand).do = "conflate"
    /\ strand' = Tail(strand)
    /\ IF dirty
       THEN /\ casting' = [pendingState EXCEPT !.gen = current.gen + 1]
            /\ pendingState' = Moved(pendingState)
            /\ dirty' = FALSE
            /\ UNCHANGED waiting
       ELSE Reschedule /\ UNCHANGED <<casting, pendingState, dirty>>
    /\ UNCHANGED <<current, tally, botVars, netVars, histVars>>

\* A full state replaces everything, icebergs included; a fast one keeps what
\* it does not carry.
Merge(old, s) ==
    IF s.full THEN s
    ELSE [old EXCEPT !.full = FALSE, !.gen = s.gen, !.acct = s.acct, !.lists = s.lists,
                     !.sel = s.sel, !.book = s.book]

\* As Queued, but the new one is refused.
QueuedOld(q, f) == IF Len(q) >= QueueCap THEN q ELSE Append(q, f)

\* A full queue loses its first message.
Queued(q, f) == Append(IF Len(q) >= QueueCap THEN Tail(q) ELSE q, f)

\* The session's writer: the first of the queue is written, and stays there
\* until it is.  A message that leaves the queue before is freed under it.
Put(o, f) ==
    LET q == Queued(o.queue, f)
    IN  [queue |-> q, busy |-> TRUE, now |-> IF o.busy THEN o.now ELSE Head(q),
         freed |-> o.freed \/ (o.busy /\ Len(o.queue) >= QueueCap)]

\* A write ends: the first of the queue leaves, whether it was written or not.
Wrote(o) ==
    LET rest == Tail(o.queue)
    IN  [queue |-> rest, busy |-> rest # <<>>, freed |-> FALSE,
         now |-> IF rest = <<>> THEN Nothing ELSE Head(rest)]

LosesFull(o) == Len(o.queue) >= QueueCap /\ Head(o.queue).full

\* A fast frame leaves out what only a full update carries.
Absent == -1
Carried(s, none) ==
    [full |-> s.full, acct |-> s.acct, lists |-> s.lists, sel |-> s.sel, book |-> s.book,
     ice |-> s.ice, gen |-> s.gen,
     heavy   |-> IF s.full THEN s.heavy ELSE none,
     chart   |-> IF s.full THEN s.chart ELSE NoCoin,
     density |-> IF s.full THEN s.heavy ELSE none]
SerializeJson(s) == Carried(s, Absent)
\* In a FlatBuffer a vector that is not there reads as empty.
SerializeBinary(s) == Carried(s, 0)
Frame(c, s) == IF view[c].format = "binary" THEN SerializeBinary(s) ELSE SerializeJson(s)

\* update_state.  A session in its handshake takes no message: the attempt
\* fails and ends it for the server, while the browser goes on connecting.
Broadcast ==
    /\ ~DashFree
    /\ current' = Merge(current, casting)
    /\ casting' = NotCasting
    /\ LET open == {c \in sessions : link[c] = "open"}
       IN  /\ outbox' = [c \in Clients |->
                  IF c \in open THEN Put(outbox[c], Frame(c, current')) ELSE outbox[c]]
           /\ sessions' = open
           /\ updated' = updated \union open
           /\ missed' = (missed \ (IF current'.full THEN open ELSE {}))
                          \union {c \in open : LosesFull(outbox[c])}
           /\ waiting' = (open # {} \/ ghosts > 0)
    /\ UNCHANGED <<pendingState, dirty, strand, link, ghosts, view, tally, torn, botVars>>

\* push_iceberg_event on the processor's thread.
PushIceberg ==
    /\ Once("icebergs", MaxIcebergs)
    /\ current' = [current EXCEPT !.ice = @ + 1]
    /\ dirty' = TRUE
    /\ UNCHANGED <<pendingState, waiting, strand, casting, botVars, netVars, histVars>>

\* POST /api/ticker/select
SelectTicker ==
    /\ DashFree /\ requests # <<>>
    /\ requests' = Tail(requests)
    /\ selected' = Head(requests)
    /\ current' = [current EXCEPT !.sel = Head(requests)]
    /\ updated' = {}
    /\ UNCHANGED <<tick, cache, pendingState, dirty, waiting, strand, casting, tally, missed, torn,
                   netVars>>

-----------------------------------------------------------------------------
(* Sessions. *)

NoOutput == [queue |-> <<>>, busy |-> FALSE, now |-> Nothing, freed |-> FALSE]

\* start_ws_session: the session counts before its handshake is over.
Connect(c) ==
    /\ DashFree /\ link[c] = "down"
    /\ link' = [link EXCEPT ![c] = "accepting"]
    /\ sessions' = sessions \union {c}
    /\ strand' = IF sessions = {} /\ ghosts = 0
                 THEN Append(strand, [do |-> "schedule", state |-> Nothing]) ELSE strand
    /\ updated' = updated \ {c} /\ missed' = missed \union {c}
    /\ UNCHANGED <<current, pendingState, dirty, waiting, casting, ghosts, outbox, view, tally,
                   torn, botVars>>

\* send_initial: what the server has, full or not.
AcceptSession(c) ==
    /\ DashFree /\ link[c] = "accepting"
    /\ link' = [link EXCEPT ![c] = "open"]
    /\ outbox' = [outbox EXCEPT ![c] = Put(@, Frame(c, current))]
    /\ UNCHANGED <<sessions, ghosts, view, tally, botVars, serverVars, histVars>>

\* The connection breaks.  The server may notice later.
Break(c) ==
    /\ link[c] # "down"
    /\ Once("drops", MaxDrops)
    /\ link' = [link EXCEPT ![c] = "down"]
    /\ outbox' = [outbox EXCEPT ![c] = NoOutput]
    /\ sessions' = sessions \ {c}
    /\ ghosts' = IF c \in sessions THEN ghosts + 1 ELSE ghosts
    /\ UNCHANGED <<view, botVars, serverVars, histVars>>

\* A read or a write of the old session fails.
Notice ==
    /\ DashFree /\ ghosts > 0
    /\ ghosts' = ghosts - 1
    /\ UNCHANGED <<link, sessions, outbox, view, tally, botVars, serverVars, histVars>>

-----------------------------------------------------------------------------
(* The browser: WsWorker, FbDecoder and applyServerState. *)

\* Points no newer than the last are not pushed.
PushPoint(b, f) == IF f.heavy > b.ts THEN [of |-> b.of \union {f.chart}, ts |-> f.heavy] ELSE b
NoPoints == [of |-> {}, ts |-> 0]

\* The decoder names what a fast frame leaves out, but for chart and density.
Decoded(f) == IF f.full THEN f ELSE [f EXCEPT !.heavy = Absent]
Received(v, f) == IF v.format = "binary" THEN Decoded(f) ELSE f

\* As Apply, but what an update does not carry is taken for empty.
ApplyEmpty(v, f) ==
    [v EXCEPT !.gen = f.gen, !.acct = f.acct, !.lists = f.lists, !.book = f.book,
              !.heavy = IF f.heavy = Absent THEN 0 ELSE f.heavy,
              !.active = IF f.sel = NoCoin THEN @ ELSE f.sel]

\* applyServerState
Apply(v, f) ==
    LET coin     == IF f.sel = NoCoin THEN v.active ELSE f.sel
        switched == coin # v.active
        charted  == f.chart # NoCoin
        pushed   == IF charted THEN PushPoint(v.buffers[coin], f) ELSE v.buffers[coin]
    IN  [v EXCEPT !.gen = f.gen, !.acct = f.acct, !.lists = f.lists, !.book = f.book,
                  !.heavy = IF f.heavy = Absent THEN @ ELSE f.heavy,
                  !.chart = IF charted THEN pushed.of ELSE @,
                  !.ice = IF switched THEN 0 ELSE f.ice,
                  !.density = CASE switched -> 0
                                [] ~switched /\ f.density # Absent -> f.density
                                [] OTHER -> @,
                  !.buffers[coin] = IF switched THEN NoPoints ELSE pushed,
                  !.active = coin]

\* A frame of the generation seen last is skipped, but when the chart is old.
SameGeneration(v, f) == f.gen = v.gen

\* A write ends and the browser has the frame: unless it was freed while it
\* was written, when it may have become anything.
Written(c) ==
    /\ DashFree /\ outbox[c].busy
    /\ LET f == Received(view[c], outbox[c].now)
           lost == outbox[c].freed /\ Head(outbox[c].queue).full
       IN  /\ outbox' = [outbox EXCEPT ![c] = Wrote(@)]
           /\ missed' = missed \union (IF lost THEN {c} ELSE {})
           /\ \/ /\ view' = [view EXCEPT ![c] = Apply(@, f)]
                 /\ ~SameGeneration(view[c], f) \/ view[c].chart # {}
                 /\ torn' = torn \union (IF f.chart \in {NoCoin, f.sel} THEN {} ELSE {c})
              \/ /\ SameGeneration(view[c], f)
                 /\ UNCHANGED <<view, torn>>
              \/ /\ outbox[c].freed
                 /\ UNCHANGED <<view, torn>>
    /\ UNCHANGED <<link, sessions, ghosts, tally, updated, botVars, serverVars>>

\* The user picks a coin: shown at once, and sent to the server.
PickCoin(c, coin) ==
    /\ link[c] = "open" /\ view[c].active # coin
    /\ Once("picks", MaxPicks)
    /\ view' = [view EXCEPT ![c].active = coin]
    /\ requests' = Append(requests, coin)
    /\ updated' = {}
    /\ UNCHANGED <<tick, cache, selected, link, sessions, ghosts, outbox, missed, torn, serverVars>>

-----------------------------------------------------------------------------
Blank == [full |-> TRUE, acct |-> 0, lists |-> 0, sel |-> NoCoin, heavy |-> 0, chart |-> NoCoin,
          book |-> NoCoin, ice |-> 0, gen |-> 0]

DashInit ==
    /\ tick = [pc |-> "rest", full |-> FALSE, n |-> 0]
    /\ cache = [heavy |-> 0, chart |-> NoCoin, book |-> NoCoin]
    /\ selected = NoCoin /\ requests = <<>>
    /\ current = Blank /\ pendingState = Blank /\ dirty = FALSE
    /\ waiting = TRUE /\ strand = <<>> /\ casting = NotCasting
    /\ link = [c \in Clients |-> "down"]
    /\ sessions = {} /\ ghosts = 0
    /\ outbox = [c \in Clients |-> NoOutput]
    /\ \E format \in [Clients -> {"binary", "json"}] :
          view = [c \in Clients |->
              [format |-> format[c], gen |-> -1, acct |-> 0, lists |-> 0, heavy |-> 0,
               book |-> NoCoin, chart |-> {}, density |-> 0, ice |-> 0, active |-> LeaderCoin,
               buffers |-> [x \in Coins |-> NoPoints]]]
    /\ tally = [k \in {"picks", "icebergs", "drops"} |-> 0]
    /\ updated = {} /\ missed = {} /\ torn = {}

DashNext ==
    \/ TickStarts \/ BuildHeavy \/ Send
    \/ Keep \/ Schedule \/ TimerEnds \/ Conflate \/ Broadcast
    \/ PushIceberg \/ SelectTicker \/ Notice
    \/ \E c \in Clients : Connect(c) \/ AcceptSession(c) \/ Break(c) \/ Written(c)
    \/ \E c \in Clients, coin \in Coins : PickCoin(c, coin)

DashSpec == DashInit /\ [][DashNext]_dashVars

-----------------------------------------------------------------------------

\* Types.
DashTypeOK ==
    /\ selected \in Coins \union {NoCoin}
    /\ sessions \subseteq Clients /\ \A c \in sessions : link[c] # "down"
    /\ \A c \in Clients : Len(outbox[c].queue) <= QueueCap /\ view[c].active \in Coins
    /\ \A c \in Clients : outbox[c].busy => outbox[c].queue # <<>>
    /\ ghosts \in Nat /\ dirty \in BOOLEAN /\ waiting \in BOOLEAN

\* The conflation timer stops when the last session leaves and is started by
\* the first: whoever comes and goes in whatever order, while there are
\* sessions it runs, or is about to.
ConflationRuns ==
    sessions # {} => \/ waiting \/ ~DashFree
                     \/ \E i \in 1..Len(strand) : strand[i].do \in {"schedule", "conflate"}

Settled ==
    /\ tick.pc = "rest" /\ strand = <<>> /\ DashFree /\ ~dirty /\ requests = <<>>
    /\ \A c \in Clients : ~outbox[c].busy

\* While there are sessions the timer that serves them runs; and
\* when everything posted has been sent and written, a browser with a session
\* shows the figures, trades, book and coin that the server has, however many
\* updates were conflated or pushed out of its queue, and, unless it missed
\* the last full update, its journal and a chart of the selected coin.
BrowserCurrent ==
    /\ ConflationRuns
    /\ Settled => \A c \in updated \intersect sessions :
          /\ view[c].acct = current.acct /\ view[c].lists = current.lists
          /\ view[c].book = current.book /\ view[c].gen = current.gen
          /\ current.sel # NoCoin => view[c].active = current.sel
          /\ c \notin missed =>
                /\ view[c].heavy = current.heavy
                /\ c \notin torn /\ current.chart # NoCoin /\ current.chart = current.sel =>
                      view[c].chart = {current.sel}

\* What a browser shows of the journal, and the account, never goes back to an
\* older one, through conflation, lost messages and reconnections.  (The
\* journal is emptied after an iceberg: its update broadcasts a state that has
\* been moved from.)
NeverBack ==
    [][\A c \in Clients :
          /\ view'[c].acct >= view[c].acct
          /\ view'[c].heavy >= view[c].heavy \/ (view'[c].heavy = 0 /\ tally.icebergs > 0)]_dashVars
=============================================================================
