------------------------------ MODULE LiveSession ------------------------------
(****************************************************************************)
(* The paper/live session of src/scripts/run_paper.py and the streams of    *)
(* src/src/execution/stream_manager.py that feed it.  One event loop runs   *)
(*   startup            resync, then start the two streams                  *)
(*   trading, data      resync, connect, deliver; on a drop back off, again *)
(*   the bar consumer   day boundary, on_bar, validate, submit              *)
(* and every await is a point where the others, and the broker, may move:   *)
(* an action is what one task does between two awaits.  The broker and the  *)
(* network are external: what they may do is read off from the calls and    *)
(* the events that the code handles.                                        *)
(*                                                                          *)
(* Shares cost Price throughout, so that nothing is realized and the books  *)
(* differ by what was missed and not by the market; the account's equity    *)
(* may differ from one answer to the next.                                  *)
(****************************************************************************)
EXTENDS RiskManager, MomentumStrategy, SequencesExt

CONSTANTS
    Price,
    AccountEquities,  \* what get_account may answer
    Readings,
    MaxBars,          \* bound: bars published over all sessions
    MaxDays,          \* bound: trading days
    MaxDrops,         \* bound: stream drops and failed REST calls in the loops
    MaxSessions,      \* bound: starts of the program
    CallsFail,        \* whether a REST call outside the loops may fail
    OnlyWhenSettled   \* environment: bars come only when nothing is under way

ASSUME SessionAssumption ==
    /\ Price \in Nat \ {0}
    /\ AccountEquities \subseteq Int
    /\ Readings \subseteq [complete : BOOLEAN, signal : -100..100, regime : Int \union {None}]
    /\ {MaxBars, MaxDays, MaxDrops, MaxSessions} \subseteq Nat
    /\ {CallsFail, OnlyWhenSettled} \subseteq BOOLEAN

Streams == {"trading", "data"}
Tasks == Streams \union {"startup"}

VARIABLES
    session,    \* [up, starts, endedBy]
    shares,     \* external: the account's position per symbol
    open,       \* external: the account's open orders per symbol, oldest first
    executed,   \* external: executions so far, to tell snapshots apart
    updates,    \* trade updates on the wire of the trading stream
    feed,       \* bars between the data stream and the consumer
    published,  \* [bars, day, drops]: what the bounds count, and the market's day
    task,       \* where each of the three tasks is
    answer,     \* the positions a resync has in hand, or None
    consumer,   \* [at, bar, order, day]
    risk, strategy,
    trusted     \* history: no fill was lost or counted twice since the last sync

account == <<shares, open, executed>>
wires == <<updates, feed, published>>
program == <<task, answer, consumer, risk, strategy>>
vars == <<session, account, wires, program, trusted>>

OpenOrders == [symbol : Symbols, side : Sides, qty : Nat]
Fills == [symbol : Symbols, side : Sides, qty : Nat, price : {Price}]
FeedBars == [symbol : Symbols, close : {Price}, day : 1..MaxDays]
AnswersOf == [positions : [Symbols -> [qty : Int, avgPrice : Int, marketValue : Int]],
              executed : Nat]

TypeOK ==
    /\ session \in [up : BOOLEAN, starts : 0..MaxSessions,
                    endedBy : {"nothing", "signal", "failed call"}]
    /\ shares \in [Symbols -> Int]
    /\ open \in [Symbols -> Seq(OpenOrders)]
    /\ executed \in Nat
    /\ updates \in Seq(Fills)
    /\ feed \in Seq(FeedBars)
    /\ published \in [bars : 0..MaxBars, day : 1..MaxDays, drops : 0..MaxDrops]
    /\ task \in [Tasks -> {"off", "positions", "account", "connecting", "up", "backoff", "done"}]
    /\ answer \in [Tasks -> AnswersOf \union {None}]
    /\ consumer \in [at : {"listen", "account", "submit"}, bar : FeedBars \union {None},
                     order : OpenOrders \union {None}, day : 0..MaxDays]
    /\ risk \in Risks
    /\ strategy \in Strategies
    /\ trusted \in BOOLEAN

IdleConsumer == [at |-> "listen", bar |-> None, order |-> None, day |-> 0]

Init ==
    /\ session = [up |-> FALSE, starts |-> 0, endedBy |-> "nothing"]
    /\ shares = [s \in Symbols |-> 0]
    /\ open = [s \in Symbols |-> <<>>]
    /\ executed = 0
    /\ updates = <<>> /\ feed = <<>>
    /\ published = [bars |-> 0, day |-> 1, drops |-> 0]
    /\ task = [t \in Tasks |-> "off"]
    /\ answer = [t \in Tasks |-> None]
    /\ consumer = IdleConsumer
    /\ risk = [tracker |-> NewTracker, breaker |-> NewBreaker]
    /\ strategy = NewStrategy
    /\ trusted = FALSE

----------------------------------------------------------------------------
\* The program's life: build_components makes every object anew.

\* Wrong on purpose: the streams do not wait for the startup resync.
StartAtOnce ==
    /\ ~session.up
    /\ session.starts < MaxSessions
    /\ session' = [up |-> TRUE, starts |-> session.starts + 1, endedBy |-> "nothing"]
    /\ task' = [t \in Tasks |-> "positions"]
    /\ answer' = [t \in Tasks |-> None]
    /\ consumer' = IdleConsumer
    /\ risk' = [tracker |-> NewTracker, breaker |-> NewBreaker]
    /\ strategy' = NewStrategy
    /\ updates' = <<>> /\ feed' = <<>>
    /\ trusted' = FALSE
    /\ UNCHANGED <<account, published>>

Start ==
    /\ ~session.up
    /\ session.starts < MaxSessions
    /\ session' = [up |-> TRUE, starts |-> session.starts + 1, endedBy |-> "nothing"]
    /\ task' = [t \in Tasks |-> IF t = "startup" THEN "positions" ELSE "off"]
    /\ answer' = [t \in Tasks |-> None]
    /\ consumer' = IdleConsumer
    /\ risk' = [tracker |-> NewTracker, breaker |-> NewBreaker]
    /\ strategy' = NewStrategy
    /\ updates' = <<>> /\ feed' = <<>>
    /\ trusted' = FALSE
    /\ UNCHANGED <<account, published>>

\* run's FIRST_COMPLETED: any of the tasks ending ends the session.  A submit in
\* a worker thread is not undone by the cancellation: `lands` says whether the
\* broker takes it.  Open orders stay.
EndSession(why, lands) ==
    /\ session.up
    /\ session' = [session EXCEPT !.up = FALSE, !.endedBy = why]
    /\ open' = IF consumer.at = "submit" /\ lands
               THEN [open EXCEPT ![consumer.order.symbol] = Append(@, consumer.order)]
               ELSE open
    /\ task' = [t \in Tasks |-> "off"]
    /\ answer' = [t \in Tasks |-> None]
    /\ consumer' = IdleConsumer
    /\ updates' = <<>> /\ feed' = <<>>
    /\ trusted' = FALSE
    /\ UNCHANGED <<shares, executed, published, risk, strategy>>

StopSignal == \E lands \in BOOLEAN : EndSession("signal", lands)

\* get_positions or get_account of the startup resync, get_account at a day
\* boundary, submit_order refused: an exception no one catches.
UncaughtFailure ==
    /\ CallsFail
    /\ \/ task["startup"] \in {"positions", "account"} /\ EndSession("failed call", TRUE)
       \/ consumer.at = "account" /\ EndSession("failed call", TRUE)
       \/ consumer.at = "submit" /\ EndSession("failed call", FALSE)

----------------------------------------------------------------------------
\* resync and the reconnect loop.

GetPositions(t) ==
    /\ task[t] = "positions"
    /\ task' = [task EXCEPT ![t] = "account"]
    /\ answer' = [answer EXCEPT ![t] =
        [positions |-> [s \in Symbols |-> [qty |-> shares[s], avgPrice |-> Price,
                                           marketValue |-> shares[s] * Price]],
         executed |-> executed]]
    /\ UNCHANGED <<session, account, wires, consumer, risk, strategy, trusted>>

\* get_account answers and the tracker is replaced by positions that were read
\* before it: they are right if they count the executions that the trading
\* stream has delivered or lost by now, no more and no fewer.
SyncTracker(t, equity) ==
    /\ task[t] = "account"
    /\ risk' = [risk EXCEPT !.tracker = SyncFromApi(answer[t].positions, equity)]
    /\ trusted' = (answer[t].executed = executed - Len(updates))
    /\ answer' = [answer EXCEPT ![t] = None]
    /\ task' = IF t = "startup"
               THEN [startup |-> "done", trading |-> "positions", data |-> "positions"]
               ELSE [task EXCEPT ![t] = "connecting"]
    /\ UNCHANGED <<session, account, wires, consumer, strategy>>

Connect(t) ==
    /\ task[t] = "connecting"
    /\ task' = [task EXCEPT ![t] = "up"]
    /\ UNCHANGED <<session, account, wires, answer, consumer, risk, strategy, trusted>>

\* The stream ends, or a resync or connection attempt raises: the loop logs it
\* and sleeps.  What was on the trading stream's wire is gone.
Drop(t) ==
    /\ task[t] \in {"positions", "account", "connecting", "up"}
    /\ published.drops < MaxDrops
    /\ published' = [published EXCEPT !.drops = @ + 1]
    /\ task' = [task EXCEPT ![t] = "backoff"]
    /\ answer' = [answer EXCEPT ![t] = None]
    /\ updates' = IF t = "trading" THEN <<>> ELSE updates
    /\ trusted' = (trusted /\ (t = "trading" => updates = <<>>))
    /\ UNCHANGED <<session, account, feed, consumer, risk, strategy>>

Reconnect(t) ==
    /\ task[t] = "backoff"
    /\ task' = [task EXCEPT ![t] = "positions"]
    /\ UNCHANGED <<session, account, wires, answer, consumer, risk, strategy, trusted>>

\* Wrong on purpose: a fill never reaches the risk manager.
DeliverFillToStrategy ==
    /\ updates # <<>>
    /\ strategy' = OnTradeUpdate(strategy, Head(updates))
    /\ updates' = Tail(updates)
    /\ UNCHANGED <<session, account, feed, published, task, answer, consumer, risk, trusted>>

\* _on_trade_update for fill and partial_fill: strategy first, then risk.
DeliverFill ==
    /\ updates # <<>>
    /\ strategy' = OnTradeUpdate(strategy, Head(updates))
    /\ risk' = RiskOnFill(risk, Head(updates))
    /\ updates' = Tail(updates)
    /\ UNCHANGED <<session, account, feed, published, task, answer, consumer, trusted>>

----------------------------------------------------------------------------
\* consume_bars and execute_intent.

\* on_bar, then validate: no await between them.
DecideBar(bar, reading, breaker, day) ==
    LET intent  == Intent(strategy', bar, reading)
        verdict == IF intent = None THEN Reject("no_intent")
                   ELSE Validate([risk EXCEPT !.breaker = breaker], intent)
    IN  /\ strategy' = BufferBar(strategy, bar)
        /\ consumer' = IF verdict.approved
                       THEN [at |-> "submit", bar |-> bar, day |-> day,
                             order |-> [symbol |-> intent.symbol, side |-> intent.side,
                                        qty |-> verdict.qty]]
                       ELSE [IdleConsumer EXCEPT !.day = day]

ConsumeBar(reading) ==
    /\ consumer.at = "listen"
    /\ feed # <<>>
    /\ Head(feed).day = consumer.day
    /\ feed' = Tail(feed)
    /\ DecideBar(Head(feed), reading, risk.breaker, consumer.day)
    /\ UNCHANGED <<session, account, updates, published, task, answer, risk, trusted>>

ConsumeFirstBarOfDay ==
    /\ consumer.at = "listen"
    /\ feed # <<>>
    /\ Head(feed).day # consumer.day
    /\ feed' = Tail(feed)
    /\ consumer' = [consumer EXCEPT !.at = "account", !.bar = Head(feed), !.day = Head(feed).day]
    /\ UNCHANGED <<session, account, updates, published, task, answer, risk, strategy, trusted>>

OpenDay(equity, reading) ==
    /\ consumer.at = "account"
    /\ risk' = RiskOnNewDay(risk, equity)
    /\ DecideBar(consumer.bar, reading, risk'.breaker, consumer.day)
    /\ UNCHANGED <<session, account, wires, task, answer, trusted>>

OrderAccepted ==
    /\ consumer.at = "submit"
    /\ open' = [open EXCEPT ![consumer.order.symbol] = Append(@, consumer.order)]
    /\ consumer' = [IdleConsumer EXCEPT !.day = consumer.day]
    /\ UNCHANGED <<session, shares, executed, wires, task, answer, risk, strategy, trusted>>

----------------------------------------------------------------------------
\* External: the broker executes all or part of an open order, or lets it lapse
\* (a DAY order); the exchange prints bars.

Execute(s, i, qty) ==
    LET order == open[s][i]
        fill  == [symbol |-> s, side |-> order.side, qty |-> qty, price |-> Price]
    IN  /\ qty <= order.qty
        /\ shares' = [shares EXCEPT ![s] = @ + Signed(fill)]
        /\ open' = [open EXCEPT ![s] = IF qty = order.qty THEN RemoveAt(@, i)
                                       ELSE [@ EXCEPT ![i].qty = order.qty - qty]]
        /\ executed' = executed + 1
        /\ updates' = IF task["trading"] = "up" THEN Append(updates, fill) ELSE updates
        /\ trusted' = (trusted /\ task["trading"] = "up")
        /\ UNCHANGED <<session, feed, published, program>>

Lapse(s, i) ==
    /\ open' = [open EXCEPT ![s] = RemoveAt(@, i)]
    /\ UNCHANGED <<session, shares, executed, wires, program, trusted>>

BrokerMoves ==
    \E s \in Symbols : \E i \in DOMAIN open[s] :
        Lapse(s, i) \/ \E qty \in 1..open[s][i].qty : Execute(s, i, qty)

Settled ==
    /\ \A t \in Streams : task[t] = "up"
    /\ updates = <<>> /\ feed = <<>>
    /\ \A s \in Symbols : open[s] = <<>>
    /\ consumer.at = "listen"

PublishBar(s, day) ==
    /\ task["data"] = "up"
    /\ OnlyWhenSettled => Settled
    /\ published.bars < MaxBars
    /\ day \in {published.day, published.day + 1}
    /\ published' = [published EXCEPT !.bars = @ + 1, !.day = day]
    /\ feed' = Append(feed, [symbol |-> s, close |-> Price, day |-> day])
    /\ UNCHANGED <<session, account, updates, program, trusted>>

Next ==
    \/ Start
    \/ StopSignal
    \/ UncaughtFailure
    \/ \E t \in Tasks :
          GetPositions(t) \/ \E equity \in AccountEquities : SyncTracker(t, equity)
    \/ \E t \in Streams : Connect(t) \/ Drop(t) \/ Reconnect(t)
    \/ DeliverFill
    \/ \E reading \in Readings :
          ConsumeBar(reading) \/ \E equity \in AccountEquities : OpenDay(equity, reading)
    \/ ConsumeFirstBarOfDay
    \/ OrderAccepted
    \/ BrokerMoves
    \/ \E s \in Symbols, day \in 1..MaxDays : PublishBar(s, day)

Spec == Init /\ [][Next]_vars

----------------------------------------------------------------------------

\* The shares of s whose fills are on the wire.
OnTheWire(s) ==
    SumFunction([i \in DOMAIN updates |->
                    IF updates[i].symbol = s THEN Signed(updates[i]) ELSE 0])

\* exposure_tracker.py:3-6: the tracker is the account plus what is on the wire,
\* through any interleaving of fills, drops and resyncs, unless a fill happened
\* while the trading stream was not up, or passed between the two awaits of a
\* resync: those are the only ways for it to go wrong.
TrackerExactUnlessRaced ==
    trusted => \A s \in Symbols :
                  risk.tracker.positions[s].qty + OnTheWire(s) = shares[s]

\* run_paper.py:137 "Positions are synced BEFORE the first event is consumed -
\* always": in every session, before any fill or bar is handled.
SyncedBeforeFirstEvent ==
    updates # <<>> \/ feed # <<>> \/ consumer.at # "listen"
        => task["startup"] = "done" /\ risk.tracker.equity \in AccountEquities

\* broker.py:59, 63-66: what goes to submit_order was approved on the books as
\* they are when the await begins, whatever happened since the bar arrived.
OrdersAdmissible ==
    [][consumer.at # "submit" /\ consumer'.at = "submit" =>
        LET order == consumer'.order
        IN  Admissible(risk', [symbol |-> order.symbol, side |-> order.side,
                               qty |-> order.qty, price |-> Price], order.qty)]_vars

\* momentum_lightgbm.py:1 "long-only".
NeverShort == \A s \in Symbols : shares[s] >= 0

\* config/base.yaml:17 "max_position_pct: 0.10 # step 4 - reduce, don't reject":
\* at a price that does not move, no position outgrows its cap.
PositionWithinCap ==
    \A s \in Symbols : \E equity \in AccountEquities :
        100 * Abs(shares[s]) * Price <= equity * MaxPositionPct

\* exposure_tracker.py:4-5: polling is refused because "validate() would approve
\* against stale exposure"; once nothing is under way the tracker is current.
TrackerCurrentWhenSettled ==
    Settled => \A s \in Symbols : risk.tracker.positions[s].qty = shares[s]

\* momentum_lightgbm.py:8-10 "Exits request the full held quantity - reducing
\* orders pass through risk unchanged".
ExitsPassUnchanged ==
    [][consumer.at # "submit" /\ consumer'.at = "submit" /\ consumer'.order.side = "sell"
        => consumer'.order.qty = strategy.positions[consumer'.order.symbol]]_vars

\* momentum_lightgbm.py:102 "exits must always stay possible": while trading is
\* not halted, a bar with an exit signal for shares the tracker shows sends one.
ExitsStayPossible ==
    [][\A reading \in Readings :
        ConsumeBar(reading) /\ reading.complete /\ reading.signal <= -SignalThreshold
          /\ strategy'.buffered[Head(feed).symbol] = WarmupBars
          /\ ~risk.breaker.halted
          /\ risk.tracker.positions[Head(feed).symbol].qty > 0
        => consumer'.at = "submit"]_vars
=============================================================================
