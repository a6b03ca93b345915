----------------------------- MODULE BacktestEngine -----------------------------
(****************************************************************************)
(* BacktestEngine.run of src/backtest/engine.py: bars in timestamp order    *)
(* drive fills, a strategy of any class, the risk gate and the simulated    *)
(* broker.  The loop runs without interruption; a row is split into its     *)
(* steps OpenBar, FillOrder for every pending order of the symbol, CloseBar *)
(* so that the states between them are visible.  Rows of one timestamp come *)
(* in any order (the sort does not look at the symbol), and a symbol may    *)
(* have no row at a timestamp.                                              *)
(****************************************************************************)
EXTENDS RiskManager, StrategyClasses, SimulatedBroker

CONSTANTS
    Days,          \* bound: timestamps 1..Days
    TradeStart,    \* trade_start: earlier timestamps are the warmup lead-in
    Candles,       \* a bar's open and close
    Readings       \* what features, generator, detector and news may yield

ASSUME BarsAssumption ==
    /\ Days \in Nat /\ TradeStart \in Nat
    /\ Candles \subseteq [open : Nat \ {0}, close : Nat \ {0}]
    /\ Readings \subseteq [complete : BOOLEAN, signal : -100..100, regime : Int \union {None},
                         sentiment : -100..100]

VARIABLES
    day,        \* current_day; 0 is None
    todo,       \* symbols whose row of the day is still to come
    bar,        \* the row being processed, None between rows
    broker, risk, strategy,
    pnls,       \* realized P&L of every close
    curve,      \* timestamps of the equity curve
    results     \* the tallies of the results, None until the run returns

books == <<broker, risk, strategy>>
vars == <<day, todo, bar, broker, risk, strategy, pnls, curve, results>>

Bars == {[symbol |-> s, open |-> candle.open, close |-> candle.close] :
            s \in Symbols, candle \in Candles}

TypeOK ==
    /\ day \in 0..Days
    /\ todo \subseteq Symbols
    /\ bar \in Bars \union {None}
    /\ broker \in Brokers
    /\ risk \in Risks
    /\ strategy \in StrategyObjects
    /\ pnls \in Seq(Int)
    /\ curve \in Seq(1..Days)
    /\ results \in [nTrades : Nat, nWins : Nat, nLosses : Nat, grossWin : Int, grossLoss : Int]
                    \union {None}

\* The startup sync has run: equity() of a broker without positions is its cash.
Init ==
    /\ day = 0 /\ todo = {} /\ bar = None
    /\ broker = NewBroker
    /\ risk = [tracker |-> SyncFromApi(PositionsReport(NewBroker), NewBroker.cash),
               breaker |-> NewBreaker]
    /\ strategy \in {NewObject(class) : class \in Classes}
    /\ pnls = <<>> /\ curve = <<>>
    /\ results = None

\* Wrong on purpose: the lead-in is traded.
NoLeadIn == FALSE

InLeadIn == day < TradeStart

\* The first row of a new timestamp, up to the day boundary.
NewTimestamp ==
    /\ bar = None /\ todo = {} /\ day < Days
    /\ day' = day + 1
    /\ todo' \in SUBSET Symbols \ {{}}
    /\ risk' = RiskOnNewDay(risk, BrokerEquity(broker))
    /\ UNCHANGED <<bar, broker, strategy, pnls, curve, results>>

OpenBar(next) ==
    /\ bar = None
    /\ next.symbol \in todo
    /\ bar' = next
    /\ todo' = todo \ {next.symbol}
    /\ UNCHANGED <<day, books, pnls, curve, results>>

\* One fill of fill_at_open and its round of the callback loop; the loop's body
\* never looks at the broker, so settling all orders first changes nothing.
FillOrder ==
    /\ bar # None
    /\ broker.pending[bar.symbol] # <<>>
    /\ LET fill     == FillOf(Head(broker.pending[bar.symbol]), bar.open)
           realized == Realized(risk.tracker.positions[fill.symbol], fill)
       IN  /\ broker' = FillAtOpen(broker, fill)
           /\ strategy' = OnFill(strategy, fill)
           /\ risk' = RiskOnFill(risk, fill)
           /\ pnls' = IF realized = 0 THEN pnls ELSE Append(pnls, realized)
    /\ UNCHANGED <<day, todo, bar, curve, results>>

\* on_bar, the gate, the submission.
Submitted(reading) ==
    LET intent  == IF InLeadIn THEN None ELSE IntentOf(strategy', bar, reading)
        verdict == IF intent = None THEN Reject("no_intent") ELSE Validate(risk, intent)
    IN  IF verdict.approved
        THEN SubmitOrder(broker, [symbol |-> intent.symbol, side |-> intent.side,
                                  qty |-> verdict.qty, day |-> day])
        ELSE broker

\* An equity point for a timestamp that has none yet.
CurveWith(timestamp) ==
    IF InLeadIn \/ (curve # <<>> /\ curve[Len(curve)] = timestamp)
    THEN curve ELSE Append(curve, timestamp)

\* Wrong on purpose: the bar is decided before the fills at its open.
CloseBarUnfilled(reading) ==
    /\ bar # None
    /\ strategy' = OnBar(strategy, bar, day, reading)
    /\ broker' = Mark(Submitted(reading), bar)
    /\ curve' = CurveWith(day)
    /\ bar' = None
    /\ UNCHANGED <<day, todo, risk, pnls, results>>

\* The rest of the row: the decision, the mark and the equity point.
CloseBar(reading) ==
    /\ bar # None
    /\ broker.pending[bar.symbol] = <<>>
    /\ strategy' = OnBar(strategy, bar, day, reading)
    /\ broker' = Mark(Submitted(reading), bar)
    /\ curve' = CurveWith(day)
    /\ bar' = None
    /\ UNCHANGED <<day, todo, risk, pnls, results>>

\* _results: what walk-forward optimization gates and sizes by.
Results ==
    LET wins   == {i \in DOMAIN pnls : pnls[i] > 0}
        losses == {i \in DOMAIN pnls : pnls[i] < 0}
    IN  [nTrades |-> Len(pnls), nWins |-> Cardinality(wins), nLosses |-> Cardinality(losses),
         grossWin |-> SumFunctionOnSet(pnls, wins),
         grossLoss |-> Abs(SumFunctionOnSet(pnls, losses))]

\* Out of rows: run returns.
Finish ==
    /\ bar = None /\ todo = {} /\ day = Days
    /\ results' = Results
    /\ UNCHANGED <<day, todo, bar, books, pnls, curve>>

Next ==
    \/ NewTimestamp
    \/ \E next \in Bars : OpenBar(next)
    \/ FillOrder
    \/ \E reading \in Readings : CloseBar(reading)
    \/ Finish

Spec == Init /\ [][Next]_vars

----------------------------------------------------------------------------

\* momentum_lightgbm.py:72-74, exposure_tracker.py:30-46, engine.py:86-95: the
\* three sets of books are kept apart and each sees only fills, yet strategy,
\* tracker and broker agree on every position whenever a bar is decided.
BooksAgree ==
    \A s \in Symbols :
        /\ strategy.positions[s] = broker.positions[s].qty
        /\ risk.tracker.positions[s].qty = broker.positions[s].qty

\* momentum_lightgbm.py:1 "long-only": no order the gate lets through can sell
\* shares that are not there, so no symbol is ever short.
NeverShort == \A s \in Symbols : broker.positions[s].qty >= 0

\* engine.py:69: an order never meets another one of its symbol, and what is
\* pending is an entry of a flat symbol or an exit of the whole position.
OrdersAreWholeTrades ==
    \A s \in Symbols :
        /\ Len(broker.pending[s]) <= 1
        /\ \A i \in DOMAIN broker.pending[s] :
            LET order == broker.pending[s][i]
                held  == broker.positions[s].qty
            IN  \/ order.side = "buy" /\ held = 0
                \/ order.side = "sell" /\ held > 0 /\ order.qty = held

\* mean_reversion.py:7-9, xsec_reversion.py:129: a holding's age starts from
\* nothing, and while trading is enabled no holding of the cross-sectional
\* strategy grows older than the time stop, which leaves an exit pending.  (Mean
\* reversion has no answer, so no time stop either, on bars without features.)
TimeStopBinds ==
    strategy.class # "momentum" =>
        \A s \in Symbols :
            /\ strategy.positions[s] = 0 => strategy.barsHeld[s] = 0
            /\ strategy.class = "xsec_reversion" /\ ~risk.breaker.halted =>
                /\ strategy.barsHeld[s] <= MaxHold
                /\ strategy.barsHeld[s] = MaxHold => broker.pending[s] # <<>>

\* xsec_reversion.py:8-11: what is held is decided by one cross-section of an
\* earlier timestamp, never by one that is still arriving.
TargetIsPast ==
    \A chosen, other \in strategy.target : chosen.day = other.day /\ chosen.day < day

\* engine.py:90, manager.py:102-105: the tracker knows neither the marks nor the
\* commission; apart from those its equity accounts for every tick of the
\* broker's cash, and the reported P&Ls add up to the difference.
MoneyAccounted ==
    LET tracker == risk.tracker
        basis == SumFunctionOnSet([s \in Symbols |->
                    tracker.positions[s].qty * tracker.positions[s].avgPrice], Symbols)
    IN  /\ broker.cash + broker.commission + basis = tracker.equity
        /\ tracker.equity = InitialCapital + SumFunction(pnls)
        /\ results # None =>
            /\ results.nTrades = results.nWins + results.nLosses
            /\ tracker.equity = InitialCapital + results.grossWin - results.grossLoss

\* engine.py:4-5, 69-70: next-bar-open semantics: what fills was decided at an
\* earlier timestamp, and nothing decided in the lead-in ever fills.
FillsAreLater ==
    [][FillOrder => LET order == Head(broker.pending[bar.symbol])
                    IN  order.day < day /\ order.day >= TradeStart]_vars

\* manager.py:1-5: every order that reaches the broker passed the gate on the
\* books of that moment: not halted, and a pure reduction or inside every cap.
OrdersAdmissible ==
    [][\A s \in Symbols :
        Len(broker'.pending[s]) > Len(broker.pending[s]) =>
            LET order == broker'.pending[s][Len(broker'.pending[s])]
            IN  Admissible(risk, [symbol |-> s, side |-> order.side, qty |-> order.qty,
                                  price |-> bar.close], order.qty)]_vars

\* circuit_breaker.py:3: "daily_loss_pct: P&L below -X% of start-of-day equity":
\* a daily-loss halt means the account lost that much since the day opened.
DailyLossIsReal ==
    [][FillOrder /\ ~risk.breaker.halted /\ risk'.breaker.halted
         /\ risk'.breaker.reason = "daily_loss"
        => Below(BrokerEquity(broker'), DailyLossPct, risk.breaker.startOfDayEquity)]_vars

Stage(s) ==
    LET pending == broker.pending[s]
        held    == broker.positions[s].qty
    IN  IF pending # <<>>
        THEN IF Len(pending) > 1 THEN "two orders"
             ELSE IF pending[1].side = "buy" /\ held = 0 THEN "entering"
             ELSE IF pending[1].side = "sell" /\ pending[1].qty = held THEN "leaving"
             ELSE "unmatched order"
        ELSE IF held = 0 THEN "flat" ELSE IF held > 0 THEN "long" ELSE "short"

Lifecycle == INSTANCE TradeLifecycle WITH stage <- [s \in Symbols |-> Stage(s)]

\* momentum_lightgbm.py:1-10, engine.py:8-9: seen from outside, every symbol goes
\* through whole trades: flat, entering, long, leaving, flat.
TradesAreWhole == Lifecycle!Spec
=============================================================================
