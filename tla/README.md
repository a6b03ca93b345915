# Fin2 in TLA+

TLA+ models, TLC configurations and TLAPS proofs for Fin2, a research-to-paper-trading
system in Python: bars and news are fetched and stored, universes are screened from them,
walk-forward optimization trains and clears a strategy, and one risk-gated loop trades it,
first in a backtest, then against a broker. Source paths below are relative
to `src/` of the repository (`src/src/risk/manager.py` is `src/risk/manager.py` here,
`src/scripts/run_paper.py` is `scripts/run_paper.py`).

Reading order: `Common`, `Market`, `CircuitBreaker`, `ExposureTracker`, `RiskManager`,
the strategies (`MomentumStrategy`, `MeanReversion`, `XsecReversion`, `StrategyClasses`),
`SimulatedBroker`, `BacktestEngine`, `LiveSession`; then `Wfo`, `Training`,
`WindowRunners`, `AbSentiment`, `Clearance`, `Promotion`; then `DataClients`, `Screener`,
`NewsScores`, `Research`; `StreamManager` stands alone.

## 1. The system

    bars ──► strategy ──intent──► RiskManager.validate ──qty──► broker
               ▲                   │tracker │breaker              │
               └────── fill events ─┴────────┴────────────────────┘

The same three objects (strategy, risk manager with tracker and breaker, broker) are
driven by two engines: `BacktestEngine.run`, a sequential loop over rows, and
`run_paper.py`, one asyncio loop with a bar consumer and two reconnecting streams.
Whether the second may start at all is decided by files that `run_wfo` writes. Before all
that, four programs fill a DuckDB file and choose universes:

    providers ──► sync_data, score_news, run_screener, build_universe ──► bars, scores, universes
                                                                              │
                             run_backtest: windows ─► train ─► judge ◄────────┘
                                              │
                                     results files ──► run_paper

| Component | Source | State | Operations | Hard part |
|---|---|---|---|---|
| CircuitBreaker | `src/risk/circuit_breaker.py` | halted, peak and opening equity, loss streak, day P&L | start_of_day, on_equity_update, on_trade_closed, reset | order of calls, falsy zero, idle days |
| ExposureTracker | `src/risk/exposure_tracker.py` | positions, equity | on_fill, sync_from_api, reads | signs and crossings of zero, overwrite by a re-sync |
| RiskManager | `src/risk/manager.py`, `kelly.py` | references to the two above | validate, on_fill, on_new_day | seven steps in order, on books that lag orders |
| MomentumLightGBM | `src/strategies/momentum_lightgbm.py` | bar buffers, own positions | on_bar, on_trade_update | keeps books of its own |
| MeanReversionZScore | `src/strategies/mean_reversion.py` | the same, and bars held | on_bar, on_trade_update | a counter fed by bars and cleared by fills |
| CrossSectionalReversion | `src/strategies/xsec_reversion.py` | the same, signals of the day, frozen target | on_bar with the day roll, on_trade_update | a ranking that must not be of a day still arriving |
| SimulatedBroker, BacktestEngine | `src/backtest/engine.py` | cash, positions, pending orders; the row loop | submit, fill_at_open, mark; run | order of fill, decision, mark; lead-in boundary |
| Live session | `scripts/run_paper.py`, `src/execution/broker.py` | tasks of one event loop | startup resync, consume_bars, execute_intent, resync | every await is a race |
| StreamManager | `src/execution/stream_manager.py` | started flag, one reconnect loop per endpoint | start, reconnect loops, event handlers | drops, backoff, single connection |
| Walk-forward optimization | `src/backtest/wfo.py`, `scripts/run_backtest.py` | window, accumulated metrics, artifacts | make_windows, run_wfo; lead-in slicing, training, evaluation | off-by-ones that leak the future, gates, exceptions in the middle |
| Features, labels, models | `src/signals/`, `scripts/train_lgbm.py` | none (artifacts on disk) | compute_features, triple_barrier_labels, temporal_split, fit | what a row has read, backwards and forwards |
| Paper clearance | `scripts/run_paper.py:47-59` | the results directory | run_wfo writes, load_clearance reads | which file is the last one |
| Data clients and storage | `src/data/alpaca_data.py`, `polygon_client.py`, `models.py`, `storage.py`, `scripts/sync_data.py` | a fetch's pages and tries; two tables | fetches, inserts, reads | failures between pages, strict or skipping validation |
| Screener and universe | `src/data/screener.py`, `universe_builder.py`, `scripts/run_screener.py`, `build_universe.py` | universe files | sync days, filter, rank, write | ties, two caps, days committed newest first |
| Sentiment | `scripts/score_news.py`, `ab_sentiment.py`, `src/signals/*sentiment*.py` | scores per day | cap, score, lagged lookup, A/B comparison | the day whose news a bar may see |

Partly or not modelled, and why:

* `reset()` of the strategies and `cancel_order` of the broker: nothing in `src/` calls
  them.
* The sentiment providers and their Redis cache (`llm_sentiment.py`,
  `finbert_sentiment.py`, `sentiment_factory.py`): `run_paper.py:111` builds one and
  nothing in `src/` calls its `get()` ("consumed by the news pipeline when it lands",
  `run_paper.py:132`), so there is no caller whose interleavings could be modelled.
* Indicator formulas, the z-score generator, the fitted LightGBM and HMM models:
  floating-point functions; what they yield is an input of the models. The shift, the
  warmup and the gap check around them are in `Training`.
* Statistics (`metrics.py`, `bootstrap.py`, `ic.py`, `long_short.py`, `vol_target.py` and
  their scripts): functions over series of floats, without state.
* Configuration: `load_universe` is modelled; the validators of `load_config` keep no state,
  and what they reject is assumed away by the named ASSUMEs on the constants, nothing else.
* Monitoring: formatting and HTTP; that one alert is sent per halt is in `CircuitBreaker`.
* Stage 1 of the screener (`apply_static_filters`) and `fetch_active_symbols` are the constant
  `Assets`; the synthetic dry run changes nothing.

What makes each component correct, in words:

* the breaker halts exactly when one of its three documented conditions has held since
  the last manual reset, says so once, and nothing but that reset lifts the halt;
* the tracker is a ledger of the fills since the last sync;
* nothing reaches a broker that is not a reduction or inside every cap of the books of
  that moment;
* the strategy's, the tracker's and the broker's positions agree when a bar is decided;
* a long-only strategy makes whole trades, never short, and a decision never fills on
  the bar that caused it;
* the live tracker can be wrong only in the races that section 4 names;
* an endpoint is reconnected for ever, after waits that double up to a cap;
* no optimizer sees a bar it is judged on, and a clearance is earned on the whole walk;
* a model is judged only by days that no row it was fitted on has read, and labels tell
  the outcome of the trade they stand for;
* a session starts only on the last verdict of its own strategy, and only a walk that
  ended writes one;
* rows are committed one by one, but only of fetches that ended, oldest first, and a program
  that ends well has stored all that it was to fetch, whatever earlier ones left in part;
* a universe leaves out a symbol only for better ones, and a bar sees only older news;
* every research program comes to an end.

The hazards behind these, each at its line, are the `hazards` of `PROJECT.json`.

## 2. Modules

| Module | Models | Shape |
|---|---|---|
| `Common`, `Market` | None, integer helpers, orders and fills | operators |
| `CircuitBreaker` | the breaker's methods | operators from record to record |
| `BreakerLife` | a breaker under any sequence of calls, with the history of calls | state machine |
| `ExposureTracker` | the tracker's critical sections | operators |
| `Ledger` | abstract: per symbol the shares and their cost, money booked on reductions | state machine |
| `TrackerLife` | a tracker under fills and re-syncs; implements `Ledger` | state machine |
| `RiskManager` | validate() and both callbacks, over tracker and breaker | operators |
| `MomentumStrategy` | buffer, own positions, decision | operators |
| `SimulatedBroker` | queue, fill at open, settlement, marks | operators |
| `TradeLifecycle` | abstract: flat, entering, long, leaving, flat | state machine |
| `MeanReversion`, `XsecReversion` | ages, veto, time stop; day roll, ranking, frozen target | operators |
| `StrategyClasses` | the three classes behind the abstract interface of `base.py` | operators |
| `BacktestEngine` | composes gate, strategy of any class and broker; implements `TradeLifecycle` | state machine |
| `LiveSession` | the same gate and the momentum strategy on the event loop, with a broker and streams that fail | state machine |
| `StreamManager` | the reconnect loops | state machine with fairness |
| `Wfo` | windows, walk, gates | state machine |
| `Training` | usable rows, labels, stacking, split, fit | operators |
| `WindowRunners` | `run_backtest` around `Wfo`: each action is one of `Wfo`'s with more conjuncts | state machine |
| `AbSentiment` | `ab_sentiment` over the same store | one action |
| `StrategyNames`, `Clearance` | results directory and paper starts | state machine |
| `Promotion` | composes walks, comparison, files and paper starts | state machine |
| `DataClients` | one fetch: pages, tries, validation | state machine |
| `Screener`, `NewsScores` | both universes; headlines to scores to the lagged lookup | operators |
| `Research` | composes the four programs with the fetches, the tables and the files | state machine with fairness |
| `MC*` | instances for TLC | |
| `FiniteTheorems` | lemmas about finite sets, sums, orders and loops; knows nothing of the program | theorems |
| `RiskTheorems` | lemmas and one theorem about the gate and the tracker | theorems |
| `*Proofs` | theorems of the module they extend (`ClientProofs` of both `StreamManager` and `Research`) | theorems |

An object of the code is a record, a method is an operator from the record before the
call to the record after it, and the module of an engine keeps those records in its
variables. So the gate that is checked in a backtest and in the live loop is one
definition, as it is one class in the code. A definition whose comment says *wrong on
purpose* is never used by a specification: it is the plausible bug that a property must
catch, listed under `mutants`.

How actions correspond to code:

* **BacktestEngine.** `NewTimestamp` is the day boundary of the loop, `OpenBar` takes a
  row, `FillOrder` is one order of `fill_at_open` with its callbacks to strategy and
  risk manager, `CloseBar` is `on_bar`, `validate`, the submission, the mark and the
  equity point, `Finish` is `_results`. Nothing interrupts a row in the code; it is
  split so that the states between its steps are visible to invariants. Rows of one
  timestamp come in any order, because the sort key does not contain the symbol.
* **LiveSession.** An action is what one task does between two awaits. `GetPositions`
  and `SyncTracker` are the two halves of `resync`; `Connect`, `Drop`, `Reconnect` the
  stream loop; `DeliverFill` the trade-update handler; `ConsumeBar`,
  `ConsumeFirstBarOfDay`, `OpenDay`, `OrderAccepted` the consumer with its awaits on
  `get_account` and `submit_order`; `UncaughtFailure` and `StopSignal` the end of a
  session; `Start` the construction of everything anew. `Execute`, `Lapse` and
  `PublishBar` are the broker and the exchange, modelled from the calls and events the
  code handles.
* **BreakerLife, TrackerLife.** One action per public method, any order.
* **StreamManager.** One action per outcome of an attempt; time is only "lasted longer
  than the cap or not", which is all the code asks.
* **Wfo, WindowRunners.** `StartWfo` is the beginning of `main`, with its refusal when news
  are missing; `CutWindows`, `TrainWindow`, `RunIs`, `RunOos` and `Conclude` are the calls of
  `run_wfo`. Each may raise what the code raises there (`Raise`): no window fits, a gap after
  the warmup, no training row, a model without a positive class. What an evaluation returns
  is arbitrary.
* **DataClients, Research.** `Ask` sends a request, `AskAgain` is a retry, `TurnPage` and
  `Deliver` take a page and the end of a fetch, `Abort` is any exception of it (transport, 4xx,
  last retry, a bad bar in a strict fetch), which nothing catches. `InsertBar` and `InsertScore`
  are one execution of `executemany` each: there is no transaction around the rows
  (`storage.py:60`, `:85`), so each is committed by itself, in the order of the list, which is
  that of the days. `Interrupt` ends the program before, between or after them, and the committed rows stay. `Finish` ranks and writes the file. `Overnight` lets the provider revise its
  adjusted prices between two programs. One program runs at a time because DuckDB lets one
  process open the file.
* **Clearance.** `RunWfo` writes `<strategy>_<second>.yaml`, `StartPaper` reads the last
  of the sorted glob.

### Abstractions

* Money is whole ticks and thresholds are whole percentages; comparisons with a
  percentage are multiplied out and exact. Shares are whole and an order is rounded
  down; the code trades fractions, so the model's orders are never larger.
* A weighted average is `\div`. Instances choose the tick so that it is exact; where it
  is not, `KeepsLedger` would fail.
* What features, generator and regime detector yield for a full buffer is an input
  (`Readings`), so no property rests on what a model predicts.
* In `LiveSession` shares cost one price and Redis is a reliable queue while a session is
  up; a bar that is lost there is a bar that was never published. Equities that the
  account answers may differ between two answers.
* `StreamManager!FloatMaxExp` is the attempt at which `2**n * float` overflows.
* In `Training` a bar has the day, low, high, close and whether some indicator has no value
  there; barriers have a fixed width in ticks, where the code scales them by the volatility.
* In `Screener` medians and average ranks are doubled to stay whole; a bar's range is a whole
  percentage, rounded down. Momenta are compared as quotients, exactly.
* Spans of news and bars are whole days; a headline is its day and its score.
* Prices are revised between programs, not within one.
* The list that a program inserts is in the order of days; in which order the symbols of one day
  come is left open. The writing of a universe file is one step (`write_text` is not atomic; a
  torn file is not modelled).
* A gap of an indicator is a NaN. The check after the warmup (`features.py`) looks at rows that are
  not finite; infinities, which can come from a division by a zero price or volume, are not modelled.
* Logging, alert texts, field conversions of the SDK and the ratios of
  `backtest/metrics.py` are left out.

## 3. Runs

| Run | Asks | Instance, and why it is enough |
|---|---|---|
| `breaker` | Is the breaker halted exactly when the history of calls says so, with one alert that names the first breach? | All histories of 6 calls; two losing days need five calls (day, trade, day, trade, day), which leaves one for an idle day, a reset or an equity. Equities lie on both sides of both floors, with a zero (falsy) and a negative one. |
| `tracker_ledger` | Do incremental averages, closes and crossings of zero keep a ledger? | Four fills of 1 or 2 shares at two prices reach every branch in both directions, and re-syncs (with and without a market value) come in between. |
| `backtest` | All properties of a backtest at once, for the three strategy classes. | Five days, two symbols, a lead-in of one day, one warmup bar: an entry, an exit and a second entry of one symbol beside a trade of the other. Caps are tight enough that total, sector and correlation step each decide some order. Prices move 20 per cent so that breakers trip. Time stop and rebalance come after two bars, so that both fall into the span. |
| `live` | When is the live tracker right, and what do submitted orders rest on? | One symbol, two sessions, one drop, two bars over two days, partial fills, failing calls: every pair of tasks meets at every pair of awaits. |
| `live_settled` | If bars come only when nothing is under way, do caps, long-only and full exits hold? | Five bars: enter, exit and enter again, with lapsed and partly filled orders. The cap per trade (40 %) is above the cap per position (30 %), so that the latter decides the size of an entry. |
| `streams` | Doubling backoff, reconnection in the end. | Two calls of start(), two outages, four attempts: 1, 2, 4, then the cap 5. |
| `promotion` | Does a verdict rest only on the past, is it earned, and does the last one decide? | Two walks over 12 days in two windows at ratio 2, each with a lead-in; two symbols, one listed late; four databases: busy prices, the same with an indicator gap, prices that only fall (a model without a positive class) and prices that do not move (no training rows). Evaluations on both sides of every gate, two seconds, three real strategy names of which one continues another. |
| `research` | What may an interrupted program leave in the tables and what has one that ends well put there, are universes best, scores old enough, and does every program end? | Three programs in a row in any order; three assets and one other symbol over five days with a weekend, a late listing, bad rows and revised prices; pages of three rows, two tries, batches of two so that the last is not full. A program may be interrupted between any two rows. Universes of two of three with one per sector. |
| `backtest_daily_loss`, `live_short`, `live_restart`, `clearance_prefix` | Expected violations, see below. | |

`CHECK_DEADLOCK FALSE` is set where the system really stops: a backtest, a walk, a full
history, the last session, the last program. The modules' type invariants are stated beside
the variables of each module; `promotion` and `research` check theirs.

**Fairness.** `StreamManager`: an awaited call of a running loop returns or raises, a sleep
ends (both are asyncio's own guarantee), and an outage ends. Nothing makes a connection end
or `start()` be called. `Research`: weak fairness of `Proceed`, one step of the running
program: every request is answered or times out after 30 s (`alpaca_data.py:158`,
`polygon_client.py:127`), sleeps between tries end, and the rest is computation. Nothing
makes a program start. The other modules have no fairness.

**Findings.** Four runs show that the code does something a line of the repository
denies:

1. `backtest_daily_loss`: the daily-loss breaker compares the tracker's realized-only
   equity with an opening equity that was marked to market, and halts after an
   unrealized gain although the account lost nothing.
2. `live_short`: a second exit signal while the first exit order is open sells the same
   shares again.
3. `live_restart`: a new session's strategy does not know the positions the account
   holds, and an exit signal for them yields nothing.
4. `clearance_prefix`: `mean_reversion_*.yaml` also matches the files of
   `mean_reversion_sentiment`, whose verdict then decides.

**Observed without a run of their own** (each was found with the same modules by
dropping one restriction from an instance):

* entries of one timestamp do not see each other's pending orders, so two of them can
  pass the total-exposure step together and fill past the cap (`manager.py:91`);
* live, a second entry signal before the first fill is approved for the full position
  cap again (`manager.py:87`);
* an execution between a resync's read of the positions and the connection of the
  trading stream never reaches the tracker (`stream_manager.py:85-87`);
* after a missed fill the tracker is re-synced and the strategy's positions are not, so
  an exit is asked for another quantity than is held (`run_paper.py:94-98`);
* `2**attempt` meets a float outside the try block and raises OverflowError at attempt
  1024, which ends the loop (`stream_manager.py:78`);
* `build_components` constructs the momentum strategy whatever was cleared
  (`run_paper.py:87`), and passes neither a sector map nor correlations, so steps 6 and
  7 of the gate never reject in production (`run_paper.py:78`).

* `oos_auc` scores the rows of the lead-in too, on which the model of the window was
  trained, although `ab_sentiment.py:7-10` speaks of "untouched out-of-sample rows": with 80
  warmup bars and a longest indicator of 61 some of them are complete (`ab_sentiment.py:136`);
  `ComparisonIsPaired` therefore bounds the scored days from above only;
* `temporal_split` leaves no gap between its parts: the labels of the last training rows look
  into the held-out ones (`train_lgbm.py:31`); `TrainedOnThePast` states what does hold;
* a re-sync of a part of the history leaves the older bars on an older price adjustment
  (`storage.py:60`); `OkMeansSynced` states that the span itself is as it is served when the program ends well;
* rows are inserted without a transaction, so an interruption leaves a span new up to some day and
  old after it (`storage.py:60`, `:85`); for `run_screener`, which works from the newest day
  backwards, it is the older days that are missing; the next run that ends well repairs both;
* `run_screener` writes the key `symbols` and `load_universe` reads `universe`, so its file is
  refused wherever a universe may be given (`run_screener.py:68`, `config.py:165`), and it
  ranks with an empty sector map, so its sector cap never decides (`run_screener.py:138`):
  the part of `ScreenedIsBest` about sectors is about `rank_universe` for the maps of `SectorMaps`,
  applied to each table that is ranked, not about a file that the program writes;
* Polygon's `fetch_bars` never follows pages (`polygon_client.py:63`);
* mean reversion has no time stop on bars without features (`mean_reversion.py:79-81`);
* a candidate without a signal is entered with strength 1.0 (`xsec_reversion.py:158`);
* the sentiment cache's "never sent twice" (`llm_sentiment.py:8-9`) would not hold for
  concurrent misses, after an outage of Redis or after the TTL.

`live_settled` states under which restriction the live hazards do not occur.

## 4. What the deeper properties say

* `HaltedIffBreached` and `AlertNamesFirstBreach` are evaluated on the recorded calls
  alone, without peak, streak or day P&L: they say what those fields have to mean.
* `TrackerExactUnlessRaced` carries a history variable: it becomes false when an
  execution happens while the trading stream is not up, when a drop loses updates, or
  when executions pass between the two awaits of a resync, and true again at a sync
  whose answer is current. The invariant says these are the only ways for the live
  tracker to differ from the account (minus the wire).
* `MoneyAccounted` ties three books together: broker cash, commission and cost basis are
  the tracker's equity, which is the initial capital plus every reported P&L, which are
  the tallies that the optimizer judges by.
* `OrdersAdmissible` is stated on `Admissible`, a declarative reading of the caps, not on
  `Validate`.
* `TargetIsPast` compares the day stamps that ranked signals carry: all of one earlier day,
  whichever symbol of the new day comes first.
* `TrainedOnThePast` is stated on the days that a row's features and label were computed from
  (`ReadBy`), not on the row's own day: a lead-in that is trained on, or a label horizon that
  reaches over the window's end, breaks it.
* `ScreenedIsBest` and `BuiltIsMostLiquid` do not repeat the sort: they say why each symbol
  that was left out was left out.
* `CommitsOldestFirst` says what an interruption can leave: rows of a fetch that passed all its
  pages, retries and validation, and none whose earlier days are still to come. `OkMeansSynced` says what
  the exit of a program vouches for: all of its fetches are in the tables, over whatever earlier
  programs left in part or on other prices. Together with `EveryProgramEnds` they make a re-sync a repair.
* `OnlyConcludedWalksCount` ties the results directory to the walk: no exception, refusal or
  unfinished walk touches it.

## 5. Proofs

All proofs are for arbitrary constants that satisfy the named ASSUMEs; a further hypothesis
is written in the theorem itself and explained here.

| Module | Properties of the runs that it proves |
|---|---|
| `RiskTheorems` | (of the gate and the tracker, used by the next three) `ApprovedIsAdmissible` |
| `BacktestProofs` | `BooksAgree`, `NeverShort`, `OrdersAreWholeTrades`, `FillsAreLater`, `TimeStopBinds`, `TargetIsPast`, `OrdersAdmissible`, `MoneyAccounted`, `TradesAreWhole` |
| `BreakerProofs` | `LongStreakIsHalted`, `OnlyResetResumes`, `HaltedIffBreached`, `AlertNamesFirstBreach` |
| `TrackerProofs` | `EntryPriceWasTraded`, `KeepsLedger` |
| `LiveProofs` | `TrackerExactUnlessRaced`, `SyncedBeforeFirstEvent`, `OrdersAdmissible`, `TrackerCurrentWhenSettled`, `NeverShort`, `PositionWithinCap`, `ExitsPassUnchanged` |
| `ClientProofs` | `BackoffNeverShrinks`, `CommitsOldestFirst`, `OkMeansSynced`, `ScreenedIsBest`, `BuiltIsMostLiquid`, `NewsIsOlderThanBar`, `ResearchTypeOK` |
| `PromotionProofs` | `NoLookahead`, `OosTouchedOnce`, `ClearedMeansEarned`, `OnlyConcludedWalksCount`, `StartsOnLastVerdict`, `TrainedOnThePast`, `LabelsTellOutcome`, `ComparisonIsPaired`, `PromotionTypeOK` |

**Induction over data.** The installed provers cannot instantiate the library's induction
theorems. `FiniteTheorems` does without them: `<` on the naturals is well founded
(`NatLessThanWellFounded`, `WFMin`), so a set of naturals without a gap at its least
counterexample is all of them (`NatSetInduction`), and a family of subsets that is closed under
one more element has every finite set (`FiniteSetInduction`). From these follow
the least and the greatest member, that an image of a finite set is finite, the sums of a
finite set (one more element, congruence, change of one value, first and last summand), that a
rank by a strict order is an injection into as many places and so leaves none empty
(`PlacesTaken`, `ListsAll`), and that a loop written as a recursive function exists and keeps
what every one of its steps keeps (`LoopExists`, `LoopKeeps`). What a RECURSIVE operator
computes stays out of reach; the models that are proved about declare none.

**`RiskTheorems`.** `ApprovedIsAdmissible` goes through the seven steps of `validate`:
the cap of every step is kept by the later ones, because each only takes shares off. The other
lemmas say what `on_fill` does to one position and what the equity of a tracker is a sum of.

**`BacktestProofs`.** None of the safety properties is inductive. `IInv` adds: the types of
the books (`Typed`), that a queue holds orders of its own symbol (`QueuesMatch`, the code's
selection from one list), and `OrdersAreOld`: an order of the current timestamp belongs to
a symbol that has had its row, which is why a fill is never of the bar's own timestamp.
The three safety properties need each other: an exit is for the whole position because
strategy and broker agree (`BooksAgree`), the position cannot become negative because the
one pending order is whole (`OrdersAreWholeTrades`), and the queue has one order because it
is empty when a row is decided. The gate enters through two lemmas: an approved exit is the
exit that was asked for (`ExitSize`), an approved entry is not negative (`EntrySize`),
whatever Kelly and the caps compute. `FillShape` and `CloseShape` say what a fill and the
end of a row do to the broker, and serve both the invariant and the refinement. All hold for
every class of strategy: the lemmas about `OnBar` and `OnFill` split on the class once.
`TimeInv` adds to the time stop that nothing is held before the evaluation span and that only a
halt silences an exit that is due; `RankInv` adds to the past target that all recorded signals
are of the day of the last roll, which is not later than the engine's. `MoneyAlwaysAccounted`
follows one fill through three books: what leaves the cash is the cost that enters the tracker
and the commission that enters the tallies, position by position and so in the sums.

**`BreakerProofs`** treats call sequences of any length. The properties speak of the recorded
calls alone, so `HistoryInv` says what each field means in terms of them: the peak is the
maximum since construction or the last reset (`PeakMeans`), the opening equity that of the last
start of a day (`OpeningMeans`), the day's result the sum of its trades (`TodayMeans`), the
streak the losses since the last gain (`StreakMeans`). Each method then extends a history by one
call, and the theorems compare what it checks with what the longer history says. Both assume
`MaxDrawdownPct # 0`: with a limit of 0 a peak of 0 is falsy (`circuit_breaker.py`), so the first
negative equity is not compared with it and the field ceases to mean the maximum.
The configuration's limit is 15 per cent.

**`TrackerProofs`.** `EntryPricesWereTraded` needs that an average of two prices within a range
is in it, rounding included. `TrackerIsALedger` is the refinement of `Ledger`, and is stated
under `AverageExact`: whenever an average is taken it is a whole number of ticks. That is no
assumption about the code but about the unit of money: the code's averages are not rounded to
ticks, and where the model rounds, money is created or lost.

**`LiveProofs`** covers any number of bars, drops, sessions and interleavings. `SessionInv` has
four layers: types (`Typed`); where the tasks may be at the same time, what is queued and what
was synced (`Life`); that orders and fills are at the price of the model (`AtPrice`); and
`Books`: what the tracker holds plus what is on the wire is what the account holds, unless the
history variable says it was raced, and what a resync holds in its hands between its two awaits
is the account's position at the first of them. From it follow `TrackerExactUnlessRaced`,
`SyncedBeforeFirstEvent` and, with `ApprovedIsAdmissible`, `OrdersAdmissible`.
The four other theorems are about `Calm`: no drops, one session, and bars published only when
nothing is under way (`OnlyWhenSettled`). That hypothesis is the finding, not a convenience: the
runs `live_short` and `live_restart` show `NeverShort` and its companions fail without it.
`CalmInv` adds that strategy and account agree once fills are delivered (`Aligned`), that at
most one order is anywhere between decision and settlement (`OneAtATime`), and that every
position is covered by an equity the account has shown (`Covered`).

**`ClientProofs`, the streams.** `BackoffAlwaysDoubles` needs that powers of two double, which is
proved from the number of subsets of a set (`FS_SUBSET` of the library), and `BackoffAssumption`:
the bound on attempts is large enough to reach the cap.

**`ClientProofs`, the research programs.** For any finite market, any number of programs, any
page size, number of tries and failures; the assumptions are the shape of what the providers
serve (`ClientsAssumption`), that published news are never revised, and that the absent value
`None` is no exit code (`ResearchAssumption`). `ProgramInv` says where a
program is: what it still has to fetch is the tail of what it planned when it began (`JobInv`,
`Planned`), and what a fetch has got is exactly the valid rows of its earlier pages (`FetchInv`).
The pages of one request are disjoint and together are all its rows (`PagesAddUp`), hence what
is delivered at the end is whole (`GotIsWhole`). From there it goes to the table row by row, so
`TablesInv` speaks of what is still to be inserted (`left`): of every finished fetch of the program, the
table has each bar as it was served unless it is among those (`SyncedSoFar`; `ScoredSoFar` for the days of
news), and those are rows of the last fetch. A row is taken from `left` only when no older one is in it, which
with `SyncedSoFar` is `CommitsOldestFirst` (`CommitShape`, `StepCommits`); a program ends well
only when `left` is empty, which is `OkMeansSynced` (`StepOkSynced`). For `build_universe`, `TablesInv` says
the same of what the program holds. So at the moment a file is written everything it rests on
is there. That the file holds the best is then about the operators:
`RankedShape` says a sorted list has every candidate once and leaves none below a worse one;
`GreedyInv` is the loop of `rank_universe` with its cap per sector, `GreedyStep` one turn of it,
and `RankUniverseShape` what comes out: whoever was passed over is worse than all that were taken
or found its sector full. `NthValueType` and `MedianType` say that the
medians of `build_universe` exist, `BuiltHistory` that they are taken over the valid rows of one
edition, `LiquidShape` that the cut leaves out only the less liquid. `StoredInv` says that a stored
score is the mean of the earliest headlines of its whole day, `CapIsEarly` that the loop which
caps the headlines keeps just those; `NewsIsOlderThanBar` follows, since a lookup asks for the day before.

**`PromotionProofs`** begins with a walk: `IInv` gives `NoLookahead`,
`OosTouchedOnce` and `ClearedMeansEarned`, for every number of bars and windows. It
says that what is judged so far is exactly the first windows, each with the
parameters of its own span, and that a verdict is the conjunction of the gates on the final
totals. `OosLenType` is the arithmetic heart: rounded down, all windows fit.
Then the results directory, for any strategies, verdicts and times:
`PaperInv` says that the newest file of a strategy has the verdict of its last run and that
no file is of a later second than the clock; both are needed, since a run overwrites the file
of its own second and must find all others older. `LatestIsNewest` then says what
`load_clearance` reads: among files of one name, the last in the order of names is the newest.
Last, the composition. A step of `Promotion` is, for the
walk, a step of `Wfo`, a fresh start or nothing (`PromotionStepsWalk`), and for the results
directory a step of `Clearance` or nothing (`PromotionStepsPaper`), so `IInv` and `PaperInv`
hold together, `PromotionSpec` implements `PaperSpec`, and the properties of a walk,
`OnlyConcludedWalksCount` and `StartsOnLastVerdict` hold of walks that fail, follow each
other and run beside sessions. That a walk which files a verdict has judged all its windows is where
`IInv` enters.
`DataInv` is about what a walk is trained on. `RunnerInv` says that the artifact of window k is
the fit on the k-th in-sample span, and that the judged windows are the first ones, each with
the artifact of its own span; `AbInv` says the same of the two arms of the sentiment comparison,
window by window. `TrainedOnThePast` then needs the shape of one fit: the frames are in the
order of days (the primary key of the store and its ORDER BY, an assumption on the constant
`Histories`), so the rows of a span are a run of the frame (`RunOfDaysShape`), the rows that are
stacked are placed by rank, the rank is an injection into as many places and so leaves none
empty (`StackedIsSorted`), and a cut of a list in the order of days divides it into earlier and
later days (`SplitIsChronological`). `LabelsTellOutcome` compares the scan for the first barrier
that is touched with the declarative outcome (`LabelTells`). `ComparisonIsPaired` rests on
`AlikeFrames`: the frames with and without news agree in every column that selects or labels a
row, so both arms keep the same days and the same labels.

Only model-checked: the liveness properties `KeepsReconnecting` and `EveryProgramEnds`, because
fairness and ENABLED are outside the provers. Every other property of a passing run is
stated by a theorem.

## 6. Plan

Done, in this order: breaker and tracker, gate, backtest with its two abstract
specifications, live session, streams, walk-forward optimization, clearance, their proofs;
then the reversion strategies with their proofs, the runners with training and labels,
`Promotion` with its proofs, the research programs; then the proofs of the breaker's history,
the tracker's ledger, the money of a backtest, the live session, the training data and the
comparison.

Then `Research`: what a fetch delivers, what the tables hold, both universes and the news.

Next: an abstract specification of the session (an account that is shown to a strategy late) and
of the tables (a map that a re-sync repairs, whatever interruptions left), each with its
refinement proved; the statistics of `backtest/bootstrap.py` if a property of them is worth a run.
