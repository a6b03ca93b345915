----------------------------- MODULE XsecReversion -----------------------------
(****************************************************************************)
(* src/strategies/xsec_reversion.py: hold the TopN most oversold names of   *)
(* the last rebalance's ranking.  Beyond the fields of mean reversion the   *)
(* record holds the day the strategy is at (0 is None), the day count, the  *)
(* signals of the day in the order in which they came, and the target.      *)
(* Signals and targets carry the timestamp of their ranking, which the code *)
(* knows but does not keep.                                                 *)
(****************************************************************************)
EXTENDS MeanReversion, Sequences, FiniteSets

CONSTANTS
    TopN,             \* cross_sectional.top_n
    RebalanceEvery    \* cross_sectional.rebalance_every_bars

ASSUME CrossSectionAssumption == TopN \in Nat /\ RebalanceEvery \in Nat

Ranked == [symbol : Symbols, signal : -100..100, day : Nat]

\* The names that fewer than TopN others precede: higher signals do, and of equal
\* ones the earlier (sorted() is stable, in reverse too).
BestOf(signals) ==
    LET before(i) == {j \in DOMAIN signals :
                         \/ signals[j].signal > signals[i].signal
                         \/ signals[j].signal = signals[i].signal /\ j < i}
    IN  {signals[i] : i \in {k \in DOMAIN signals : Cardinality(before(k)) < TopN}}

RebalancesOn(dayCount) == RebalanceEvery <= 1 \/ dayCount % RebalanceEvery = 1

\* _roll_day: the first bar ever only sets the day.
RollDay(strategy, timestamp) ==
    IF timestamp <= strategy.day THEN strategy
    ELSE IF strategy.day = 0 THEN [strategy EXCEPT !.day = timestamp]
    ELSE [strategy EXCEPT
            !.day = timestamp,
            !.dayCount = @ + 1,
            !.signals = <<>>,
            !.target = IF RebalancesOn(strategy.dayCount + 1)
                       THEN BestOf(strategy.signals) ELSE @]

\* A signal of the day; a second one of the same symbol replaces the first in place.
Recorded(strategy, bar, timestamp, reading) ==
    LET signal == [symbol |-> bar.symbol, signal |-> reading.signal, day |-> timestamp]
        same   == {i \in DOMAIN strategy.signals : strategy.signals[i].symbol = bar.symbol}
    IN  IF ~Warm(strategy, bar.symbol) \/ ~reading.complete THEN strategy
        ELSE [strategy EXCEPT !.signals =
                IF same = {} THEN Append(@, signal)
                ELSE [i \in DOMAIN @ |-> IF i \in same THEN signal ELSE @[i]]]

\* Wrong on purpose: the day rolls after the bar's own signal was recorded.
XsecOnBarSignalFirst(strategy, bar, timestamp, reading) ==
    IF bar.symbol \notin Universe THEN strategy
    ELSE RollDay(Recorded(AgeHolding(BufferBar(strategy, bar), bar), bar, timestamp, reading),
                 timestamp)

\* What on_bar does to the strategy, in its order.
XsecOnBar(strategy, bar, timestamp, reading) ==
    IF bar.symbol \notin Universe THEN strategy
    ELSE Recorded(AgeHolding(BufferBar(RollDay(strategy, timestamp), bar), bar),
                  bar, timestamp, reading)

InTarget(strategy, s) == \E chosen \in strategy.target : chosen.symbol = s

\* on_bar's answer: without features an entry has full strength, an exit none.
XsecIntent(strategy, bar, reading) ==
    LET held  == strategy.positions[bar.symbol]
        wanted == InTarget(strategy, bar.symbol)
        signalOr(default) == IF reading.complete THEN reading.signal ELSE default
    IN  IF ~Warm(strategy, bar.symbol) THEN None
        ELSE IF held = 0 /\ wanted /\ ~Vetoed(reading)
        THEN EntryIntent(bar, signalOr(100))
        ELSE IF held # 0 /\ (~wanted \/ TimedOut(strategy, bar.symbol))
        THEN ExitIntent(bar, held, signalOr(0))
        ELSE None
=============================================================================
