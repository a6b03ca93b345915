----------------------------- MODULE MomentumStrategy -----------------------------
(****************************************************************************)
(* src/strategies/momentum_lightgbm.py: a strategy record holds, per        *)
(* symbol, how many bars are buffered and the net quantity its own fills    *)
(* add up to (the strategy never reads the tracker).  What a full buffer    *)
(* yields is an input, a reading:                                           *)
(*    [complete, signal, regime]                                            *)
(* whether the features are finite, the generator's signal in percent, and  *)
(* the detector's regime (None without a detector).                         *)
(****************************************************************************)
EXTENDS Market

CONSTANTS
    Universe,          \* strategy.universe
    WarmupBars,        \* strategy.warmup_bars
    SignalThreshold,   \* strategy.signal_threshold * 100
    HostileRegimes     \* strategy.hostile_regimes

ASSUME StrategyAssumption ==
    /\ Universe \subseteq Symbols
    /\ WarmupBars \in Nat \ {0}
    /\ SignalThreshold \in 1..100
    /\ None \notin HostileRegimes

Strategies == [buffered : [Symbols -> 0..WarmupBars], positions : [Symbols -> Int]]

NewStrategy == [buffered |-> [s \in Symbols |-> 0], positions |-> [s \in Symbols |-> 0]]

\* The buffer keeps the last warmup_bars bars.
BufferBar(strategy, bar) ==
    IF bar.symbol \notin Universe \/ strategy.buffered[bar.symbol] = WarmupBars
    THEN strategy
    ELSE [strategy EXCEPT !.buffered[bar.symbol] = @ + 1]

\* Wrong on purpose: sells are counted like buys.
OnTradeUpdateUnsigned(strategy, fill) ==
    [strategy EXCEPT !.positions[fill.symbol] = @ + fill.qty]

OnTradeUpdate(strategy, fill) ==
    [strategy EXCEPT !.positions[fill.symbol] = @ + Signed(fill)]

----------------------------------------------------------------------------

EntryIntent(bar, signal) ==
    [symbol |-> bar.symbol, side |-> "buy", qty |-> 1, strength |-> signal, price |-> bar.close]

ExitIntent(bar, held, signal) ==
    [symbol |-> bar.symbol, side |-> "sell", qty |-> held, strength |-> signal, price |-> bar.close]

\* Wrong on purpose: an exit signal is acted on without shares.
DecideExitWhenFlat(strategy, bar, reading) ==
    LET held == strategy.positions[bar.symbol]
    IN  IF held = 0 /\ reading.regime \notin HostileRegimes /\ reading.signal >= SignalThreshold
        THEN EntryIntent(bar, reading.signal)
        ELSE IF reading.signal <= -SignalThreshold THEN ExitIntent(bar, held, reading.signal)
        ELSE None

\* Wrong on purpose: a held symbol is bought again.
DecideEntryWhenLong(strategy, bar, reading) ==
    LET held == strategy.positions[bar.symbol]
    IN  IF reading.regime \notin HostileRegimes /\ reading.signal >= SignalThreshold
        THEN EntryIntent(bar, reading.signal)
        ELSE IF held > 0 /\ reading.signal <= -SignalThreshold
        THEN ExitIntent(bar, held, reading.signal)
        ELSE None

\* _decide: a hostile regime blocks entries only; a short position is left alone.
Decide(strategy, bar, reading) ==
    LET held   == strategy.positions[bar.symbol]
        enters == /\ held = 0
                  /\ reading.regime \notin HostileRegimes
                  /\ reading.signal >= SignalThreshold
        exits  == held > 0 /\ reading.signal <= -SignalThreshold
    IN  IF enters THEN EntryIntent(bar, reading.signal)
        ELSE IF exits THEN ExitIntent(bar, held, reading.signal)
        ELSE None

\* on_bar's answer; `strategy` already holds the bar.
Intent(strategy, bar, reading) ==
    IF \/ bar.symbol \notin Universe
       \/ strategy.buffered[bar.symbol] < WarmupBars
       \/ ~reading.complete
    THEN None
    ELSE Decide(strategy, bar, reading)
=============================================================================
