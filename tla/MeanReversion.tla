----------------------------- MODULE MeanReversion -----------------------------
(****************************************************************************)
(* src/strategies/mean_reversion.py: buy oversold, sell at the mean or at   *)
(* the time stop.  Its buffer and its own positions are those of the        *)
(* momentum strategy; the record has one more field, barsHeld, and a        *)
(* reading one more, the lagged news sentiment in percent (0 without a      *)
(* sentiment function: the code then has no veto).                          *)
(****************************************************************************)
EXTENDS MomentumStrategy

CONSTANTS
    EntrySignal, ExitSignal,   \* mean_reversion.entry_signal, exit_signal, * 100
    MaxHold,                   \* max_hold_bars, of both reversion strategies
    SentimentVeto              \* sentiment_veto * 100, of both

ASSUME ReversionAssumption ==
    /\ EntrySignal \in Int /\ ExitSignal \in Int /\ SentimentVeto \in Int
    /\ MaxHold \in Nat \ {0}

Warm(strategy, s) == s \in Universe /\ strategy.buffered[s] = WarmupBars

\* Every bar that finds the symbol held counts, complete features or not.
AgeHolding(strategy, bar) ==
    IF Warm(strategy, bar.symbol) /\ strategy.positions[bar.symbol] > 0
    THEN [strategy EXCEPT !.barsHeld[bar.symbol] = @ + 1]
    ELSE strategy

\* on_trade_update: a holding that ends forgets its age.
ReversionOnFill(strategy, fill) ==
    LET filled == OnTradeUpdate(strategy, fill)
    IN  IF filled.positions[fill.symbol] <= 0
        THEN [filled EXCEPT !.barsHeld[fill.symbol] = 0]
        ELSE filled

Vetoed(reading) == reading.sentiment < SentimentVeto

\* Wrong on purpose: the time stop is one bar late.
TimedOutLate(strategy, s) == strategy.barsHeld[s] > MaxHold

TimedOut(strategy, s) == strategy.barsHeld[s] >= MaxHold

\* on_bar's answer; news vetoes entries only, and without features there is no
\* answer, time stop or not.
ReversionIntent(strategy, bar, reading) ==
    LET held   == strategy.positions[bar.symbol]
        enters == held = 0 /\ ~Vetoed(reading) /\ reading.signal >= EntrySignal
        exits  == held # 0 /\ (reading.signal <= ExitSignal \/ TimedOut(strategy, bar.symbol))
    IN  IF ~Warm(strategy, bar.symbol) \/ ~reading.complete THEN None
        ELSE IF enters THEN EntryIntent(bar, reading.signal)
        ELSE IF exits THEN ExitIntent(bar, held, reading.signal)
        ELSE None
=============================================================================
