---------------------------- MODULE StrategyClasses ----------------------------
(****************************************************************************)
(* The contract of src/strategies/base.py as the engine uses it: three      *)
(* classes behind on_bar and on_trade_update.  One record serves all three, *)
(* and a class leaves alone the fields it does not have.                    *)
(****************************************************************************)
EXTENDS XsecReversion

CONSTANT Classes      \* the classes a backtest may be given

ASSUME ClassesAssumption == Classes \subseteq {"momentum", "mean_reversion", "xsec_reversion"}

StrategyObjects ==
    [class     : Classes,
     buffered  : [Symbols -> 0..WarmupBars],
     positions : [Symbols -> Int],
     barsHeld  : [Symbols -> Nat],
     day       : Nat,
     dayCount  : Nat,
     signals   : Seq(Ranked),
     target    : SUBSET Ranked]

NewObject(class) ==
    [class     |-> class,
     buffered  |-> [s \in Symbols |-> 0],
     positions |-> [s \in Symbols |-> 0],
     barsHeld  |-> [s \in Symbols |-> 0],
     day       |-> 0,
     dayCount  |-> 0,
     signals   |-> <<>>,
     target    |-> {}]

OnBar(strategy, bar, timestamp, reading) ==
    CASE strategy.class = "momentum"       -> BufferBar(strategy, bar)
      [] strategy.class = "mean_reversion" -> AgeHolding(BufferBar(strategy, bar), bar)
      [] strategy.class = "xsec_reversion" -> XsecOnBar(strategy, bar, timestamp, reading)

\* What on_bar returns; `strategy` has already taken the bar in.
IntentOf(strategy, bar, reading) ==
    CASE strategy.class = "momentum"       -> Intent(strategy, bar, reading)
      [] strategy.class = "mean_reversion" -> ReversionIntent(strategy, bar, reading)
      [] strategy.class = "xsec_reversion" -> XsecIntent(strategy, bar, reading)

OnFill(strategy, fill) ==
    IF strategy.class = "momentum" THEN OnTradeUpdate(strategy, fill)
    ELSE ReversionOnFill(strategy, fill)
=============================================================================
