------------------------------- MODULE MCBacktest -------------------------------
EXTENDS BacktestEngine

CONSTANTS s1, s2

\* A price of 100 moves 20 a day; 1 per cent of slippage is a whole tick.
MCCandles ==
    {[open |-> 100, close |-> 100], [open |-> 120, close |-> 100], [open |-> 100, close |-> 120]}
MCReadings ==
    {[complete |-> TRUE, signal |-> 60, regime |-> None, sentiment |-> 0],
     [complete |-> TRUE, signal |-> -60, regime |-> 0, sentiment |-> 0],
     [complete |-> TRUE, signal |-> 60, regime |-> 1, sentiment |-> -50],
     [complete |-> FALSE, signal |-> 60, regime |-> None, sentiment |-> 0]}

\* News at -50 keeps the reversion strategies out.
MCVeto == -25

\* The optional steps of the gate wired, as no caller does yet: one sector, and
\* a correlation that the provider knows in one direction.
MCTech == [s \in Symbols |-> "tech"]
MCPair == {<<s1, s2>>}
=============================================================================
