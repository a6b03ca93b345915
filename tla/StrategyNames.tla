------------------------------ MODULE StrategyNames ------------------------------
(* The names under which run_backtest and run_paper know the strategies. *)

CONSTANT Strategies     \* run_backtest.STRATEGIES, or some of them
=============================================================================
