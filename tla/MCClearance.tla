------------------------------ MODULE MCClearance ------------------------------
EXTENDS Clearance

CONSTANTS momentum_lightgbm, mean_reversion, mean_reversion_sentiment

MCContinuations ==
    [s \in Strategies |-> IF s = mean_reversion THEN {mean_reversion_sentiment} ELSE {}]
=============================================================================
