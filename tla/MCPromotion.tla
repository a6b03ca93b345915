------------------------------- MODULE MCPromotion -------------------------------
EXTENDS Promotion

CONSTANTS momentum_lightgbm, mean_reversion, mean_reversion_sentiment

MCContinuations ==
    [s \in Strategies |-> IF s = mean_reversion THEN {mean_reversion_sentiment} ELSE {}]

MCReturns == {-3, 3, 9}

\* Days first..11; `wide` days reach both barriers.
Frame(first, Close(_), wide, gaps) ==
    [t \in 1..(12 - first) |->
        LET day   == first + t - 1
            reach == IF day \in wide THEN 3 ELSE 1
        IN  [day |-> day, close |-> Close(day), low |-> Close(day) - reach,
             high |-> Close(day) + reach, gap |-> day \in gaps, news |-> FALSE]]

Busy(day)    == 20 + ((7 * day) % 5)
Rising(day)  == 20 + day
Falling(day) == 60 - 3 * day
Flat(day)    == 20

\* A busy market with a late listing, where a symbol lacks the news of one day;
\* the same with a gap and news of one symbol only; prices that only fall;
\* prices that do not move.
MCHistories ==
    {[bars |-> <<Frame(0, Busy, {3, 7}, {}), Frame(2, Rising, {6}, {})>>,
      news |-> <<(0..11) \ {5}, {6}>>],
     [bars |-> <<Frame(0, Busy, {3, 7}, {8}), Frame(2, Rising, {6}, {})>>, news |-> <<{1, 4, 8}, {}>>],
     [bars |-> <<Frame(0, Falling, {}, {})>>, news |-> <<{3}>>],
     [bars |-> <<Frame(0, Flat, {}, {})>>, news |-> <<{3}>>]}
=============================================================================
