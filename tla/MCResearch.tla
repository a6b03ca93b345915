------------------------------- MODULE MCResearch -------------------------------
EXTENDS Research

CONSTANTS tech, energy

Bar(close, volume, reach) ==
    [open |-> close, high |-> close + reach, low |-> close - reach, close |-> close,
     volume |-> volume, vwap |-> None]

\* Day 3 is on a weekend.  Symbol 1 rises, 2 falls and has more volume, 3 is listed
\* late and, in the second edition, has rows that no validation lets pass; 4 is no
\* asset that may be traded.
Bars(scale, high, vwap) ==
    [key \in {k \in (1..4) \X {1, 2, 4, 5} :
                /\ k[1] = 3 => k[2] >= 2
                /\ k[1] = 4 => k[2] = 5} |->
        LET s == key[1] d == key[2]
        IN  CASE s = 1 -> Bar(scale * (20 + 2 * d), 3, scale)
              [] s = 2 -> Bar(40 - d, 4, 2)
              [] s = 3 -> [Bar(30, 3 * d, 1) EXCEPT !.high = IF d = 4 THEN high ELSE @,
                                                !.vwap = IF d = 5 THEN vwap ELSE @]
              [] OTHER -> Bar(100, 100, 0)]

MCNews ==
    [s \in 1..4 |->
        IF s = 1 THEN <<[day |-> 1, score |-> 5], [day |-> 4, score |-> -3],
                        [day |-> 4, score |-> 9], [day |-> 4, score |-> 7]>>
        ELSE IF s = 2 THEN <<[day |-> 2, score |-> -8]>> ELSE <<>>]

MCFeeds ==
    <<[bars |-> Bars(2, 31, 30), news |-> MCNews],
      [bars |-> Bars(1, 29, NaN), news |-> MCNews]>>

MCUniverse == <<1, 2>>

MCSpans == {1..5, 4..5}

MCSectorMaps ==
    {[s \in 1..4 |-> None], [s \in 1..4 |-> tech], [s \in 1..4 |-> IF s = 1 THEN tech ELSE energy],
     [s \in 1..4 |-> IF s = 1 THEN None ELSE energy]}
=============================================================================
