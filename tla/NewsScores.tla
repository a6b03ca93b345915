-------------------------------- MODULE NewsScores --------------------------------
(****************************************************************************)
(* scripts/score_news.py and the lookup of scripts/run_backtest.py: from    *)
(* headlines to the score that vetoes an entry.  Both are pure.  A headline *)
(* is [day, score]: the UTC date on which it was published and what the     *)
(* classifier makes of it.  The news of a symbol come in the order of time. *)
(****************************************************************************)
EXTENDS Common, Sequences, FiniteSets, FiniteSetsExt, Functions

CONSTANTS
    MaxPerDay,      \* llm.max_headlines_per_day
    LookbackDays    \* sentiment_lookback_days

Headlines == [day : Nat, score : Int]

ASSUME NewsAssumption == MaxPerDay \in Nat \ {0} /\ LookbackDays \in Nat

\* cap_by_day: positions of the headlines of day d that are scored, from a set of
\* positions.
Cap(news, fetched, d) ==
    LET Keep(kept, i) ==
            IF i \in fetched /\ news[i].day = d /\ Cardinality(kept) < MaxPerDay
            THEN kept \union {i} ELSE kept
        after[i \in 0..Len(news)] == IF i = 0 THEN {} ELSE Keep(after[i - 1], i)
    IN  after[Len(news)]

SumOfScores(news, positions) == SumFunctionOnSet([i \in DOMAIN news |-> news[i].score], positions)

\* The mean of a day, as a sum and a number of headlines; None without headlines.
DayScore(news, fetched, d) ==
    LET kept == Cap(news, fetched, d)
    IN  IF kept = {} THEN None
        ELSE [sum |-> SumOfScores(news, kept), n |-> Cardinality(kept)]

Neutral == [sum |-> 0, n |-> 1]

\* Wrong on purpose: the day of the bar counts.
LookupSameDay(table, d) ==
    LET window == {e \in DOMAIN table : table[e] # None /\ e <= d /\ e >= d - LookbackDays}
    IN  IF window = {} THEN Neutral ELSE table[Max(window)]

\* build_sentiment_fn: `table` holds the stored days of a symbol, None elsewhere.
Lookup(table, d) ==
    LET window == {e \in DOMAIN table : table[e] # None /\ e < d /\ e >= d - LookbackDays}
    IN  IF window = {} THEN Neutral ELSE table[Max(window)]
=============================================================================
