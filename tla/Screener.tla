--------------------------------- MODULE Screener ---------------------------------
(****************************************************************************)
(* src/data/screener.py and src/data/universe_builder.py: which symbols are *)
(* worth trading.  Both are pure.  `rows` is a function from <<symbol,       *)
(* day>> to a bar; symbols are numbered in the order of their names;        *)
(* medians are doubled, and so are the average ranks of equal values.       *)
(****************************************************************************)
EXTENDS Common, Sequences, FiniteSets, FiniteSetsExt, SequencesExt

CONSTANTS
    MinPrice, MinDollarVolume, DvWindow, MinHistory,   \* screener.*
    MaxRangePct, MomentumWindow, UniverseSize, MaxPerSector,
    MinDays, TopN                                      \* universe_builder.*

\* As in config/base.yaml the volume window is no longer than the history: the
\* means over it have equally many terms for every candidate.
ASSUME ScreenerAssumption ==
    /\ {MinPrice, MinDollarVolume, MaxRangePct, MaxPerSector, MinDays} \subseteq Nat
    /\ {DvWindow, MinHistory, MomentumWindow, UniverseSize, TopN} \subseteq Nat \ {0}
    /\ DvWindow <= MinHistory

History(rows, s) == {key[2] : key \in {k \in DOMAIN rows : k[1] = s}}

\* The k-th day from the end, and the last n days.
FromEnd(days, k) == CHOOSE d \in days : Cardinality({e \in days : e > d}) = k - 1
LastDays(days, n) == {d \in days : Cardinality({e \in days : e > d}) < n}

\* The k-th value of a column, pairs of a day and a value, and twice its median.
NthValue(column, k) ==
    CHOOSE v \in {x[2] : x \in column} : /\ Cardinality({x \in column : x[2] < v}) < k
                                         /\ k <= Cardinality({x \in column : x[2] <= v})

SumOfMiddles(column) ==
    LET n == Cardinality(column)
    IN  NthValue(column, (n + 1) \div 2) + NthValue(column, (n + 2) \div 2)

\* The one member of a set of one: TLC computes the column once.
MedianTwice(pairs) == CHOOSE m \in {SumOfMiddles(column) : column \in {pairs}} : TRUE

DollarVolume(row) == row.close * row.volume

\* (high - low) / close in whole per cent.
RangePct(row) == (100 * (row.high - row.low)) \div row.close

\* What stage 2 computes of a symbol; momentum is the quotient last / past.
Metrics(rows, s) ==
    LET days == History(rows, s)
        tail == LastDays(days, DvWindow)
    IN  [symbol |-> s,
         last  |-> rows[<<s, FromEnd(days, 1)>>].close,
         past  |-> rows[<<s, FromEnd(days, MomentumWindow + 1)>>].close,
         mdv   |-> MedianTwice({<<d, DollarVolume(rows[<<s, d>>])>> : d \in tail}),
         range |-> MapThenSumSet(LAMBDA d : RangePct(rows[<<s, d>>]), tail)]

\* apply_liquidity_filters: one record per candidate.
Candidates(rows) ==
    LET listed == {s \in {key[1] : key \in DOMAIN rows} :
                      Cardinality(History(rows, s)) >= Max({MinHistory, MomentumWindow + 1})}
    IN  {m \in {Metrics(rows, s) : s \in listed} :
            /\ m.last >= MinPrice
            /\ m.mdv >= 2 * MinDollarVolume
            /\ m.range <= MaxRangePct * DvWindow}

\* Series.rank(): twice the average rank of m when lower(x, y) says x is below y.
RankTwice(C, lower(_, _), m) ==
    LET below == {x \in C : lower(x, m)}
        above == {x \in C : lower(m, x)}
    IN  Cardinality(below) + Cardinality(C) - Cardinality(above) + 1

\* The candidates with their composite scores: momentum, volume, calm.
Scored(C) ==
    {[symbol |-> m.symbol,
      score  |-> RankTwice(C, LAMBDA x, y : x.last * y.past < y.last * x.past, m)
                 + RankTwice(C, LAMBDA x, y : x.mdv < y.mdv, m)
                 + RankTwice(C, LAMBDA x, y : x.range > y.range, m)] : m \in C}

\* Best score first, ties by symbol.
Beats(x, y) == x.score > y.score \/ (x.score = y.score /\ x.symbol < y.symbol)

Ranked(scored) ==
    [i \in 1..Cardinality(scored) |->
        CHOOSE s \in scored : Cardinality({x \in scored : Beats(x, s)}) = i - 1]

\* Wrong on purpose: one symbol of a sector too many.
SectorFullLate(selected, s, sectorOf) ==
    sectorOf[s] # None /\
    Cardinality({i \in DOMAIN selected : sectorOf[selected[i]] = sectorOf[s]}) > MaxPerSector

SectorFull(selected, s, sectorOf) ==
    sectorOf[s] # None /\
    Cardinality({i \in DOMAIN selected : sectorOf[selected[i]] = sectorOf[s]}) >= MaxPerSector

\* rank_universe: greedy in the order of the ranks.
RankUniverse(C, sectorOf) ==
    LET Take(selected, s) ==
            IF Len(selected) = UniverseSize \/ SectorFull(selected, s, sectorOf)
            THEN selected ELSE Append(selected, s)
        ranked == Ranked(Scored(C))
        after[i \in 0..Len(ranked)] ==
            IF i = 0 THEN <<>> ELSE Take(after[i - 1], ranked[i].symbol)
    IN  after[Len(ranked)]

\* run_funnel: the lists it may return, which is one.
Funnel(rows, sectorOf) == {RankUniverse(C, sectorOf) : C \in {Candidates(rows)}}

\* select_liquid_universe: every list that sort_values may return (its sort is not
\* stable: symbols of equal volume come in any order).
LiquidUniverses(rows) ==
    LET Liquidity(s) == MedianTwice({<<d, DollarVolume(rows[<<s, d>>])>> : d \in History(rows, s)})
        eligible == {[symbol |-> s, mdv |-> Liquidity(s)] :
                        s \in {s \in {key[1] : key \in DOMAIN rows} :
                                 /\ Cardinality(History(rows, s)) >= MinDays
                                 /\ MedianTwice({<<d, rows[<<s, d>>].close>> : d \in History(rows, s)})
                                       >= 2 * MinPrice}}
        size  == Least(TopN, Cardinality(eligible))
        lists == {list \in [1..size -> eligible] :
                     /\ \A i, j \in 1..size : i < j => /\ list[i] # list[j]
                                                      /\ list[i].mdv >= list[j].mdv
                     /\ \A x \in eligible, i \in 1..size : x \in ToSet(list) \/ list[i].mdv >= x.mdv}
    IN  {[i \in 1..size |-> list[i].symbol] : list \in lists}
=============================================================================
