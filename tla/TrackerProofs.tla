------------------------------ MODULE TrackerProofs ------------------------------
(****************************************************************************)
(* What an ExposureTracker keeps, for every universe, every size and price  *)
(* of fills and every answer of the broker.  The gate's constants come with *)
(* RiskTheorems, whose lemmas about sums and about one fill are used here,  *)
(* and play no part.                                                        *)
(****************************************************************************)
EXTENDS TrackerLife, RiskTheorems

LEMMA FillsAreRecords == Fills \subseteq FillRecords
<1>1. Qtys \subseteq Nat /\ Prices \subseteq Int
  BY TrackerInputs
<1> QED
  BY <1>1 DEF Fills, FillRecords

\* A value between two quotients by the same divisor.
LEMMA QuotientBetween ==
    ASSUME NEW x \in Int, NEW n \in Nat \ {0}, NEW low \in Int, NEW high \in Int,
           n * low <= x, x <= n * high
    PROVE  low <= x \div n /\ x \div n <= high
<1> DEFINE d == x \div n
<1>1. d \in Int /\ n * d <= x /\ x < n * (d + 1)
  OBVIOUS
<1> HIDE DEF d
<1>2. low <= d
  <2> SUFFICES ASSUME d + 1 <= low PROVE FALSE
    BY <1>1
  <2>1. n * (d + 1) <= n * low
    BY <1>1
  <2> QED
    BY <1>1, <2>1
<1>3. d <= high
  <2> SUFFICES ASSUME high + 1 <= d PROVE FALSE
    BY <1>1
  <2>1. n * (high + 1) <= n * d
    BY <1>1
  <2>2. n * (high + 1) = n * high + n
    OBVIOUS
  <2> QED
    BY <1>1, <2>1, <2>2
<1> QED
  BY <1>2, <1>3 DEF d

\* An average lies between the least and the greatest of what is averaged.
LEMMA AverageBetween ==
    ASSUME NEW q \in Nat, NEW f \in Nat, q + f > 0, NEW a \in Int, NEW p \in Int,
           NEW low \in Int, NEW high \in Int, q > 0 => low <= a /\ a <= high,
           low <= p, p <= high
    PROVE  low <= (q * a + f * p) \div (q + f) /\ (q * a + f * p) \div (q + f) <= high
<1>1. q * low <= q * a /\ q * a <= q * high
  <2>1. CASE q = 0
    BY <2>1
  <2>2. CASE q > 0
    BY <2>2
  <2> QED
    BY <2>1, <2>2
<1>2. f * low <= f * p /\ f * p <= f * high
  OBVIOUS
<1>3. (q + f) * low = q * low + f * low /\ (q + f) * high = q * high + f * high
  OBVIOUS
<1>4. /\ q * a \in Int /\ f * p \in Int /\ q * low \in Int /\ f * low \in Int
      /\ q * high \in Int /\ f * high \in Int /\ q + f \in Nat \ {0}
  OBVIOUS
<1>5. (q + f) * low <= q * a + f * p /\ q * a + f * p <= (q + f) * high
  BY <1>1, <1>2, <1>3, <1>4
<1> QED
  BY <1>4, <1>5, QuotientBetween

\* What a position that is held costs and is worth.
Priced(pos) ==
    pos.qty # 0 => /\ \E low, high \in TradedPrices : pos.avgPrice \in low..high
                   /\ pos.lastPrice > 0

TrackerInv ==
    /\ tracker \in Trackers /\ fills \in 0..MaxFills
    /\ \A s \in Symbols : Priced(tracker.positions[s])

LEMMA PricesAreTraded == Prices \subseteq TradedPrices /\ TradedPrices \subseteq Int
<1>1. \A snapshot \in Snapshots, s \in Symbols : snapshot.positions[s].avgPrice \in Int
  BY TrackerInputs DEF IsListing
<1>2. Prices \subseteq Nat \ {0}
  BY TrackerInputs
<1>3. Prices \subseteq TradedPrices
  BY DEF TradedPrices
<1>4. ASSUME NEW x \in TradedPrices PROVE x \in Int
  <2>1. x \in Prices \/ \E snapshot \in Snapshots, s \in Symbols : x = snapshot.positions[s].avgPrice
    BY <1>4 DEF TradedPrices
  <2>2. CASE x \in Prices
    BY <1>2, <2>2
  <2>3. ASSUME NEW snapshot \in Snapshots, NEW s \in Symbols, x = snapshot.positions[s].avgPrice
        PROVE  x \in Int
    BY <1>1, <2>3, Zenon
  <2> QED
    BY <2>1, <2>2, <2>3
<1> QED
  BY <1>3, <1>4

\* exposure_tracker.py:48-63: averaged, reduced or crossed, a position stays priced.
LEMMA FilledIsPriced ==
    ASSUME NEW pos \in Positions, NEW fill \in Fills, Priced(pos)
    PROVE  Priced(FilledPosition(pos, fill))
<1> DEFINE q == pos.qty
           a == pos.avgPrice
           f == fill.qty
           p == fill.price
           n == q + Signed(fill)
           next == FilledPosition(pos, fill)
           entry == EntryPrice(pos, fill)
<1>1. /\ q \in Int /\ a \in Int /\ f \in Nat \ {0} /\ p \in TradedPrices /\ p \in Int /\ p > 0
      /\ \/ Signed(fill) = f
         \/ Signed(fill) = -f
  <2>1. Qtys \subseteq Nat \ {0} /\ Prices \subseteq Nat \ {0}
    BY TrackerInputs
  <2>2. f \in Qtys /\ p \in Prices /\ fill.side \in Sides
    BY DEF Fills
  <2>3. q \in Int /\ a \in Int
    BY DEF Positions
  <2>4. Signed(fill) = f \/ Signed(fill) = -f
    BY DEF Signed
  <2>5. f \in Nat \ {0} /\ p \in Nat \ {0}
    BY <2>1, <2>2
  <2>6. p \in TradedPrices
    BY <2>2, PricesAreTraded
  <2> HIDE DEF f, p
  <2> QED
    BY <2>3, <2>4, <2>5, <2>6
<1>2. CASE n = 0
  BY <1>2 DEF FilledPosition, Flat, Priced
<1>3. CASE n # 0
  <2>1. next.qty = n /\ next.avgPrice = entry /\ next.lastPrice = p
    BY <1>3 DEF FilledPosition
  <2>2. \E low, high \in TradedPrices : entry \in low..high
    <3>1. CASE ~Increases(pos, fill)
      <4>1. q # 0 /\ entry \in {a, p}
        BY <1>1, <3>1 DEF Increases, EntryPrice
      <4>2. CASE entry = p
        BY <1>1, <4>2
      <4>3. CASE entry = a
        BY <4>1, <4>3 DEF Priced
      <4> QED
        BY <4>1, <4>2, <4>3
    <3>2. CASE Increases(pos, fill)
      <4>1. Abs(q) \in Nat /\ Abs(n) = Abs(q) + f /\ (q # 0 => Abs(q) > 0)
        <5>1. (q >= 0 /\ Signed(fill) >= 0) \/ (q <= 0 /\ Signed(fill) <= 0)
          BY <1>1, <3>2, SameSign DEF Increases
        <5> QED
          BY <1>1, <5>1 DEF Abs
      <4>2. entry = (Abs(q) * a + f * p) \div (Abs(q) + f)
        BY <1>3, <3>2, <4>1 DEF EntryPrice
      <4>3. PICK low \in TradedPrices, high \in TradedPrices :
              low <= p /\ p <= high /\ (Abs(q) > 0 => low <= a /\ a <= high)
        <5>1. CASE q = 0
          <6>1. Abs(q) = 0
            BY <5>1 DEF Abs
          <6> QED
            BY <1>1, <6>1
        <5>2. CASE q # 0
          <6>1. PICK l \in TradedPrices, h \in TradedPrices : a \in l..h
            BY <5>2 DEF Priced
          <6>2. l \in Int /\ h \in Int /\ l <= a /\ a <= h
            BY <1>1, <6>1, PricesAreTraded
          <6> DEFINE low == IF p < l THEN p ELSE l
                     high == IF p > h THEN p ELSE h
          <6>3. low \in TradedPrices /\ high \in TradedPrices
            BY <1>1, <6>1
          <6>4. low <= p /\ p <= high /\ low <= a /\ a <= high
            BY <1>1, <6>2
          <6> QED
            BY <6>3, <6>4
        <5> QED
          BY <5>1, <5>2
      <4>4. low \in Int /\ high \in Int /\ Abs(q) + f > 0
        BY <1>1, <4>1, PricesAreTraded
      <4>5. low <= entry /\ entry <= high
        <5> HIDE DEF q, a, f, p, n, entry
        <5> QED
          BY <1>1, <4>1, <4>2, <4>3, <4>4, AverageBetween
      <4>6. entry \in Int
        <5>1. next \in Positions
          BY FilledPositionType, FillsAreRecords
        <5> QED
          BY <2>1, <5>1 DEF Positions
      <4> QED
        BY <4>3, <4>4, <4>5, <4>6
    <3> QED
      BY <3>1, <3>2
  <2> HIDE DEF next, entry
  <2> QED
    BY <1>1, <2>1, <2>2 DEF Priced, next
<1> QED
  BY <1>2, <1>3

\* exposure_tracker.py:75-90: what a re-sync takes over from the broker.
LEMMA ListedPosition ==
    ASSUME NEW snapshot \in Snapshots, NEW s \in Symbols
    PROVE  LET next == SyncFromApi(snapshot.positions, snapshot.equity).positions[s]
               p    == snapshot.positions[s]
           IN  /\ next \in Positions /\ Priced(next)
               /\ next.qty = p.qty /\ next.qty * next.avgPrice = p.qty * p.avgPrice
<1> DEFINE p == snapshot.positions[s]
           next == SyncFromApi(snapshot.positions, snapshot.equity).positions[s]
<1>1. IsListing(p)
  BY TrackerInputs
<1>2. next = IF p.qty = 0 THEN Flat
             ELSE [qty |-> p.qty, avgPrice |-> p.avgPrice,
                   lastPrice |-> IF p.marketValue = None THEN p.avgPrice
                                 ELSE Abs(p.marketValue) \div Abs(p.qty)]
  BY DEF SyncFromApi
<1>3. CASE p.qty = 0
  <2>1. next = Flat
    BY <1>2, <1>3
  <2>2. 0 * p.avgPrice = 0
    BY <1>1 DEF IsListing
  <2> QED
    BY <1>3, <2>1, <2>2 DEF Flat, Positions, Priced
<1>4. CASE p.qty # 0
  <2>1. /\ p.qty \in Int /\ p.avgPrice \in Int /\ p.avgPrice > 0
        /\ p.marketValue \in Int \union {None}
        /\ p.marketValue # None => Abs(p.marketValue) >= Abs(p.qty)
    BY <1>1, <1>4 DEF IsListing
  <2>2. next.qty = p.qty /\ next.avgPrice = p.avgPrice
    BY <1>2, <1>4
  <2>3. next.lastPrice \in Int /\ next.lastPrice > 0
    <3>1. CASE p.marketValue = None
      BY <1>2, <1>4, <2>1, <3>1
    <3>2. CASE p.marketValue # None
      <4>1. Abs(p.marketValue) \in Int /\ Abs(p.qty) \in Nat \ {0}
        BY <2>1, <1>4, <3>2, AbsType
      <4>2. next.lastPrice = Abs(p.marketValue) \div Abs(p.qty)
        BY <1>2, <1>4, <3>2
      <4>3. Abs(p.qty) * 1 <= Abs(p.marketValue)
        BY <2>1, <3>2, <4>1
      <4>4. \A x \in Int, m \in Nat \ {0} : m * 1 <= x => x \div m \in Int /\ 1 <= x \div m
        OBVIOUS
      <4>5. Abs(p.marketValue) \div Abs(p.qty) \in Int /\ 1 <= Abs(p.marketValue) \div Abs(p.qty)
        BY <4>1, <4>3, <4>4
      <4> QED
        BY <4>2, <4>5
    <3> QED
      BY <3>1, <3>2
  <2>4. next = [qty |-> next.qty, avgPrice |-> next.avgPrice, lastPrice |-> next.lastPrice]
    BY <1>2, <1>4
  <2>5. p.avgPrice \in TradedPrices
    BY <2>1 DEF TradedPrices
  <2> HIDE DEF next, p
  <2>6. next \in Positions
    BY <2>1, <2>2, <2>3, <2>4 DEF Positions
  <2>7. Priced(next)
    BY <2>1, <2>2, <2>3, <2>5 DEF Priced
  <2> QED
    BY <2>2, <2>6, <2>7 DEF next, p
<1> QED
  BY <1>3, <1>4

LEMMA TrackerInvHolds == Spec => []TrackerInv
<1>1. Init => TrackerInv
  <2> SUFFICES ASSUME Init PROVE TrackerInv
    OBVIOUS
  <2>1. tracker = [positions |-> [s \in Symbols |-> Flat], equity |-> 0] /\ fills = 0
    BY DEF Init, NewTracker
  <2>2. Flat \in Positions /\ Priced(Flat) /\ fills \in 0..MaxFills
    BY <2>1, TrackerInputs DEF Flat, Positions, Priced
  <2> QED
    BY <2>1, <2>2 DEF TrackerInv, Trackers
<1>2. TrackerInv /\ [Next]_vars => TrackerInv'
  <2> SUFFICES ASSUME TrackerInv, [Next]_vars PROVE TrackerInv'
    OBVIOUS
  <2>1. ASSUME NEW fill \in Fills, OnFill(fill) PROVE TrackerInv'
    <3>1. /\ tracker' = TrackFill(tracker, fill) /\ fill \in FillRecords
          /\ tracker \in Trackers /\ fill.symbol \in Symbols
      BY <2>1, FillsAreRecords DEF OnFill, TrackerInv, FillRecords
    <3>2. tracker' \in Trackers
      BY <3>1, TrackFillType
    <3>3. fills' \in 0..MaxFills
      BY <2>1, TrackerInputs DEF OnFill, TrackerInv
    <3>4. ASSUME NEW s \in Symbols PROVE Priced(tracker'.positions[s])
      <4>1. /\ tracker.positions[s] \in Positions /\ Priced(tracker.positions[s])
            /\ tracker.positions \in [Symbols -> Positions]
        BY <3>1 DEF Trackers, TrackerInv
      <4>2. tracker'.positions[s] = IF s = fill.symbol
                                    THEN FilledPosition(tracker.positions[s], fill)
                                    ELSE tracker.positions[s]
        BY <3>1, <4>1 DEF TrackFill
      <4> QED
        BY <4>1, <4>2, FilledIsPriced
    <3> QED
      BY <3>2, <3>3, <3>4 DEF TrackerInv, Priced, TradedPrices
  <2>2. ASSUME NEW snapshot \in Snapshots, Sync(snapshot) PROVE TrackerInv'
    <3> DEFINE next == SyncFromApi(snapshot.positions, snapshot.equity)
    <3>1. tracker' = next /\ fills' = fills /\ next.equity = snapshot.equity
      BY <2>2 DEF Sync, SyncFromApi
    <3>2. next = [positions |-> [s \in Symbols |-> next.positions[s]], equity |-> next.equity]
      BY DEF SyncFromApi
    <3>3. \A s \in Symbols : next.positions[s] \in Positions /\ Priced(next.positions[s])
      BY ListedPosition
    <3>4. snapshot.equity \in Int
      BY TrackerInputs
    <3> HIDE DEF next
    <3>5. next \in Trackers
      BY <3>1, <3>2, <3>3, <3>4 DEF Trackers
    <3> QED
      BY <3>1, <3>3, <3>5 DEF TrackerInv, Priced, TradedPrices
  <2> QED
    BY <2>1, <2>2 DEF Next, vars, TrackerInv, Priced, TradedPrices
<1> QED
  BY <1>1, <1>2, PTL DEF Spec

\* exposure_tracker.py:48-63: the entry price of what is held, from which the P&L
\* of its close is computed, always lies among the prices at which shares were
\* bought, sold or reported, and the last price is positive.
THEOREM EntryPricesWereTraded == Spec => []EntryPriceWasTraded
<1>1. TrackerInv => EntryPriceWasTraded
  BY DEF TrackerInv, Priced, EntryPriceWasTraded, Held
<1> QED
  BY <1>1, TrackerInvHolds, PTL

----------------------------------------------------------------------------
\* The tracker as a ledger.

\* The fills at which the weighted average is a whole number of ticks.
AverageExact == \A fill \in Fills :
    OnFill(fill) => ExactAverage(tracker.positions[fill.symbol], fill)

Costs(positions) == [s \in Symbols |-> positions[s].qty * positions[s].avgPrice]

LEMMA CostsType ==
    ASSUME NEW positions \in [Symbols -> Positions]
    PROVE  /\ CostBasis(positions) \in Int
           /\ \A s \in Symbols : Costs(positions)[s] \in Int
<1>1. \A s \in Symbols : Costs(positions)[s] \in Int
  <2> SUFFICES ASSUME NEW s \in Symbols PROVE Costs(positions)[s] \in Int
    OBVIOUS
  <2>1. positions[s].qty \in Int /\ positions[s].avgPrice \in Int
    BY DEF Positions
  <2> QED
    BY <2>1 DEF Costs
<1>2. SumFunctionOnSet(Costs(positions), Symbols) \in Int
  BY <1>1, SymbolsAssumption, SumType
<1> QED
  BY <1>1, <1>2 DEF CostBasis, Costs

\* A fill moves holdings and cash as a purchase or a sale does.
LEMMA FillIsATrade ==
    ASSUME TrackerInv, NEW fill \in Fills, OnFill(fill),
           ExactAverage(tracker.positions[fill.symbol], fill)
    PROVE  Account!Buy(fill.symbol, fill.qty, fill.price)
              \/ Account!Sell(fill.symbol, fill.qty, fill.price)
<1> DEFINE z == fill.symbol
           pos == tracker.positions[z]
           next == FilledPosition(pos, fill)
           before == tracker.positions
           after == tracker'.positions
<1>1. /\ tracker' = TrackFill(tracker, fill) /\ fill \in FillRecords /\ z \in Symbols
      /\ tracker \in Trackers /\ fill.qty \in Int /\ fill.price \in Int
  BY FillsAreRecords DEF OnFill, TrackerInv, FillRecords
<1>2. before \in [Symbols -> Positions] /\ pos \in Positions /\ tracker.equity \in Int
  BY <1>1 DEF Trackers
<1>3. /\ after = [before EXCEPT ![z] = next]
      /\ tracker'.equity = tracker.equity + Realized(pos, fill)
  BY <1>1 DEF TrackFill
<1>4. /\ next \in Positions /\ next.qty = pos.qty + Signed(fill)
      /\ Realized(pos, fill) + pos.qty * pos.avgPrice
            = next.qty * next.avgPrice - Signed(fill) * fill.price
  BY <1>1, <1>2, FilledPositionType, FillIsALedgerEntry
<1>5. after \in [Symbols -> Positions] /\ after[z] = next
      /\ \A s \in Symbols \ {z} : after[s] = before[s]
  BY <1>1, <1>2, <1>3, <1>4
<1>6. /\ CostBasis(before) \in Int /\ CostBasis(after) \in Int
      /\ \A s \in Symbols : Costs(before)[s] \in Int /\ Costs(after)[s] \in Int
  BY <1>2, <1>5, CostsType
<1> HIDE DEF after, before, next, pos
<1>7. /\ Costs(after)[z] = next.qty * next.avgPrice
      /\ \A s \in Symbols \ {z} : Costs(after)[s] = Costs(before)[s]
  BY <1>1, <1>5 DEF Costs
<1>8. Costs(before)[z] = pos.qty * pos.avgPrice
  BY <1>1 DEF Costs, pos, before
<1>9. CostBasis(after) = CostBasis(before) + Costs(after)[z] - Costs(before)[z]
  <2>1. SumFunctionOnSet(Costs(after), Symbols)
          = SumFunctionOnSet(Costs(before), Symbols) + Costs(after)[z] - Costs(before)[z]
    <3> HIDE DEF z
    <3> QED
      BY <1>1, <1>6, <1>7, SymbolsAssumption, SumChange
  <2> QED
    BY <2>1 DEF CostBasis, Costs
<1>10. Realized(pos, fill) \in Int /\ Signed(fill) * fill.price \in Int
  <2>1. Signed(fill) \in Int
    BY <1>1, SignedType
  <2>2. Signed(fill) * fill.price \in Int
    BY <1>1, <2>1
  <2> QED
    BY <1>1, <1>2, <2>2, RealizedType DEF Positions
<1>11. tracker'.equity - CostBasis(after)
          = tracker.equity - CostBasis(before) - Signed(fill) * fill.price
  <2> DEFINE paid == Signed(fill) * fill.price
             gain == Realized(pos, fill)
             old  == pos.qty * pos.avgPrice
             new  == next.qty * next.avgPrice
  <2>1. gain + old = new - paid
    BY <1>4
  <2>2. Costs(after)[z] = new /\ Costs(before)[z] = old
    BY <1>7, <1>8
  <2>3. old \in Int /\ new \in Int /\ paid \in Int /\ gain \in Int
    BY <1>1, <1>6, <1>10, <2>2
  <2>4. tracker'.equity = tracker.equity + gain
    BY <1>3
  <2> HIDE DEF paid, gain, old, new
  <2>5. CostBasis(after) = CostBasis(before) + new - old
    BY <1>9, <2>2
  <2>6. tracker'.equity - CostBasis(after) = tracker.equity - CostBasis(before) - paid
    BY <1>2, <1>6, <2>1, <2>3, <2>4, <2>5
  <2> QED
    BY <2>6 DEF paid
<1>12. Quantities(after) = [Quantities(before) EXCEPT ![z] = @ + Signed(fill)]
  <2>1. /\ next.qty = pos.qty + Signed(fill) /\ pos = before[z]
        /\ \A s \in Symbols : after[s] = IF s = z THEN next ELSE before[s]
    BY <1>4, <1>5 DEF pos, before
  <2> QED
    BY <1>1, <2>1 DEF Quantities
<1>13. CASE fill.side = "buy"
  <2>1. Signed(fill) = fill.qty
    BY <1>13 DEF Signed
  <2> QED
    BY <1>11, <1>12, <2>1 DEF Account!Buy, after, before
<1>14. CASE fill.side = "sell"
  <2>1. Signed(fill) = -fill.qty /\ (-fill.qty) * fill.price = -(fill.qty * fill.price)
    BY <1>1, <1>14, NegativeTimes DEF Signed
  <2>2. tracker'.equity - CostBasis(after)
          = tracker.equity - CostBasis(before) + fill.qty * fill.price
    <3>1. fill.qty * fill.price \in Int
      BY <1>1
    <3> QED
      BY <1>2, <1>6, <1>11, <2>1, <3>1
  <2>3. Quantities(after) = [Quantities(before) EXCEPT ![z] = @ - fill.qty]
    <3>1. before[z].qty + (-fill.qty) = before[z].qty - fill.qty
      BY <1>1, <1>2 DEF Positions, pos
    <3>2. Quantities(before)[z] = before[z].qty
      BY <1>1 DEF Quantities
    <3> QED
      BY <1>12, <2>1, <3>1, <3>2
  <2> QED
    BY <2>2, <2>3 DEF Account!Sell, after, before
<1> QED
  BY <1>13, <1>14 DEF Fills, Sides

\* A re-sync replaces holdings and cash by those of a statement.
LEMMA SyncReconciles ==
    ASSUME NEW snapshot \in Snapshots, Sync(snapshot)
    PROVE  Account!Reconcile
<1> DEFINE next == SyncFromApi(snapshot.positions, snapshot.equity)
           listed == snapshot.positions
           statement == StatementOf(listed, snapshot.equity)
<1>1. tracker' = next /\ next.equity = snapshot.equity
  BY DEF Sync, SyncFromApi
<1>2. \A s \in Symbols : /\ next.positions[s].qty = listed[s].qty
                         /\ Costs(next.positions)[s] = Costs(listed)[s]
  BY ListedPosition DEF Costs
<1> HIDE DEF next
<1>3. Quantities(next.positions) = Quantities(listed)
  BY <1>2 DEF Quantities
<1>4. SumFunctionOnSet(Costs(next.positions), Symbols) = SumFunctionOnSet(Costs(listed), Symbols)
  BY <1>2, SymbolsAssumption, SumCongruent
<1>5. CostBasis(next.positions) = CostBasis(listed)
  BY <1>4 DEF CostBasis, Costs
<1>6. /\ Quantities(tracker'.positions) = statement.holdings
      /\ tracker'.equity - CostBasis(tracker'.positions) = statement.cash
  BY <1>1, <1>3, <1>5 DEF StatementOf
<1> QED
  BY <1>6 DEF Account!Reconcile

\* exposure_tracker.py:11-12, "equity between API syncs is tracked as sync equity +
\* realized P&L": as long as every average is a whole number of ticks, the tracker
\* is a ledger of cash and holdings: opening, averaging, partial closes, crossings
\* of zero and re-syncs in any order.
THEOREM TrackerIsALedger == Spec /\ [][AverageExact]_vars => KeepsLedger
<1>1. Init => Account!Init
  <2> DEFINE opened == StatementOf(NewTracker.positions, 0)
  <2> SUFFICES ASSUME Init PROVE Account!Init
    OBVIOUS
  <2>1. tracker = NewTracker /\ NewTracker.equity = 0
    BY DEF Init, NewTracker
  <2>2. /\ Quantities(tracker.positions) = opened.holdings
        /\ tracker.equity - CostBasis(tracker.positions) = opened.cash
    BY <2>1 DEF StatementOf
  <2> QED
    BY <2>2 DEF Account!Init
<1>2. TrackerInv /\ [Next]_vars /\ [AverageExact]_vars
        => [Account!Next]_<<Quantities(tracker.positions), tracker.equity - CostBasis(tracker.positions)>>
  <2> SUFFICES ASSUME TrackerInv, [Next]_vars, [AverageExact]_vars
               PROVE  Account!Next \/ UNCHANGED tracker
    BY DEF Quantities, CostBasis
  <2>1. ASSUME NEW fill \in Fills, OnFill(fill) PROVE Account!Next \/ UNCHANGED tracker
    <3>1. ExactAverage(tracker.positions[fill.symbol], fill) \/ UNCHANGED tracker
      BY <2>1 DEF AverageExact, vars
    <3>2. fill.symbol \in Symbols /\ fill.qty \in Qtys /\ fill.price \in Prices
      BY DEF Fills
    <3> QED
      BY <2>1, <3>1, <3>2, FillIsATrade DEF Account!Next
  <2>2. ASSUME NEW snapshot \in Snapshots, Sync(snapshot) PROVE Account!Next
    BY <2>2, SyncReconciles DEF Account!Next
  <2> QED
    BY <2>1, <2>2 DEF Next, vars
<1> QED
  BY <1>1, <1>2, TrackerInvHolds, PTL DEF Spec, KeepsLedger, Account!Spec
=============================================================================
