------------------------------ MODULE RiskTheorems ------------------------------
(****************************************************************************)
(* What the operators of ExposureTracker and RiskManager return, for every  *)
(* universe, price and setting of the gate.  Every module with theorems     *)
(* about an engine or a session builds on these.                            *)
(****************************************************************************)
EXTENDS RiskManager, FiniteTheorems

----------------------------------------------------------------------------
\* One position and one fill.

FillRecords == [symbol : Symbols, side : Sides, qty : Nat, price : Int]

LEMMA AbsType ==
    ASSUME NEW x \in Int
    PROVE  /\ Abs(x) \in Nat
           /\ x # 0 => Abs(x) > 0
           /\ x >= 0 => Abs(x) = x
BY DEF Abs

LEMMA SignedType ==
    ASSUME NEW fill \in FillRecords
    PROVE  /\ Signed(fill) \in Int
           /\ fill.side = "buy" => Signed(fill) = fill.qty
           /\ fill.side = "sell" => Signed(fill) = -fill.qty
BY DEF Signed, FillRecords, Sides

LEMMA RealizedType ==
    ASSUME NEW pos, pos.qty \in Int, pos.avgPrice \in Int, NEW fill \in FillRecords
    PROVE  Realized(pos, fill) \in Int
<1>1. fill.qty \in Nat /\ fill.price \in Int
  BY DEF FillRecords
<1>2. Abs(pos.qty) \in Nat
  BY AbsType
<1> DEFINE closed == Least(fill.qty, Abs(pos.qty))
           gain == fill.price - pos.avgPrice
<1>3. closed \in Int /\ gain \in Int
  BY <1>1, <1>2 DEF Least
<1>4. gain * closed \in Int
  BY <1>3
<1>5. gain * closed * 1 \in Int /\ gain * closed * (-1) \in Int
  BY <1>4
<1> QED
  BY <1>5 DEF Realized

\* The weighted average of two prices is a price, wherever it is defined.
LEMMA AverageType ==
    ASSUME NEW a \in Nat, NEW p \in Int, NEW b \in Nat, NEW q \in Int,
           NEW n \in Nat, n > 0
    PROVE  (a * p + b * q) \div n \in Int
<1>1. a * p \in Int /\ b * q \in Int
  OBVIOUS
<1>2. a * p + b * q \in Int
  BY <1>1
<1> QED
  BY <1>2

LEMMA FilledPositionType ==
    ASSUME NEW pos \in Positions, NEW fill \in FillRecords
    PROVE  /\ FilledPosition(pos, fill) \in Positions
           /\ FilledPosition(pos, fill).qty = pos.qty + Signed(fill)
<1> DEFINE newQty == pos.qty + Signed(fill)
<1>1. pos.qty \in Int /\ pos.avgPrice \in Int /\ fill.qty \in Nat /\ fill.price \in Int
  BY DEF Positions, FillRecords
<1>2. newQty \in Int
  BY <1>1, SignedType
<1>3. CASE newQty = 0
  BY <1>3 DEF FilledPosition, Flat, Positions
<1>4. CASE newQty # 0
  <2>1. Abs(pos.qty) \in Nat /\ Abs(newQty) \in Nat /\ Abs(newQty) > 0
    BY <1>1, <1>2, <1>4, AbsType
  <2>2. (Abs(pos.qty) * pos.avgPrice + fill.qty * fill.price) \div Abs(newQty) \in Int
    BY <1>1, <2>1, AverageType
  <2>3. EntryPrice(pos, fill) \in Int
    BY <1>1, <1>4, <2>2 DEF EntryPrice
  <2> QED
    BY <1>1, <1>2, <1>4, <2>3 DEF FilledPosition, Positions
<1> QED
  BY <1>3, <1>4

LEMMA TrackFillType ==
    ASSUME NEW tracker \in Trackers, NEW fill \in FillRecords
    PROVE  /\ TrackFill(tracker, fill) \in Trackers
           /\ \A s \in Symbols : TrackFill(tracker, fill).positions[s].qty =
                IF s = fill.symbol THEN tracker.positions[s].qty + Signed(fill)
                ELSE tracker.positions[s].qty
<1> DEFINE pos == tracker.positions[fill.symbol]
           next == [tracker.positions EXCEPT ![fill.symbol] = FilledPosition(pos, fill)]
           equity == tracker.equity + Realized(pos, fill)
<1>1. fill.symbol \in Symbols
  BY DEF FillRecords
<1>2. tracker.positions \in [Symbols -> Positions] /\ tracker.equity \in Int
  BY DEF Trackers
<1>3. pos \in Positions
  BY <1>1, <1>2
<1>4. equity \in Int
  BY <1>2, <1>3, RealizedType DEF Positions
<1>5. next \in [Symbols -> Positions]
  BY <1>1, <1>2, <1>3, FilledPositionType
<1>6. TrackFill(tracker, fill) = [positions |-> next, equity |-> equity]
  BY DEF TrackFill
<1>7. \A s \in Symbols : next[s].qty = IF s = fill.symbol THEN pos.qty + Signed(fill)
                                       ELSE tracker.positions[s].qty
  BY <1>1, <1>2, <1>3, FilledPositionType
<1> QED
  BY <1>4, <1>5, <1>6, <1>7 DEF Trackers

\* Arithmetic that a prover finds by itself but not among records.
LEMMA NegativeTimes ==
    ASSUME NEW x \in Int, NEW y \in Int PROVE (-x) * y = -(x * y)
OBVIOUS

LEMMA SameSign ==
    ASSUME NEW x \in Int, NEW y \in Int, x * y >= 0
    PROVE  (x >= 0 /\ y >= 0) \/ (x <= 0 /\ y <= 0)
OBVIOUS

LEMMA GrownShort ==
    ASSUME NEW q \in Int, NEW a \in Int, NEW f \in Int, NEW p \in Int, NEW n \in Int,
           NEW e \in Int, (-n) * e = (-q) * a + f * p
    PROVE  n * e = q * a - f * p
OBVIOUS

LEMMA ReducedPosition ==
    ASSUME NEW q \in Int, NEW a \in Int, NEW f \in Int, NEW p \in Int, NEW sign \in {1, -1}
    PROVE  (p - a) * f * sign + q * a = (q + (-(sign * f))) * a - (-(sign * f)) * p
OBVIOUS

\* The weighted average of a growing position is a whole number of ticks.
ExactAverage(pos, fill) ==
    LET newQty == pos.qty + Signed(fill)
    IN  Increases(pos, fill) /\ newQty # 0 =>
            Abs(newQty) * EntryPrice(pos, fill) = Abs(pos.qty) * pos.avgPrice + fill.qty * fill.price

\* exposure_tracker.py:30-63: opened, increased, reduced, closed or crossed through
\* zero, what a fill realizes and what it does to the cost of the position differ by
\* exactly what was paid for it.
LEMMA FillIsALedgerEntry ==
    ASSUME NEW pos \in Positions, NEW fill \in FillRecords, ExactAverage(pos, fill)
    PROVE  LET next == FilledPosition(pos, fill)
           IN  Realized(pos, fill) + pos.qty * pos.avgPrice
                  = next.qty * next.avgPrice - Signed(fill) * fill.price
<1> DEFINE q == pos.qty
           a == pos.avgPrice
           f == fill.qty
           p == fill.price
           n == q + Signed(fill)
           next == FilledPosition(pos, fill)
           entry == EntryPrice(pos, fill)
<1>1. /\ q \in Int /\ a \in Int /\ f \in Nat /\ p \in Int /\ Signed(fill) \in Int /\ n \in Int
      /\ \/ Signed(fill) = f
         \/ Signed(fill) = -f
  BY SignedType DEF Positions, FillRecords, Sides
<1>2. n # 0 => next.qty = n /\ next.avgPrice = entry
  BY DEF FilledPosition
<1>3. n = 0 => next.qty * next.avgPrice = 0
  BY DEF FilledPosition, Flat
<1>4. CASE Increases(pos, fill)
  <2>1. Realized(pos, fill) = 0 /\ q * Signed(fill) >= 0
    BY <1>4 DEF Realized, Increases
  <2>2. CASE n = 0
    <3>1. q = 0 /\ Signed(fill) = 0
      BY <1>1, <2>1, <2>2
    <3> QED
      BY <1>1, <1>3, <2>1, <2>2, <3>1
  <2>3. CASE n # 0
    <3>1. entry \in Int
      <4>1. next \in Positions
        BY FilledPositionType
      <4> QED
        BY <1>2, <2>3, <4>1 DEF Positions
    <3>2. Abs(n) * entry = Abs(q) * a + f * p
      BY <1>4, <2>3 DEF ExactAverage
    <3> HIDE DEF entry
    <3>3. \/ q >= 0 /\ Signed(fill) = f /\ n > 0
          \/ q <= 0 /\ Signed(fill) = -f /\ n < 0
      <4>1. (q >= 0 /\ Signed(fill) >= 0) \/ (q <= 0 /\ Signed(fill) <= 0)
        BY <1>1, <2>1, SameSign
      <4> QED
        BY <1>1, <2>3, <4>1
    <3>4. CASE q >= 0 /\ Signed(fill) = f /\ n > 0
      <4>1. n * entry = q * a + f * p
        BY <1>1, <3>2, <3>4 DEF Abs
      <4> QED
        BY <1>1, <1>2, <2>1, <2>3, <3>1, <3>4, <4>1
    <3>5. CASE q <= 0 /\ Signed(fill) = -f /\ n < 0
      <4>1. Abs(n) = -n /\ Abs(q) = -q
        BY <1>1, <3>5 DEF Abs
      <4>2. (-n) * entry = (-q) * a + f * p
        BY <3>2, <4>1
      <4>3. n * entry = q * a - f * p
        <5>1. f \in Int
          BY <1>1
        <5> HIDE DEF n, q, a, f, p
        <5> QED
          BY <1>1, <3>1, <4>2, <5>1, GrownShort
      <4>4. (-f) * p = -(f * p) /\ f * p \in Int /\ q * a \in Int
        BY <1>1, NegativeTimes
      <4>5. next.qty * next.avgPrice = q * a - f * p
        BY <1>2, <2>3, <4>3
      <4> HIDE DEF next
      <4> QED
        BY <2>1, <3>5, <4>4, <4>5 DEF next
    <3> QED
      BY <3>3, <3>4, <3>5
  <2> QED
    BY <2>2, <2>3
<1>5. CASE ~Increases(pos, fill)
  <2>1. ~(q * Signed(fill) >= 0) /\ q # 0 /\ f > 0
    BY <1>1, <1>5 DEF Increases
  <2> DEFINE sign == IF q > 0 THEN 1 ELSE -1
  <2>2. Signed(fill) = -(sign * f) /\ Abs(q) = sign * q /\ sign \in {1, -1}
    BY <1>1, <2>1 DEF Abs
  <2>3. Realized(pos, fill) = (p - a) * Least(f, Abs(q)) * sign
    BY <1>5 DEF Realized
  <2>4. CASE f > Abs(q)
    <3>1. entry = p /\ Least(f, Abs(q)) = Abs(q) /\ n # 0
      BY <1>1, <1>5, <2>2, <2>4 DEF EntryPrice, Least
    <3>2. Realized(pos, fill) = (p - a) * q
      BY <1>1, <2>2, <2>3, <3>1
    <3>3. next.qty * next.avgPrice = n * p
      BY <1>2, <3>1
    <3> QED
      BY <1>1, <3>2, <3>3
  <2>5. CASE ~(f > Abs(q))
    <3>1. entry = a /\ Least(f, Abs(q)) = f
      BY <1>1, <1>5, <2>2, <2>5 DEF EntryPrice, Least
    <3>2. next.qty * next.avgPrice = n * a
      BY <1>1, <1>2, <1>3, <3>1
    <3>3. Realized(pos, fill) = (p - a) * f * sign
      BY <2>3, <3>1
    <3>4. (p - a) * f * sign + q * a = (q + (-(sign * f))) * a - (-(sign * f)) * p
      BY <1>1, <2>2, ReducedPosition
    <3> HIDE DEF sign
    <3> QED
      BY <2>2, <3>2, <3>3, <3>4
  <2> QED
    BY <2>4, <2>5
<1> QED
  BY <1>4, <1>5

----------------------------------------------------------------------------
\* The gate.

LEMMA QuotientType ==
    ASSUME NEW a \in Int, NEW b \in Nat \ {0}
    PROVE  /\ a \div b \in Int
           /\ a >= 0 => a \div b >= 0
OBVIOUS

LEMMA KellyType ==
    ASSUME NEW equity \in Int, NEW strength \in Int
    PROVE  KellyNotional(equity, strength) \in Int
<1> DEFINE edge == WinRatePct * AvgWin - (100 - WinRatePct) * AvgLoss
<1>1. WinRatePct \in Int /\ AvgWin \in Int /\ AvgLoss \in Int /\ KellyPct \in Int
  BY CapsAssumption, KellyAssumption
<1>2. WinRatePct * AvgWin \in Int /\ (100 - WinRatePct) * AvgLoss \in Int
  BY <1>1
<1>3. edge \in Int
  BY <1>2
<1>4. Abs(strength) \in Int
  BY AbsType
<1>5. equity * edge \in Int
  BY <1>3
<1>6. equity * edge * KellyPct \in Int
  BY <1>1, <1>5
<1>8. CASE AvgWin <= 0
  BY <1>8 DEF KellyNotional
<1>9. CASE AvgWin > 0
  <2>1. 100 * AvgWin * 100 \in Nat \ {0}
    BY <1>1, <1>9
  <2>2. (equity * edge * KellyPct) \div (100 * AvgWin * 100) \in Int
    BY <1>6, <2>1, QuotientType
  <2>3. \A full \in Int : Percent(full, Abs(strength)) \in Int
    <3>1. \A full \in Int : full * Abs(strength) \in Int
      BY <1>4
    <3> QED
      BY <3>1, QuotientType DEF Percent
  <2> QED
    BY <2>2, <2>3 DEF KellyNotional
<1> QED
  BY <1>1, <1>8, <1>9

LEMMA CappedType ==
    ASSUME NEW tracker \in Trackers, NEW intent, intent.symbol \in Symbols, NEW wanted \in Int
    PROVE  CappedNotional(tracker, intent, wanted) \in Int
<1>1. tracker.equity \in Int /\ tracker.positions[intent.symbol] \in Positions
  BY DEF Trackers
<1>2. MaxRiskPerTradePct \in Int /\ MaxPositionPct \in Int
  BY CapsAssumption
<1>3. tracker.equity * MaxRiskPerTradePct \in Int /\ tracker.equity * MaxPositionPct \in Int
  BY <1>1, <1>2
<1>4. Percent(tracker.equity, MaxRiskPerTradePct) \in Int
      /\ Percent(tracker.equity, MaxPositionPct) \in Int
  BY <1>3 DEF Percent
<1>5. Abs(tracker.positions[intent.symbol].qty) \in Int
      /\ tracker.positions[intent.symbol].lastPrice \in Int
  BY <1>1, AbsType DEF Positions
<1>6. PositionValue(tracker, intent.symbol) \in Int
  BY <1>5 DEF PositionValue
<1> QED
  BY <1>4, <1>6 DEF CappedNotional, Least

\* manager.py:79-81: an approved exit is the exit that was asked for.
LEMMA ExitSize ==
    ASSUME NEW r, NEW intent, intent.side = "sell", intent.qty \in Int, intent.qty > 0,
           PositionQty(r.tracker, intent.symbol) = intent.qty,
           Validate(r, intent).approved
    PROVE  Validate(r, intent).qty = intent.qty
<1>1. Abs(intent.qty) = intent.qty
  BY AbsType
<1>2. IsReducing(r.tracker, intent)
  BY <1>1 DEF IsReducing
<1>3. Validate(r, intent) = Approve(Least(intent.qty, intent.qty))
  BY <1>1, <1>2 DEF Validate, Reject, Approve
<1> QED
  BY <1>3 DEF Approve, Least

LEMMA PositionValueType ==
    ASSUME NEW tracker \in Trackers, NEW s \in Symbols
    PROVE  PositionValue(tracker, s) \in Int
<1>1. tracker.positions[s] \in Positions
  BY DEF Trackers
<1>2. Abs(tracker.positions[s].qty) \in Int /\ tracker.positions[s].lastPrice \in Int
  BY <1>1, AbsType DEF Positions
<1> QED
  BY <1>2 DEF PositionValue

LEMMA ExposureType ==
    ASSUME NEW tracker \in Trackers, NEW S \in SUBSET Symbols
    PROVE  ExposureOf(tracker, S) \in Int
<1> DEFINE value == [s \in Symbols |-> PositionValue(tracker, s)]
<1>1. IsFiniteSet(S)
  BY SymbolsAssumption, FS_Subset
<1>2. \A s \in S : value[s] \in Int
  BY PositionValueType
<1> HIDE DEF value
<1>3. SumFunctionOnSet(value, S) \in Int
  BY <1>1, <1>2, SumType
<1> QED
  BY <1>3 DEF ExposureOf, value

\* A percentage is rounded down.
LEMMA PercentBound ==
    ASSUME NEW x \in Int, NEW pct \in Int
    PROVE  Percent(x, pct) \in Int /\ 100 * Percent(x, pct) <= x * pct
<1>1. x * pct \in Int
  OBVIOUS
<1> QED
  BY <1>1 DEF Percent

\* manager.py:97: what the whole shares cost is at most the notional.
LEMMA WholeShares ==
    ASSUME NEW notional \in Int, NEW price \in Nat \ {0}
    PROVE  /\ notional \div price \in Int
           /\ (notional \div price) * price <= notional
           /\ notional > 0 => notional \div price \in Nat
OBVIOUS

\* Admissible() reads the symbol, the side and the reference price.
LEMMA AdmissibleIntents ==
    ASSUME NEW r, NEW i, NEW j, NEW qty, Admissible(r, i, qty),
           i.symbol = j.symbol, i.side = j.side, i.price = j.price
    PROVE  Admissible(r, j, qty)
BY DEF Admissible

\* manager.py:1-5, 60-97: every approval is admissible on the books it was given
\* on: trading is not halted, and the order is a pure reduction or, at its
\* reference price, inside the per-trade, position, total and sector caps and not
\* correlated with what is held.  Its size is a whole number of shares.
THEOREM ApprovedIsAdmissible ==
    ASSUME NEW r, r.tracker \in Trackers,
           NEW intent, intent.symbol \in Symbols, intent.side \in Sides,
           intent.qty \in Nat, intent.strength \in Int, intent.price \in Nat \ {0},
           Validate(r, intent).approved
    PROVE  /\ Validate(r, intent).qty \in Nat
           /\ Admissible(r, intent, Validate(r, intent).qty)
<1> DEFINE tracker  == r.tracker
           held     == PositionQty(tracker, intent.symbol)
           wanted   == KellyNotional(tracker.equity, intent.strength)
           notional == CappedNotional(tracker, intent, wanted)
           qty      == Validate(r, intent).qty
           sector   == {s \in Symbols : SectorOf[s] = SectorOf[intent.symbol]}
<1>1. /\ tracker \in Trackers /\ tracker.equity \in Int /\ held \in Int
      /\ ~r.breaker.halted
  BY DEF Trackers, Positions, PositionQty, Validate, Reject
<1>2. CASE IsReducing(tracker, intent)
  <2>1. Validate(r, intent) = Approve(Least(intent.qty, Abs(held)))
    BY <1>1, <1>2 DEF Validate
  <2>2. Least(intent.qty, Abs(held)) = intent.qty
    BY <1>1, <1>2, AbsType DEF IsReducing, Least
  <2>3. qty = intent.qty
    BY <2>1, <2>2 DEF Approve
  <2>4. \/ intent.side = "sell" /\ 0 < held /\ qty <= held
        \/ intent.side = "buy" /\ held < 0 /\ qty <= -held
    BY <1>1, <1>2, <2>3 DEF IsReducing, Abs
  <2> HIDE DEF qty
  <2>5. Admissible(r, intent, qty)
    BY <1>1, <2>4 DEF Admissible
  <2> QED
    BY <2>3, <2>5 DEF qty
<1>3. CASE ~IsReducing(tracker, intent)
  <2>1. /\ Validate(r, intent) = Approve(notional \div intent.price)
        /\ ~(notional <= 0) /\ ~BreachesTotalCap(tracker, notional)
        /\ ~BreachesSectorCap(tracker, intent.symbol, notional)
        /\ ~BreachesCorrelation(tracker, intent.symbol)
    BY <1>1, <1>3 DEF Validate, Reject
  <2>2. /\ wanted \in Int /\ PositionValue(tracker, intent.symbol) \in Int
        /\ ExposureOf(tracker, Symbols) \in Int /\ ExposureOf(tracker, sector) \in Int
    BY <1>1, KellyType, PositionValueType, ExposureType
  <2>3. /\ MaxRiskPerTradePct \in Int /\ MaxPositionPct \in Int
        /\ MaxTotalExposurePct \in Int /\ MaxSectorExposurePct \in Int
    BY CapsAssumption
  <2> DEFINE trade    == Percent(tracker.equity, MaxRiskPerTradePct)
             position == Percent(tracker.equity, MaxPositionPct)
             value    == PositionValue(tracker, intent.symbol)
             cost     == qty * intent.price
  <2>4. /\ trade \in Int /\ 100 * trade <= tracker.equity * MaxRiskPerTradePct
        /\ position \in Int /\ 100 * position <= tracker.equity * MaxPositionPct
    BY <1>1, <2>3, PercentBound
  <2>5. notional = Least(Least(wanted, trade), position - value)
    BY DEF CappedNotional
  <2> HIDE DEF wanted, notional, trade, position, value
  <2>6. /\ notional \in Int /\ notional > 0
        /\ notional <= trade /\ value + notional <= position
    BY <2>1, <2>2, <2>4, <2>5 DEF Least, value
  <2>7. qty = notional \div intent.price
    BY <2>1 DEF Approve
  <2>8. qty \in Nat /\ cost \in Int /\ cost <= notional
    <3>1. /\ notional \div intent.price \in Int
          /\ (notional \div intent.price) * intent.price <= notional
          /\ notional \div intent.price \in Nat
      BY <2>6, WholeShares
    <3> HIDE DEF qty
    <3>2. qty \in Nat /\ qty * intent.price \in Int
      BY <2>7, <3>1
    <3> QED
      BY <2>7, <3>1, <3>2
  <2> HIDE DEF qty, cost
  <2>9. /\ tracker.equity * MaxRiskPerTradePct \in Int
        /\ tracker.equity * MaxPositionPct \in Int
        /\ tracker.equity * MaxTotalExposurePct \in Int
        /\ tracker.equity * MaxSectorExposurePct \in Int
    BY <1>1, <2>3
  <2>10. /\ 100 * cost <= tracker.equity * MaxRiskPerTradePct
         /\ 100 * (value + cost) <= tracker.equity * MaxPositionPct
    <3>1. value \in Int
      BY <2>2 DEF value
    <3> QED
      BY <2>4, <2>6, <2>8, <2>9, <3>1
  <2>11. 100 * (ExposureOf(tracker, Symbols) + cost) <= tracker.equity * MaxTotalExposurePct
    <3>1. 100 * (ExposureOf(tracker, Symbols) + notional) <= tracker.equity * MaxTotalExposurePct
      BY <2>1, <2>2, <2>6, <2>9 DEF BreachesTotalCap, TotalExposure
    <3> QED
      BY <2>2, <2>6, <2>8, <2>9, <3>1
  <2>12. SectorOf[intent.symbol] # None =>
           100 * (ExposureOf(tracker, sector) + cost) <= tracker.equity * MaxSectorExposurePct
    <3>1. SectorOf[intent.symbol] # None =>
            100 * (ExposureOf(tracker, sector) + notional)
                <= tracker.equity * MaxSectorExposurePct
      BY <2>1, <2>2, <2>6, <2>9 DEF BreachesSectorCap
    <3> QED
      BY <2>2, <2>6, <2>8, <2>9, <3>1
  <2>13. \A other \in Held(tracker) \ {intent.symbol} :
            <<intent.symbol, other>> \notin TooCorrelated
    BY <2>1 DEF BreachesCorrelation
  <2>14. Admissible(r, intent, qty)
    BY <1>1, <2>10, <2>11, <2>12, <2>13 DEF Admissible, value, cost
  <2> QED
    BY <2>8, <2>14 DEF qty
<1> QED
  BY <1>2, <1>3
=============================================================================
