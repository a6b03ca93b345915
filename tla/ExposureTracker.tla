----------------------------- MODULE ExposureTracker -----------------------------
(****************************************************************************)
(* src/risk/exposure_tracker.py: positions and equity as validate() sees    *)
(* them, updated by fill events and replaced by a REST re-sync.  Operators  *)
(* from a tracker record to the next one; every one is a critical section   *)
(* of the tracker's lock.                                                   *)
(*                                                                          *)
(* `positions` is total: a symbol without an entry in the dict is Flat.     *)
(* Prices and money are integers; the weighted average is \div, exact when  *)
(* the price tick is divisible by the quantities that occur (the instances  *)
(* choose it so, and TrackerLife's ledger property fails where it is not).  *)
(****************************************************************************)
EXTENDS Market, FiniteSetsExt, Functions

ASSUME SymbolsAssumption == IsFiniteSet(Symbols)

Flat == [qty |-> 0, avgPrice |-> 0, lastPrice |-> 0]

Positions == [qty : Int, avgPrice : Int, lastPrice : Int]

Trackers == [positions : [Symbols -> Positions], equity : Int]

NewTracker == [positions |-> [s \in Symbols |-> Flat], equity |-> 0]

----------------------------------------------------------------------------

Increases(pos, fill) == pos.qty * Signed(fill) >= 0

\* Wrong on purpose: the whole fill counts as closed, also what crosses zero.
RealizedOnWholeFill(pos, fill) ==
    IF Increases(pos, fill) THEN 0
    ELSE (fill.price - pos.avgPrice) * fill.qty * (IF pos.qty > 0 THEN 1 ELSE -1)

Realized(pos, fill) ==
    IF Increases(pos, fill) THEN 0
    ELSE (fill.price - pos.avgPrice) * Least(fill.qty, Abs(pos.qty))
            * (IF pos.qty > 0 THEN 1 ELSE -1)

\* Wrong on purpose: the old price is weighted with the new quantity.
EntryPriceOverweighted(pos, fill) ==
    LET newQty == pos.qty + Signed(fill)
    IN  IF Increases(pos, fill) /\ newQty # 0
        THEN (Abs(newQty) * pos.avgPrice + fill.qty * fill.price) \div Abs(newQty)
        ELSE pos.avgPrice

\* The entry price after a fill: weighted while the position grows, the fill's
\* price for what is left after crossing zero, unchanged while it shrinks.
EntryPrice(pos, fill) ==
    LET newQty == pos.qty + Signed(fill)
    IN  IF Increases(pos, fill)
        THEN IF newQty = 0 THEN pos.avgPrice
             ELSE (Abs(pos.qty) * pos.avgPrice + fill.qty * fill.price) \div Abs(newQty)
        ELSE IF fill.qty > Abs(pos.qty) THEN fill.price ELSE pos.avgPrice

\* A position that returns to zero is popped from the dict.
FilledPosition(pos, fill) ==
    LET newQty == pos.qty + Signed(fill)
    IN  IF newQty = 0 THEN Flat
        ELSE [qty |-> newQty, avgPrice |-> EntryPrice(pos, fill), lastPrice |-> fill.price]

\* on_fill; the value it returns is Realized of the position before it.
TrackFill(tracker, fill) ==
    [positions |-> [tracker.positions EXCEPT ![fill.symbol] = FilledPosition(@, fill)],
     equity    |-> tracker.equity + Realized(tracker.positions[fill.symbol], fill)]

\* sync_from_api: `snapshot` is the broker's answer, one record per symbol with
\* quantity 0 for a symbol it does not list.
SyncFromApi(snapshot, equity) ==
    [positions |-> [s \in Symbols |->
        LET p == snapshot[s]
        IN  IF p.qty = 0 THEN Flat
            ELSE [qty |-> p.qty, avgPrice |-> p.avgPrice,
                  lastPrice |-> IF p.marketValue = None THEN p.avgPrice
                                ELSE Abs(p.marketValue) \div Abs(p.qty)]],
     equity |-> equity]

----------------------------------------------------------------------------
\* Reads for validate().

PositionQty(tracker, s)   == tracker.positions[s].qty
PositionValue(tracker, s) == Abs(tracker.positions[s].qty) * tracker.positions[s].lastPrice

Held(tracker) == {s \in Symbols : tracker.positions[s].qty # 0}

ExposureOf(tracker, S) == SumFunctionOnSet([s \in Symbols |-> PositionValue(tracker, s)], S)
TotalExposure(tracker) == ExposureOf(tracker, Symbols)
=============================================================================
