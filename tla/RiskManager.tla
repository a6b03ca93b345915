------------------------------- MODULE RiskManager -------------------------------
(****************************************************************************)
(* src/risk/manager.py and src/risk/kelly.py: the gate every order intent   *)
(* passes, and the two callbacks both engines make.  A risk record holds    *)
(* the two objects the manager owns references to:                          *)
(*    [tracker, breaker].                                                   *)
(* validate() reads and changes nothing, and no call of its may fail except *)
(* kelly_fraction's configuration guard, which KellyAssumption excludes.    *)
(*                                                                          *)
(* Percentages are whole; a signal's strength is in -100..100; a notional   *)
(* and a quantity are rounded down to whole ticks and whole shares (the     *)
(* code trades fractions of a share), always towards the smaller order.     *)
(****************************************************************************)
EXTENDS CircuitBreaker, ExposureTracker

CONSTANTS
    KellyPct,              \* risk.kelly_fraction
    MaxRiskPerTradePct, MaxPositionPct, MaxTotalExposurePct, MaxSectorExposurePct,
    WinRatePct, AvgWin, AvgLoss,     \* strategy.stats
    SectorOf,              \* sector_map: [Symbols -> sector or None]
    TooCorrelated          \* pairs whose known |correlation| > max_correlation

ASSUME KellyAssumption == KellyPct \in 0..50   \* kelly.py:24, half-Kelly

ASSUME CapsAssumption ==
    /\ {MaxRiskPerTradePct, MaxPositionPct, MaxTotalExposurePct,
        MaxSectorExposurePct, WinRatePct} \subseteq 0..100
    /\ AvgWin \in Int /\ AvgLoss \in Int
    /\ DOMAIN SectorOf = Symbols
    /\ TooCorrelated \subseteq Symbols \X Symbols

Risks == [tracker : Trackers, breaker : Breakers]

Intents == [symbol : Symbols, side : Sides, qty : Nat, strength : -100..100,
            price : Nat \ {0}]

\* Python's None is no intent.
ASSUME IntentAssumption == None \notin Intents

----------------------------------------------------------------------------

\* full_kelly * fraction * equity * |strength|, with full_kelly =
\* win_rate - (1 - win_rate) / (avg_win / avg_loss), floored at no trade.
KellyNotional(equity, strength) ==
    LET edge == WinRatePct * AvgWin - (100 - WinRatePct) * AvgLoss
    IN  IF AvgWin <= 0 \/ AvgLoss <= 0 \/ edge <= 0 THEN 0
        ELSE Percent((equity * edge * KellyPct) \div (100 * AvgWin * 100), Abs(strength))

\* Wrong on purpose: closing the whole position is not a reduction.
IsReducingInPart(tracker, intent) ==
    LET existing == PositionQty(tracker, intent.symbol)
    IN  /\ \/ intent.side = "sell" /\ existing > 0
           \/ intent.side = "buy" /\ existing < 0
        /\ intent.qty < Abs(existing)

IsReducing(tracker, intent) ==
    LET existing == PositionQty(tracker, intent.symbol)
    IN  /\ \/ intent.side = "sell" /\ existing > 0
           \/ intent.side = "buy" /\ existing < 0
        /\ intent.qty <= Abs(existing)

\* Wrong on purpose: the new order is left out of the sum.
BreachesSectorCapAlready(tracker, symbol, notional) ==
    LET peers == {s \in Symbols : SectorOf[s] = SectorOf[symbol]}
    IN  /\ SectorOf[symbol] # None
        /\ 100 * ExposureOf(tracker, peers) > tracker.equity * MaxSectorExposurePct

BreachesSectorCap(tracker, symbol, notional) ==
    LET peers == {s \in Symbols : SectorOf[s] = SectorOf[symbol]}
    IN  /\ SectorOf[symbol] # None
        /\ 100 * (ExposureOf(tracker, peers) + notional)
              > tracker.equity * MaxSectorExposurePct

BreachesTotalCap(tracker, notional) ==
    100 * (TotalExposure(tracker) + notional) > tracker.equity * MaxTotalExposurePct

BreachesCorrelation(tracker, symbol) ==
    \E other \in Held(tracker) \ {symbol} : <<symbol, other>> \in TooCorrelated

\* Wrong on purpose: step 4 is skipped.
CappedNotionalPerTrade(tracker, intent, wanted) ==
    Least(wanted, Percent(tracker.equity, MaxRiskPerTradePct))

\* Steps 3 and 4 shrink the order, never reject it by themselves.
CappedNotional(tracker, intent, wanted) ==
    Least(Least(wanted, Percent(tracker.equity, MaxRiskPerTradePct)),
          Percent(tracker.equity, MaxPositionPct) - PositionValue(tracker, intent.symbol))

Approve(qty)   == [approved |-> TRUE, qty |-> qty, reason |-> "ok"]
Reject(reason) == [approved |-> FALSE, qty |-> 0, reason |-> reason]

\* The pipeline, in its order; the first check that fails names the reason.
Validate(risk, intent) ==
    LET tracker  == risk.tracker
        wanted   == KellyNotional(tracker.equity, intent.strength)
        notional == CappedNotional(tracker, intent, wanted)
    IN  IF risk.breaker.halted THEN Reject("circuit_breaker")
        ELSE IF IsReducing(tracker, intent) THEN
            Approve(Least(intent.qty, Abs(PositionQty(tracker, intent.symbol))))
        ELSE IF wanted <= 0 THEN Reject("kelly_zero")
        ELSE IF notional <= 0 THEN Reject("position_cap")
        ELSE IF BreachesTotalCap(tracker, notional) THEN Reject("total_exposure")
        ELSE IF BreachesSectorCap(tracker, intent.symbol, notional) THEN Reject("sector_cap")
        ELSE IF BreachesCorrelation(tracker, intent.symbol) THEN Reject("correlation")
        ELSE Approve(notional \div intent.price)

\* on_fill: a close that realizes exactly nothing is not reported as a trade.
RiskOnFill(risk, fill) ==
    LET realized == Realized(risk.tracker.positions[fill.symbol], fill)
        tracker  == TrackFill(risk.tracker, fill)
        settled  == IF realized = 0 THEN risk.breaker
                    ELSE OnTradeClosed(risk.breaker, realized)
    IN  [tracker |-> tracker, breaker |-> OnEquityUpdate(settled, tracker.equity)]

RiskOnNewDay(risk, equity) ==
    [tracker |-> risk.tracker, breaker |-> StartOfDay(risk.breaker, equity)]

----------------------------------------------------------------------------

\* What an approval is worth: trading is not halted, and the order either only
\* shrinks a position or, added at its reference price to what the tracker
\* shows, stays inside the per-trade, position, total and sector caps.
Admissible(risk, intent, qty) ==
    LET tracker == risk.tracker
        held    == PositionQty(tracker, intent.symbol)
        cost    == qty * intent.price
        sector  == {s \in Symbols : SectorOf[s] = SectorOf[intent.symbol]}
    IN  /\ ~risk.breaker.halted
        /\ \/ intent.side = "sell" /\ 0 < held /\ qty <= held
           \/ intent.side = "buy" /\ held < 0 /\ qty <= -held
           \/ /\ 100 * cost <= tracker.equity * MaxRiskPerTradePct
              /\ 100 * (PositionValue(tracker, intent.symbol) + cost)
                    <= tracker.equity * MaxPositionPct
              /\ 100 * (ExposureOf(tracker, Symbols) + cost)
                    <= tracker.equity * MaxTotalExposurePct
              /\ SectorOf[intent.symbol] # None =>
                    100 * (ExposureOf(tracker, sector) + cost)
                        <= tracker.equity * MaxSectorExposurePct
              /\ \A other \in Held(tracker) \ {intent.symbol} :
                    <<intent.symbol, other>> \notin TooCorrelated
=============================================================================
