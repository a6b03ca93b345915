----------------------------- MODULE CircuitBreaker -----------------------------
(****************************************************************************)
(* The three circuit breakers of src/risk/circuit_breaker.py, as operators  *)
(* from the breaker's fields before a call to its fields after it.  The     *)
(* breaker is an object inside the RiskManager, so the modules that use it  *)
(* keep its record in a variable of theirs; BreakerLife is the machine of   *)
(* the object alone.                                                        *)
(*                                                                          *)
(* Money is an integer number of ticks, thresholds are whole percentages:   *)
(* e < (1 - P/100) * x is compared as 100 * e < (100 - P) * x, exactly.     *)
(****************************************************************************)
EXTENDS Common

CONSTANTS
    MaxDrawdownPct,        \* thresholds["max_drawdown_pct"] * 100
    DailyLossPct,          \* thresholds["daily_loss_pct"] * 100
    MaxConsecutiveLosses   \* thresholds["consecutive_losses"]

ASSUME ThresholdsAssumption ==
    /\ MaxDrawdownPct \in 0..100
    /\ DailyLossPct \in 0..100
    /\ MaxConsecutiveLosses \in Nat \ {0}

Reasons == {"max_drawdown", "daily_loss", "consecutive_losses"}

\* `reason` is the argument of the last on_trip callback: the alert that the
\* composition root sends.
Breakers ==
    [halted            : BOOLEAN,
     startOfDayEquity  : Int \union {None},
     peakEquity        : Int \union {None},
     lossStreak        : Nat,
     dayRealized       : Int,
     dayTradeCount     : Nat,
     reason            : Reasons \union {None}]

NewBreaker ==
    [halted |-> FALSE, startOfDayEquity |-> None, peakEquity |-> None,
     lossStreak |-> 0, dayRealized |-> 0, dayTradeCount |-> 0, reason |-> None]

----------------------------------------------------------------------------

\* Wrong on purpose: the alert of a later breach replaces the first one's.
TripAgain(b, why) == [b EXCEPT !.halted = TRUE, !.reason = why]

\* A breaker already tripped ignores later breaches: one callback per halt.
Trip(b, why) ==
    IF b.halted THEN b ELSE [b EXCEPT !.halted = TRUE, !.reason = why]

\* max(self._peak_equity or equity, equity): a peak of 0.0 is falsy in Python
\* and is taken for "no peak yet".
RaisedPeak(peak, equity) ==
    IF peak \in {None, 0} \/ equity > peak THEN equity ELSE peak

\* Wrong on purpose: a day without trades breaks the streak.
SettleIdleDay(b) ==
    LET streak == IF b.dayRealized < 0 THEN b.lossStreak + 1 ELSE 0
        settled == [b EXCEPT !.lossStreak = streak, !.dayRealized = 0, !.dayTradeCount = 0]
    IN  IF streak >= MaxConsecutiveLosses THEN Trip(settled, "consecutive_losses") ELSE settled

\* Wrong on purpose: trips one losing day late.
SettleDayLate(b) ==
    LET streak == IF b.dayRealized < 0 THEN b.lossStreak + 1 ELSE 0
        settled == [b EXCEPT !.lossStreak = streak, !.dayRealized = 0, !.dayTradeCount = 0]
    IN  IF b.dayTradeCount = 0 THEN b
        ELSE IF streak > MaxConsecutiveLosses THEN Trip(settled, "consecutive_losses")
        ELSE settled

\* _settle_day: the finished day is red, or breaks the streak, or had no
\* closed trade and says nothing.
SettleDay(b) ==
    LET losing  == b.dayRealized < 0
        settled == [b EXCEPT !.lossStreak = IF losing THEN @ + 1 ELSE 0,
                             !.dayRealized = 0, !.dayTradeCount = 0]
    IN  IF b.dayTradeCount = 0 THEN b
        ELSE IF losing /\ settled.lossStreak >= MaxConsecutiveLosses
             THEN Trip(settled, "consecutive_losses")
             ELSE settled

\* Wrong on purpose: a new day lifts the halt.
StartOfDayResumes(b, equity) ==
    [SettleDay(b) EXCEPT !.startOfDayEquity = equity,
                         !.peakEquity = RaisedPeak(@, equity), !.halted = FALSE]

StartOfDay(b, equity) ==
    LET settled == SettleDay(b)
    IN  [settled EXCEPT !.startOfDayEquity = equity,
                        !.peakEquity = RaisedPeak(@, equity)]

OnEquityUpdate(b, equity) ==
    LET raised == [b EXCEPT !.peakEquity = RaisedPeak(@, equity)]
    IN  IF Below(equity, MaxDrawdownPct, raised.peakEquity)
        THEN Trip(raised, "max_drawdown")
        ELSE IF /\ b.startOfDayEquity # None
                /\ Below(equity, DailyLossPct, b.startOfDayEquity)
             THEN Trip(raised, "daily_loss")
             ELSE raised

OnTradeClosed(b, pnl) ==
    [b EXCEPT !.dayRealized = @ + pnl, !.dayTradeCount = @ + 1]

\* reset_circuit_breaker leaves the peak and the day's opening equity alone.
ResetCircuitBreaker(b) ==
    [b EXCEPT !.halted = FALSE, !.lossStreak = 0,
              !.dayRealized = 0, !.dayTradeCount = 0]
=============================================================================
