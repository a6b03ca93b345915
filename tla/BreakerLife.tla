------------------------------ MODULE BreakerLife ------------------------------
(****************************************************************************)
(* One CircuitBreaker from construction on: any caller may call any public  *)
(* method in any order.  `calls` remembers them, so that the properties can *)
(* say what the incremental fields (peak, streak, day P&L) have to mean in  *)
(* terms of everything that was ever reported.                              *)
(****************************************************************************)
EXTENDS CircuitBreaker, Sequences, FiniteSets, FiniteSetsExt, Functions

CONSTANTS
    Equities,   \* equities a caller reports
    Pnls,       \* realized P&L of a closed trade, never 0 (manager.py:103)
    MaxCalls    \* bound: length of the history

ASSUME HistoryAssumption ==
    /\ Equities \subseteq Int
    /\ Pnls \subseteq Int \ {0}
    /\ MaxCalls \in Nat

VARIABLES breaker, calls

vars == <<breaker, calls>>

Calls == [op : {"day", "equity", "trade", "reset"}, value : Int]

TypeOK ==
    /\ breaker \in Breakers
    /\ calls \in Seq(Calls)

Init ==
    /\ breaker = NewBreaker
    /\ calls = <<>>

Record(op, value) ==
    /\ Len(calls) < MaxCalls
    /\ calls' = Append(calls, [op |-> op, value |-> value])

NewDay(equity) ==
    /\ Record("day", equity)
    /\ breaker' = StartOfDay(breaker, equity)

EquityUpdate(equity) ==
    /\ Record("equity", equity)
    /\ breaker' = OnEquityUpdate(breaker, equity)

TradeClosed(pnl) ==
    /\ Record("trade", pnl)
    /\ breaker' = OnTradeClosed(breaker, pnl)

ManualReset ==
    /\ Record("reset", 0)
    /\ breaker' = ResetCircuitBreaker(breaker)

Next ==
    \/ \E e \in Equities : NewDay(e) \/ EquityUpdate(e)
    \/ \E p \in Pnls : TradeClosed(p)
    \/ ManualReset

Spec == Init /\ [][Next]_vars

----------------------------------------------------------------------------
\* What the history says, with no incremental state.

At(op, i) == {j \in 1..i : calls[j].op = op}

LastOr(S, default) == IF S = {} THEN default ELSE Max(S)

LastReset(i) == LastOr(At("reset", i), 0)

HighestEquity(i) ==
    Max({calls[j].value : j \in At("day", i) \union At("equity", i)})

\* The trades closed in the day that a day boundary at i ends.
TradesOfDay(i) ==
    LET opened == LastOr(At("day", i - 1) \union At("reset", i - 1), 0)
    IN  {j \in At("trade", i) : j > opened}

Values == [j \in DOMAIN calls |-> calls[j].value]

DayPnl(i) == SumFunctionOnSet(Values, TradesOfDay(i))

LosingDay(i)  == TradesOfDay(i) # {} /\ DayPnl(i) < 0
WinningDay(i) == TradesOfDay(i) # {} /\ DayPnl(i) >= 0

\* The losing days that a boundary at i closes in a row, days without closed
\* trades skipped.
StreakAt(i) ==
    LET broken == LastOr({j \in At("day", i) : WinningDay(j)} \union At("reset", i), 0)
    IN  Cardinality({j \in At("day", i) : j > broken /\ LosingDay(j)})

DrawdownBreach(i) ==
    calls[i].op = "equity" /\ Below(calls[i].value, MaxDrawdownPct, HighestEquity(i))

DailyLossBreach(i) ==
    /\ calls[i].op = "equity"
    /\ At("day", i) # {}
    /\ Below(calls[i].value, DailyLossPct, calls[Max(At("day", i))].value)

StreakBreach(i) ==
    /\ calls[i].op = "day"
    /\ LosingDay(i)
    /\ StreakAt(i) >= MaxConsecutiveLosses

Breaches ==
    {i \in (LastReset(Len(calls)) + 1)..Len(calls) :
        DrawdownBreach(i) \/ DailyLossBreach(i) \/ StreakBreach(i)}

----------------------------------------------------------------------------

\* circuit_breaker.py:1-10: trading is halted exactly when one of the three
\* documented conditions has held at some call since the last manual reset,
\* evaluated on the whole history: no order of day boundaries, idle days,
\* resets, equal or zero equities loses a breach or invents one.
HaltedIffBreached == breaker.halted <=> Breaches # {}

\* circuit_breaker.py:95-100: the one alert of a halt names the FIRST breach,
\* drawdown before daily loss when one update breaches both.
AlertNamesFirstBreach ==
    breaker.halted =>
        LET first == Min(Breaches)
        IN  breaker.reason = IF DrawdownBreach(first) THEN "max_drawdown"
                             ELSE IF DailyLossBreach(first) THEN "daily_loss"
                             ELSE "consecutive_losses"

\* circuit_breaker.py:83-93: a streak that has reached the limit is halted, and
\* stays a halt through days that lengthen it; only the manual reset clears both.
LongStreakIsHalted ==
    breaker.lossStreak >= MaxConsecutiveLosses => breaker.halted

\* circuit_breaker.py:14, 75-76: "no auto-reset of any kind": a halt, and the
\* reason that was alerted for it, survive every call but the manual reset.
OnlyResetResumes ==
    [][breaker.halted /\ ~ManualReset
        => breaker'.halted /\ breaker'.reason = breaker.reason]_vars
=============================================================================
