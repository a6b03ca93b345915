------------------------------ MODULE BreakerProofs ------------------------------
(****************************************************************************)
(* Theorems about BreakerLife: for all thresholds, equities and P&Ls, and   *)
(* for call histories of any length (no proof uses the bound MaxCalls).     *)
(****************************************************************************)
EXTENDS BreakerLife, RiskTheorems, SequenceTheorems

\* The streak condition on the breaker alone, so that it can be carried through
\* the calls that another one is made of.
StreakHalts(b) == b.lossStreak >= MaxConsecutiveLosses => b.halted

\* circuit_breaker.py:95-100
LEMMA TripType ==
    ASSUME NEW b \in Breakers, NEW why \in Reasons
    PROVE  /\ Trip(b, why) \in Breakers
           /\ Trip(b, why).halted
           /\ Trip(b, why).lossStreak = b.lossStreak
           /\ b.halted => Trip(b, why) = b
BY DEF Trip, Breakers

\* circuit_breaker.py:53, 57: a raised peak is a number.
LEMMA RaisedPeakType ==
    ASSUME NEW peak \in Int \union {None}, NEW equity \in Int
    PROVE  RaisedPeak(peak, equity) \in Int
BY DEF RaisedPeak

\* circuit_breaker.py:83-93
LEMMA SettleDayType ==
    ASSUME NEW b \in Breakers, StreakHalts(b)
    PROVE  /\ SettleDay(b) \in Breakers
           /\ StreakHalts(SettleDay(b))
           /\ b.halted => SettleDay(b).halted /\ SettleDay(b).reason = b.reason
<1> DEFINE losing  == b.dayRealized < 0
           streak  == IF losing THEN b.lossStreak + 1 ELSE 0
           settled == [b EXCEPT !.lossStreak = streak, !.dayRealized = 0, !.dayTradeCount = 0]
<1>1. /\ settled \in Breakers
      /\ settled.lossStreak = streak
      /\ settled.halted = b.halted /\ settled.reason = b.reason
  <2>1. streak \in Nat
    BY DEF Breakers
  <2> HIDE DEF streak
  <2>2. settled \in Breakers
    <3>1. \A k \in Nat, pnl \in Int, count \in Nat :
            [b EXCEPT !.lossStreak = k, !.dayRealized = pnl, !.dayTradeCount = count] \in Breakers
      BY DEF Breakers
    <3>2. 0 \in Int /\ 0 \in Nat
      OBVIOUS
    <3> QED
      BY <2>1, <3>1, <3>2, Zenon
  <2>3. settled.lossStreak = streak
    BY <2>1 DEF Breakers
  <2>4. settled.halted = b.halted /\ settled.reason = b.reason
    BY <2>1 DEF Breakers
  <2> QED
    BY <2>2, <2>3, <2>4
<1>2. CASE b.dayTradeCount = 0
  BY <1>2 DEF SettleDay
<1>3. CASE b.dayTradeCount # 0 /\ losing /\ settled.lossStreak >= MaxConsecutiveLosses
  <2>1. SettleDay(b) = Trip(settled, "consecutive_losses")
    BY <1>3 DEF SettleDay
  <2>2. "consecutive_losses" \in Reasons
    BY DEF Reasons
  <2> HIDE DEF settled
  <2> QED
    BY <1>1, <2>1, <2>2, TripType DEF StreakHalts
<1>4. CASE b.dayTradeCount # 0 /\ ~(losing /\ settled.lossStreak >= MaxConsecutiveLosses)
  <2>1. SettleDay(b) = settled
    BY <1>4 DEF SettleDay
  <2>2. ~(settled.lossStreak >= MaxConsecutiveLosses)
    BY <1>1, <1>4, ThresholdsAssumption
  <2> HIDE DEF settled
  <2> QED
    BY <1>1, <2>1, <2>2 DEF StreakHalts
<1> QED
  BY <1>2, <1>3, <1>4

\* circuit_breaker.py:48-53
LEMMA StartOfDayType ==
    ASSUME NEW b \in Breakers, StreakHalts(b), NEW equity \in Int
    PROVE  /\ StartOfDay(b, equity) \in Breakers
           /\ StreakHalts(StartOfDay(b, equity))
           /\ b.halted => /\ StartOfDay(b, equity).halted
                          /\ StartOfDay(b, equity).reason = b.reason
<1> DEFINE settled == SettleDay(b)
           peak == RaisedPeak(settled.peakEquity, equity)
<1>1. /\ settled \in Breakers /\ StreakHalts(settled)
      /\ b.halted => settled.halted /\ settled.reason = b.reason
  BY SettleDayType
<1> HIDE DEF settled
<1>2. peak \in Int
  BY <1>1, RaisedPeakType DEF Breakers
<1> HIDE DEF peak
<1>3. StartOfDay(b, equity) = [settled EXCEPT !.startOfDayEquity = equity, !.peakEquity = peak]
  BY DEF StartOfDay, settled, peak
<1> QED
  BY <1>1, <1>2, <1>3 DEF Breakers, StreakHalts

\* circuit_breaker.py:55-67
LEMMA OnEquityUpdateType ==
    ASSUME NEW b \in Breakers, StreakHalts(b), NEW equity \in Int
    PROVE  /\ OnEquityUpdate(b, equity) \in Breakers
           /\ StreakHalts(OnEquityUpdate(b, equity))
           /\ b.halted => /\ OnEquityUpdate(b, equity).halted
                          /\ OnEquityUpdate(b, equity).reason = b.reason
<1> DEFINE peak   == RaisedPeak(b.peakEquity, equity)
           raised == [b EXCEPT !.peakEquity = peak]
<1>1. peak \in Int
  BY RaisedPeakType DEF Breakers
<1> HIDE DEF peak
<1>2. /\ raised \in Breakers /\ raised.lossStreak = b.lossStreak
      /\ raised.halted = b.halted /\ raised.reason = b.reason
  BY <1>1 DEF Breakers
<1> HIDE DEF raised
<1>3. \/ OnEquityUpdate(b, equity) = raised
      \/ \E why \in Reasons : OnEquityUpdate(b, equity) = Trip(raised, why)
  BY DEF OnEquityUpdate, Reasons, raised, peak
<1> QED
  BY <1>2, <1>3, TripType DEF StreakHalts

\* circuit_breaker.py:69-73
LEMMA OnTradeClosedType ==
    ASSUME NEW b \in Breakers, StreakHalts(b), NEW pnl \in Int
    PROVE  /\ OnTradeClosed(b, pnl) \in Breakers
           /\ StreakHalts(OnTradeClosed(b, pnl))
           /\ b.halted => /\ OnTradeClosed(b, pnl).halted
                          /\ OnTradeClosed(b, pnl).reason = b.reason
<1>1. b.dayRealized + pnl \in Int /\ b.dayTradeCount + 1 \in Nat
  BY DEF Breakers
<1> DEFINE d == b.dayRealized + pnl
           n == b.dayTradeCount + 1
           next == [b EXCEPT !.dayRealized = d, !.dayTradeCount = n]
<1> HIDE DEF d, n
<1>2. OnTradeClosed(b, pnl) = next
  BY DEF OnTradeClosed, d, n
<1>3. next \in Breakers
  BY <1>1 DEF Breakers, d, n
<1>4. next.halted = b.halted /\ next.lossStreak = b.lossStreak /\ next.reason = b.reason
  BY DEF Breakers
<1> QED
  BY <1>2, <1>3, <1>4 DEF StreakHalts

\* circuit_breaker.py:75-81
LEMMA ResetType ==
    ASSUME NEW b \in Breakers
    PROVE  /\ ResetCircuitBreaker(b) \in Breakers
           /\ StreakHalts(ResetCircuitBreaker(b))
<1>1. ASSUME NEW halted \in BOOLEAN, NEW streak \in Nat, NEW pnl \in Int, NEW count \in Nat
      PROVE  LET next == [b EXCEPT !.halted = halted, !.lossStreak = streak,
                                   !.dayRealized = pnl, !.dayTradeCount = count]
             IN  next \in Breakers /\ next.lossStreak = streak
  BY DEF Breakers
<1>2. ResetCircuitBreaker(b) \in Breakers /\ ResetCircuitBreaker(b).lossStreak = 0
  <2>1. FALSE \in BOOLEAN /\ 0 \in Int /\ 0 \in Nat
    OBVIOUS
  <2> QED
    BY <1>1, <2>1, Zenon DEF ResetCircuitBreaker
<1> QED
  BY <1>2, ThresholdsAssumption DEF StreakHalts

LEMMA RecordType ==
    ASSUME calls \in Seq(Calls), NEW op \in {"day", "equity", "trade", "reset"},
           NEW value \in Int, Record(op, value)
    PROVE  calls' \in Seq(Calls)
BY AppendProperties DEF Record, Calls

----------------------------------------------------------------------------

IInv == TypeOK /\ LongStreakIsHalted

LEMMA InitIInv == Init => IInv
BY ThresholdsAssumption
   DEF Init, IInv, TypeOK, LongStreakIsHalted, NewBreaker, Breakers, Reasons

\* Every call keeps the invariant, and every call but the reset keeps a halt.
LEMMA CallStep ==
    ASSUME IInv, [Next]_vars
    PROVE  /\ IInv'
           /\ breaker.halted /\ ~ManualReset
                => breaker'.halted /\ breaker'.reason = breaker.reason
<1> USE DEF IInv, TypeOK, LongStreakIsHalted
<1>1. /\ breaker \in Breakers /\ calls \in Seq(Calls) /\ StreakHalts(breaker)
  BY DEF StreakHalts
<1> DEFINE Keeps == /\ breaker' \in Breakers /\ StreakHalts(breaker')
                    /\ breaker.halted => breaker'.halted /\ breaker'.reason = breaker.reason
<1>2. ASSUME NEW e \in Equities, NewDay(e) PROVE calls' \in Seq(Calls) /\ Keeps
  <2>1. e \in Int
    BY HistoryAssumption
  <2> QED
    BY <1>1, <1>2, <2>1, StartOfDayType, RecordType DEF NewDay
<1>3. ASSUME NEW e \in Equities, EquityUpdate(e) PROVE calls' \in Seq(Calls) /\ Keeps
  <2>1. e \in Int
    BY HistoryAssumption
  <2> QED
    BY <1>1, <1>3, <2>1, OnEquityUpdateType, RecordType DEF EquityUpdate
<1>4. ASSUME NEW p \in Pnls, TradeClosed(p) PROVE calls' \in Seq(Calls) /\ Keeps
  <2>1. p \in Int
    BY HistoryAssumption
  <2> QED
    BY <1>1, <1>4, <2>1, OnTradeClosedType, RecordType DEF TradeClosed
<1>5. CASE ManualReset
  <2>1. calls' \in Seq(Calls) /\ breaker' \in Breakers /\ StreakHalts(breaker')
    BY <1>1, <1>5, ResetType, RecordType DEF ManualReset
  <2> QED
    BY <1>5, <2>1 DEF StreakHalts
<1>6. CASE UNCHANGED vars
  BY <1>6 DEF vars
<1>7. ASSUME calls' \in Seq(Calls) /\ Keeps
      PROVE  /\ IInv'
             /\ breaker.halted => breaker'.halted /\ breaker'.reason = breaker.reason
  BY <1>7 DEF StreakHalts
<1> HIDE DEF IInv, TypeOK, LongStreakIsHalted, Keeps
<1> QED
  BY <1>2, <1>3, <1>4, <1>5, <1>6, <1>7 DEF Next

THEOREM IInvHolds == Spec => []IInv
<1>1. IInv /\ [Next]_vars => IInv'
  BY CallStep
<1> QED
  BY <1>1, InitIInv, PTL DEF Spec

\* circuit_breaker.py:32-42: the breaker's fields keep their types through every
\* sequence of calls.
THEOREM TypeCorrect == Spec => []TypeOK
<1>1. IInv => TypeOK
  BY DEF IInv
<1> QED
  BY <1>1, IInvHolds, PTL

\* circuit_breaker.py:83-93: no sequence of calls leaves a streak at its limit and
\* trading enabled.
THEOREM StreakAlwaysHalts == Spec => []LongStreakIsHalted
<1>1. IInv => LongStreakIsHalted
  BY DEF IInv
<1> QED
  BY <1>1, IInvHolds, PTL

\* circuit_breaker.py:14, 75-76: "no auto-reset of any kind".
THEOREM NoAutoReset == Spec => OnlyResetResumes
<1>1. IInv /\ [Next]_vars =>
        (breaker.halted /\ ~ManualReset
            => breaker'.halted /\ breaker'.reason = breaker.reason)
  BY CallStep
<1> QED
  BY <1>1, IInvHolds, PTL DEF Spec, OnlyResetResumes

----------------------------------------------------------------------------
\* The breaker and its history: what the incremental fields mean.

Ops == {"day", "equity", "trade", "reset"}

LEMMA LastOfCalls ==
    ASSUME NEW n \in Nat, NEW S \in SUBSET (1..n)
    PROVE  /\ IsFiniteSet(S)
           /\ LastOr(S, 0) \in 0..n
           /\ \A j \in S : j <= LastOr(S, 0)
           /\ S # {} => Max(S) \in S /\ \A j \in S : j <= Max(S)
           /\ \A d : LastOr(S \union {n+1}, d) = n + 1 /\ Max(S \union {n+1}) = n + 1
<1> DEFINE T == S \union {n+1}
<1>1. IsFiniteSet(1..n) /\ IsFiniteSet(1..n+1)
  BY FS_Interval
<1>2. IsFiniteSet(S) /\ IsFiniteSet(T)
  <2>1. S \subseteq 1..n /\ T \subseteq 1..n+1
    OBVIOUS
  <2> HIDE DEF T
  <2> QED
    BY <1>1, <2>1, FS_Subset
<1>3. S # {} => Max(S) \in S /\ \A j \in S : j <= Max(S)
  <2>1. S \subseteq Int
    OBVIOUS
  <2> QED
    BY <1>2, <2>1, GreatestMember
<1>4. Max(T) = n + 1
  <2>1. T \subseteq Int /\ T # {} /\ n + 1 \in T /\ \A j \in T : j \in Int /\ j <= n + 1
    OBVIOUS
  <2> HIDE DEF T
  <2>2. Max(T) \in T /\ n + 1 <= Max(T)
    BY <1>2, <2>1, GreatestMember
  <2>3. Max(T) \in Int /\ Max(T) <= n + 1
    BY <2>1, <2>2
  <2> QED
    BY <2>2, <2>3
<1>5. \A d : LastOr(T, d) = n + 1
  BY <1>4 DEF LastOr
<1>6. LastOr(S, 0) \in 0..n /\ \A j \in S : j <= LastOr(S, 0)
  <2>1. CASE S = {}
    BY <2>1 DEF LastOr
  <2>2. CASE S # {}
    <3>1. LastOr(S, 0) = Max(S)
      BY <2>2 DEF LastOr
    <3>2. Max(S) \in 1..n
      BY <1>3, <2>2
    <3> QED
      BY <1>3, <2>2, <3>1, <3>2
  <2> QED
    BY <2>1, <2>2
<1> QED
  BY <1>2, <1>3, <1>4, <1>5, <1>6

----------------------------------------------------------------------------
\* One call later.

\* The call with number n + 1 is made.
Extends(n, op, value) ==
    /\ calls \in Seq(Calls) /\ calls' \in Seq(Calls)
    /\ Len(calls) = n /\ Len(calls') = n + 1
    /\ calls'[n + 1] = [op |-> op, value |-> value]
    /\ \A j \in 1..n : calls'[j] = calls[j]

LEMMA RecordExtends ==
    ASSUME calls \in Seq(Calls), NEW op \in Ops, NEW value \in Int, Record(op, value)
    PROVE  \E n \in Nat : Extends(n, op, value)
BY AppendProperties DEF Record, Calls, Extends, Ops

LEMMA AtType ==
    ASSUME calls \in Seq(Calls), NEW op, NEW i \in Nat
    PROVE  At(op, i) \in SUBSET (1..i)
BY DEF At

\* What was called before keeps its place.
LEMMA AtKept ==
    ASSUME NEW n \in Nat, NEW op \in Ops, NEW value \in Int, Extends(n, op, value)
    PROVE  /\ \A o \in Ops : \A i \in 0..n : At(o, i)' = At(o, i)
           /\ \A o \in Ops \ {op} : At(o, n + 1)' = At(o, n)
           /\ At(op, n + 1)' = At(op, n) \union {n + 1}
<1>1. /\ n \in Nat /\ calls'[n+1].op = op
      /\ \A j \in 1..n : calls'[j] = calls[j]
  BY DEF Extends
<1>2. \A o \in Ops : \A i \in 0..n : At(o, i)' = At(o, i)
  BY <1>1 DEF At
<1>5. \A j \in 1..n+1 : j \in 1..n \/ j = n + 1
  BY <1>1
<1>6. n + 1 \in 1..n+1 /\ n + 1 \notin 1..n /\ \A j \in 1..n : j \in 1..n+1
  BY <1>1
<1>3. \A o \in Ops \ {op} : At(o, n + 1)' = At(o, n)
  <2> SUFFICES ASSUME NEW o \in Ops \ {op} PROVE At(o, n + 1)' = At(o, n)
    OBVIOUS
  <2>1. {j \in 1..n+1 : calls'[j].op = o} = {j \in 1..n : calls[j].op = o}
    BY <1>1, <1>5, <1>6
  <2> QED
    BY <2>1 DEF At
<1>4. At(op, n + 1)' = At(op, n) \union {n + 1}
  <2>1. {j \in 1..n+1 : calls'[j].op = op} = {j \in 1..n : calls[j].op = op} \union {n + 1}
    BY <1>1, <1>5, <1>6
  <2> QED
    BY <2>1 DEF At
<1> QED
  BY <1>2, <1>3, <1>4

Boundary(i) == LastOr(At("day", i) \union At("reset", i), 0)

LEMMA TradesKept ==
    ASSUME NEW n \in Nat, NEW op \in Ops, NEW value \in Int, Extends(n, op, value), NEW i \in 1..n
    PROVE  /\ TradesOfDay(i)' = TradesOfDay(i) /\ DayPnl(i)' = DayPnl(i)
           /\ LosingDay(i)' = LosingDay(i) /\ WinningDay(i)' = WinningDay(i)
           /\ TradesOfDay(i) \in SUBSET (1..i)
<1>1. /\ "day" \in Ops /\ "reset" \in Ops /\ "trade" \in Ops
      /\ i \in 0..n /\ i - 1 \in 0..n /\ i \in Nat
  BY DEF Extends, Ops
<1>2. /\ At("trade", i)' = At("trade", i) /\ At("day", i - 1)' = At("day", i - 1)
      /\ At("reset", i - 1)' = At("reset", i - 1)
  BY <1>1, AtKept
<1>3. TradesOfDay(i)' = TradesOfDay(i)
  BY <1>2, Zenon DEF TradesOfDay
<1>4. TradesOfDay(i) \in SUBSET (1..i)
  <2>1. At("trade", i) \in SUBSET (1..i)
    BY <1>1, AtType DEF Extends
  <2> QED
    BY <2>1 DEF TradesOfDay
<1>5. DayPnl(i)' = DayPnl(i)
  <2> DEFINE S == TradesOfDay(i)
             f == Values
             g == Values'
  <2>1. IsFiniteSet(S)
    BY <1>1, <1>4, LastOfCalls
  <2>2. \A j \in S : g[j] = f[j]
    BY <1>1, <1>4 DEF Values, Extends
  <2> HIDE DEF S, f, g
  <2>3. SumFunctionOnSet(g, S) = SumFunctionOnSet(f, S)
    BY <2>1, <2>2, SumCongruent
  <2>4. DayPnl(i) = SumFunctionOnSet(f, S)
    BY DEF DayPnl, f, S
  <2>5. DayPnl(i)' = SumFunctionOnSet(g, S)
    BY <1>3, Zenon DEF DayPnl, g, S
  <2> QED
    BY <2>3, <2>4, <2>5
<1>6. LosingDay(i)' = LosingDay(i) /\ WinningDay(i)' = WinningDay(i)
  BY <1>3, <1>5, Zenon DEF LosingDay, WinningDay
<1> QED
  BY <1>3, <1>4, <1>5, <1>6

----------------------------------------------------------------------------
\* The inductive invariant: every field of the breaker as a function of the
\* history, with n the number of calls made.

Heard(n) == At("day", n) \union At("equity", n)

\* A peak of 0 is falsy and is dropped by the next, negative, equity: then the
\* breaker's peak is below the highest equity, which is 0.
PeakMeans(n) ==
    IF Heard(n) = {}
    THEN breaker.peakEquity = None
    ELSE /\ breaker.peakEquity \in Int
         /\ \/ breaker.peakEquity = HighestEquity(n)
            \/ breaker.peakEquity < 0 /\ HighestEquity(n) = 0

OpeningMeans(n) ==
    breaker.startOfDayEquity =
        IF At("day", n) = {} THEN None ELSE calls[Max(At("day", n))].value

Today(n) == {j \in At("trade", n) : j > Boundary(n)}

TodayMeans(n) ==
    /\ breaker.dayTradeCount = 0 <=> Today(n) = {}
    /\ breaker.dayRealized = SumFunctionOnSet(Values, Today(n))

StreakMeans(n) == breaker.lossStreak = StreakAt(n)

FieldsMean(n) ==
    PeakMeans(n) /\ OpeningMeans(n) /\ TodayMeans(n) /\ StreakMeans(n)

HistoryInv ==
    /\ TypeOK
    /\ \A n \in Nat : n = Len(calls) => FieldsMean(n)
    /\ HaltedIffBreached
    /\ AlertNamesFirstBreach

----------------------------------------------------------------------------
\* What the history said of earlier calls, it still says one call later.

LEMMA GreatestIs ==
    ASSUME NEW S, IsFiniteSet(S), S \subseteq Int, NEW m \in S, \A y \in S : y <= m
    PROVE  Max(S) = m
<1>1. Max(S) \in S /\ m <= Max(S)
  BY GreatestMember
<1>2. Max(S) <= m /\ Max(S) \in Int /\ m \in Int
  BY <1>1
<1> QED
  BY <1>1, <1>2

LEMMA LeastIs ==
    ASSUME NEW S, IsFiniteSet(S), S \subseteq Int, NEW m \in S, \A y \in S : m <= y
    PROVE  Min(S) = m
<1>1. Min(S) \in S /\ Min(S) <= m
  BY LeastMember
<1>2. m <= Min(S) /\ Min(S) \in Int /\ m \in Int
  BY <1>1
<1> QED
  BY <1>1, <1>2

LEMMA MaxWith ==
    ASSUME NEW S, IsFiniteSet(S), S \subseteq Int, NEW v \in Int
    PROVE  /\ S = {} => Max(S \union {v}) = v
           /\ S # {} => /\ Max(S) \in Int
                       /\ Max(S \union {v}) = IF v > Max(S) THEN v ELSE Max(S)
<1> DEFINE T == S \union {v}
<1>1. IsFiniteSet(T)
  BY FS_AddElement
<1>2. T \subseteq Int /\ v \in T /\ \A y \in T : y \in S \/ y = v
  OBVIOUS
<1>3. S \subseteq T
  OBVIOUS
<1> HIDE DEF T
<1>4. CASE S = {}
  <2>1. \A y \in T : y <= v
    BY <1>2, <1>4
  <2>2. Max(T) = v
    BY <1>1, <1>2, <2>1, GreatestIs
  <2> QED
    BY <1>4, <2>2 DEF T
<1>5. CASE S # {}
  <2>1. Max(S) \in S /\ \A y \in S : y <= Max(S)
    BY <1>5, GreatestMember
  <2>2. Max(S) \in Int /\ Max(S) \in T
    BY <2>1, <1>3
  <2>3. CASE v > Max(S)
    <3>1. \A y \in T : y <= v
      BY <1>2, <2>1, <2>2, <2>3
    <3>2. Max(T) = v
      BY <1>1, <1>2, <3>1, GreatestIs
    <3> QED
      BY <1>5, <2>2, <2>3, <3>2 DEF T
  <2>4. CASE ~(v > Max(S))
    <3>1. \A y \in T : y <= Max(S)
      BY <1>2, <2>1, <2>2, <2>4
    <3>2. Max(T) = Max(S)
      BY <1>1, <1>2, <2>2, <3>1, GreatestIs
    <3> QED
      BY <1>5, <2>2, <2>4, <3>2 DEF T
  <2> QED
    BY <2>3, <2>4
<1> QED
  BY <1>4, <1>5

\* The equities heard up to call i.
Heights(i) == {calls[j].value : j \in Heard(i)}

LEMMA HeightsType ==
    ASSUME calls \in Seq(Calls), NEW i \in Nat, i <= Len(calls)
    PROVE  /\ Heard(i) \in SUBSET (1..i)
           /\ IsFiniteSet(Heights(i)) /\ Heights(i) \subseteq Int
           /\ Heights(i) = {} <=> Heard(i) = {}
           /\ HighestEquity(i) = Max(Heights(i))
<1>1. Heard(i) \in SUBSET (1..i)
  <2>1. At("day", i) \in SUBSET (1..i) /\ At("equity", i) \in SUBSET (1..i)
    BY AtType
  <2> QED
    BY <2>1 DEF Heard
<1>2. IsFiniteSet(Heard(i))
  BY <1>1, LastOfCalls
<1>3. IsFiniteSet(Heights(i))
  <2> DEFINE H == Heard(i)
             V == Values
  <2>1. IsFiniteSet({V[j] : j \in H})
    <3> HIDE DEF V, H
    <3> QED
      BY <1>2, ImageIsFinite DEF H
  <2>2. \A j \in H : V[j] = calls[j].value
    BY <1>1 DEF Values
  <2>3. Heights(i) = {V[j] : j \in H}
    <3> HIDE DEF V
    <3>1. Heights(i) = {calls[j].value : j \in H}
      BY DEF Heights
    <3> HIDE DEF H
    <3> QED
      BY <2>2, <3>1
  <2> QED
    BY <2>1, <2>3
<1>4. Heights(i) \subseteq Int
  <2>1. \A j \in 1..Len(calls) : calls[j].value \in Int
    <3>1. \A j \in 1..Len(calls) : calls[j] \in Calls
      OBVIOUS
    <3> QED
      BY <3>1 DEF Calls
  <2>2. \A j \in Heard(i) : j \in 1..Len(calls)
    BY <1>1
  <2> QED
    BY <2>1, <2>2 DEF Heights
<1>5. Heights(i) = {} <=> Heard(i) = {}
  BY DEF Heights
<1>6. HighestEquity(i) = Max(Heights(i))
  BY DEF HighestEquity, Heights, Heard
<1> QED
  BY <1>1, <1>3, <1>4, <1>5, <1>6

LEMMA HighestKept ==
    ASSUME NEW n \in Nat, NEW op \in Ops, NEW value \in Int, Extends(n, op, value), NEW i \in 0..n
    PROVE  /\ Heard(i)' = Heard(i) /\ Heights(i)' = Heights(i)
           /\ HighestEquity(i)' = HighestEquity(i)
<1>1. /\ "day" \in Ops /\ "equity" \in Ops /\ i \in Nat /\ i <= Len(calls)
      /\ calls \in Seq(Calls) /\ \A j \in 1..n : calls'[j] = calls[j]
  BY DEF Extends, Ops
<1>2. At("day", i)' = At("day", i) /\ At("equity", i)' = At("equity", i)
  BY <1>1, AtKept
<1>3. Heard(i)' = Heard(i)
  BY <1>2, Zenon DEF Heard
<1>4. \A j \in Heard(i) : j \in 1..n
  <2>1. Heard(i) \in SUBSET (1..i)
    BY <1>1, HeightsType
  <2> QED
    BY <2>1
<1>5. Heights(i)' = Heights(i)
  <2> DEFINE H == Heard(i)
  <2>1. Heights(i)' = {calls'[j].value : j \in H}
    BY <1>3, Zenon DEF Heights
  <2>2. {calls'[j].value : j \in H} = {calls[j].value : j \in H}
    <3> HIDE DEF H
    <3>1. \A j \in H : calls'[j] = calls[j]
      BY <1>1, <1>4 DEF H
    <3> QED
      BY <3>1
  <2> QED
    BY <2>1, <2>2 DEF Heights
<1>6. HighestEquity(i) = Max(Heights(i)) /\ HighestEquity(i)' = Max(Heights(i)')
  BY Zenon DEF HighestEquity, Heights, Heard
<1> QED
  BY <1>3, <1>5, <1>6

\* The streak: the last call that broke it, and the red days since.
Green(i) == {j \in At("day", i) : WinningDay(j)}
Broken(i) == LastOr(Green(i) \union At("reset", i), 0)
Red(i) == {j \in At("day", i) : j > Broken(i) /\ LosingDay(j)}

LEMMA StreakParts ==
    ASSUME calls \in Seq(Calls), NEW i \in Nat
    PROVE  /\ StreakAt(i) = Cardinality(Red(i))
           /\ Green(i) \in SUBSET (1..i) /\ Red(i) \in SUBSET (1..i)
           /\ Broken(i) \in 0..i
<1>1. StreakAt(i) = Cardinality(Red(i))
  BY DEF StreakAt, Red, Broken, Green
<1>2. At("day", i) \in SUBSET (1..i) /\ At("reset", i) \in SUBSET (1..i)
  BY AtType
<1>3. Green(i) \in SUBSET (1..i) /\ Red(i) \in SUBSET (1..i)
  BY <1>2 DEF Green, Red
<1>4. Green(i) \union At("reset", i) \in SUBSET (1..i)
  BY <1>2, <1>3
<1>5. Broken(i) \in 0..i
  BY <1>4, LastOfCalls DEF Broken
<1> QED
  BY <1>1, <1>3, <1>5

LEMMA StreakKept ==
    ASSUME NEW n \in Nat, NEW op \in Ops, NEW value \in Int, Extends(n, op, value), NEW i \in 0..n
    PROVE  /\ Green(i)' = Green(i) /\ Broken(i)' = Broken(i) /\ Red(i)' = Red(i)
           /\ StreakAt(i)' = StreakAt(i)
<1>1. /\ "day" \in Ops /\ "reset" \in Ops /\ i \in Nat /\ calls \in Seq(Calls)
      /\ \A j \in 1..i : j \in 1..n
  BY DEF Extends, Ops
<1>2. At("day", i)' = At("day", i) /\ At("reset", i)' = At("reset", i)
  BY <1>1, AtKept
<1>3. \A j \in At("day", i) : WinningDay(j)' = WinningDay(j) /\ LosingDay(j)' = LosingDay(j)
  <2>1. \A j \in At("day", i) : j \in 1..n
    BY <1>1, AtType
  <2> QED
    BY <2>1, TradesKept
<1>4. Green(i)' = Green(i)
  BY <1>2, <1>3, Zenon DEF Green
<1>5. Broken(i)' = Broken(i)
  BY <1>2, <1>4, Zenon DEF Broken
<1>6. Red(i)' = Red(i)
  BY <1>2, <1>3, <1>5, Zenon DEF Red
<1>7. StreakAt(i) = Cardinality(Red(i)) /\ StreakAt(i)' = Cardinality(Red(i)')
  BY Zenon DEF StreakAt, Red, Broken, Green
<1> QED
  BY <1>4, <1>5, <1>6, <1>7

Breach(i) == DrawdownBreach(i) \/ DailyLossBreach(i) \/ StreakBreach(i)

LEMMA BreachKept ==
    ASSUME NEW n \in Nat, NEW op \in Ops, NEW value \in Int, Extends(n, op, value), NEW i \in 1..n
    PROVE  /\ DrawdownBreach(i)' = DrawdownBreach(i)
           /\ DailyLossBreach(i)' = DailyLossBreach(i)
           /\ StreakBreach(i)' = StreakBreach(i)
           /\ Breach(i)' = Breach(i)
<1>1. /\ "day" \in Ops /\ i \in 0..n /\ i \in Nat /\ calls \in Seq(Calls)
      /\ \A j \in 1..n : calls'[j] = calls[j]
      /\ calls'[i] = calls[i] /\ \A j \in 1..i : j \in 1..n
  BY DEF Extends, Ops
<1>2. HighestEquity(i)' = HighestEquity(i) /\ StreakAt(i)' = StreakAt(i)
  BY <1>1, HighestKept, StreakKept
<1>3. DrawdownBreach(i)' = DrawdownBreach(i)
  BY <1>1, <1>2, Zenon DEF DrawdownBreach
<1>4. DailyLossBreach(i)' = DailyLossBreach(i)
  <2>1. At("day", i)' = At("day", i)
    BY <1>1, AtKept
  <2>2. At("day", i) # {} => calls'[Max(At("day", i))] = calls[Max(At("day", i))]
    <3>1. At("day", i) \in SUBSET (1..i)
      BY <1>1, AtType
    <3>2. At("day", i) # {} => Max(At("day", i)) \in 1..i
      BY <1>1, <3>1, LastOfCalls
    <3> QED
      BY <1>1, <3>2
  <2> QED
    BY <1>1, <2>1, <2>2, Zenon DEF DailyLossBreach
<1>5. StreakBreach(i)' = StreakBreach(i)
  BY <1>1, <1>2, TradesKept, Zenon DEF StreakBreach
<1> QED
  BY <1>3, <1>4, <1>5 DEF Breach

----------------------------------------------------------------------------
\* The peak.

\* circuit_breaker.py:53, 57: a day boundary and an equity update are heard,
\* nothing else is.
LEMMA HeardStep ==
    ASSUME NEW n \in Nat, NEW op \in Ops, NEW value \in Int, Extends(n, op, value)
    PROVE  IF op \in {"day", "equity"}
           THEN /\ Heard(n + 1)' = Heard(n) \union {n + 1}
                /\ Heights(n + 1)' = Heights(n) \union {value}
           ELSE Heard(n + 1)' = Heard(n) /\ Heights(n + 1)' = Heights(n)
<1>1. /\ "day" \in Ops /\ "equity" \in Ops /\ n \in 0..n
      /\ calls'[n+1].value = value
  BY DEF Extends, Ops
<1>2. Heard(n)' = Heard(n) /\ Heights(n)' = Heights(n)
  BY <1>1, HighestKept
<1> DEFINE V == [j \in DOMAIN calls' |-> calls'[j].value]
           H == Heard(n)
<1>3. {calls'[j].value : j \in H} = Heights(n)
  BY <1>2, Zenon DEF Heights
<1>4. CASE op \in {"day", "equity"}
  <2>1. Heard(n + 1)' = Heard(n) \union {n + 1}
    <3>1. CASE op = "day"
      <4>1. At("day", n+1)' = At("day", n) \union {n+1} /\ At("equity", n+1)' = At("equity", n)
        BY <1>1, <3>1, AtKept
      <4>2. Heard(n + 1)' = (At("day", n) \union {n+1}) \union At("equity", n)
        BY <4>1, Zenon DEF Heard
      <4> QED
        BY <4>2 DEF Heard
    <3>2. CASE op = "equity"
      <4>1. At("equity", n+1)' = At("equity", n) \union {n+1} /\ At("day", n+1)' = At("day", n)
        BY <1>1, <3>2, AtKept
      <4>2. Heard(n + 1)' = At("day", n) \union (At("equity", n) \union {n+1})
        BY <4>1, Zenon DEF Heard
      <4> QED
        BY <4>2 DEF Heard
    <3> QED
      BY <1>4, <3>1, <3>2
  <2>2. Heights(n + 1)' = {calls'[j].value : j \in H \union {n + 1}}
    BY <2>1, Zenon DEF Heights
  <2>3. {calls'[j].value : j \in H \union {n + 1}}
            = {calls'[j].value : j \in H} \union {calls'[n+1].value}
    <3> HIDE DEF H
    <3> QED
      OBVIOUS
  <2>4. Heights(n + 1)' = Heights(n) \union {value}
    BY <1>1, <1>3, <2>2, <2>3, Zenon
  <2> QED
    BY <1>4, <2>1, <2>4
<1>5. CASE op \notin {"day", "equity"}
  <2>1. At("equity", n+1)' = At("equity", n) /\ At("day", n+1)' = At("day", n)
    BY <1>1, <1>5, AtKept
  <2>2. Heard(n + 1)' = Heard(n)
    BY <2>1, Zenon DEF Heard
  <2>3. Heights(n + 1)' = Heights(n)
    BY <1>3, <2>2, Zenon DEF Heights
  <2> QED
    BY <1>5, <2>2, <2>3
<1> QED
  BY <1>4, <1>5

\* The peak, as PeakMeans has it, over a given set of heights.
PeakOf(peak, S) ==
    IF S = {} THEN peak = None
    ELSE peak \in Int /\ (peak = Max(S) \/ (peak < 0 /\ Max(S) = 0))

LEMMA PeakMeansOf ==
    ASSUME calls \in Seq(Calls), NEW n \in Nat, n <= Len(calls)
    PROVE  PeakMeans(n) <=> PeakOf(breaker.peakEquity, Heights(n))
BY HeightsType DEF PeakMeans, PeakOf

\* circuit_breaker.py:53, 57
LEMMA PeakRaised ==
    ASSUME NEW S, IsFiniteSet(S), S \subseteq Int, NEW v \in Int,
           NEW peak \in Int \union {None}, PeakOf(peak, S)
    PROVE  /\ PeakOf(RaisedPeak(peak, v), S \union {v})
           /\ \/ RaisedPeak(peak, v) = Max(S \union {v})
              \/ v <= RaisedPeak(peak, v) /\ RaisedPeak(peak, v) < 0 /\ Max(S \union {v}) = 0
           /\ Max(S \union {v}) \in Int /\ RaisedPeak(peak, v) \in Int
<1> DEFINE T == S \union {v}
           raised == RaisedPeak(peak, v)
<1>1. /\ S = {} => Max(T) = v
      /\ S # {} => Max(S) \in Int /\ Max(T) = IF v > Max(S) THEN v ELSE Max(S)
  BY MaxWith
<1>2. T # {}
  OBVIOUS
<1> HIDE DEF T
<1>3. raised = IF peak \in {None, 0} \/ v > peak THEN v ELSE peak
  BY DEF RaisedPeak
<1>4. Max(T) \in Int /\ raised \in Int
  BY <1>1, <1>3
<1>5. raised = Max(T) \/ (v <= raised /\ raised < 0 /\ Max(T) = 0)
  <2>1. CASE S = {}
    BY <1>1, <1>3, <2>1, NoneAssumption DEF PeakOf
  <2>2. CASE S # {}
    <3>1. peak \in Int /\ (peak = Max(S) \/ (peak < 0 /\ Max(S) = 0)) /\ peak # None
      BY <2>2, NoneAssumption DEF PeakOf
    <3> QED
      BY <1>1, <1>3, <2>2, <3>1
  <2> QED
    BY <2>1, <2>2
<1> QED
  BY <1>2, <1>4, <1>5 DEF PeakOf, T

LEMMA PeakStep ==
    ASSUME NEW n \in Nat, NEW op \in Ops, NEW value \in Int, Extends(n, op, value),
           breaker \in Breakers, PeakMeans(n),
           breaker'.peakEquity = IF op \in {"day", "equity"}
                                 THEN RaisedPeak(breaker.peakEquity, value)
                                 ELSE breaker.peakEquity
    PROVE  /\ PeakMeans(n + 1)'
           /\ op = "equity" /\ MaxDrawdownPct # 0 =>
                 (DrawdownBreach(n + 1)' <=> Below(value, MaxDrawdownPct, breaker'.peakEquity))
<1> DEFINE peak == breaker.peakEquity
           S == Heights(n)
           T == Heights(n + 1)'
<1>1. calls \in Seq(Calls) /\ n <= Len(calls) /\ peak \in Int \union {None}
  BY DEF Extends, Breakers
<1>2. IsFiniteSet(S) /\ S \subseteq Int
  BY <1>1, HeightsType
<1>3. PeakOf(peak, S)
  BY <1>1, PeakMeansOf
<1>4. HighestEquity(n + 1)' = Max(T) /\ (T = {} <=> Heard(n + 1)' = {})
  <2>1. HighestEquity(n + 1)' = Max(T)
    BY Zenon DEF HighestEquity, Heights, Heard
  <2>2. T = {calls'[j].value : j \in Heard(n + 1)'}
    BY Zenon DEF Heights
  <2>3. {calls'[j].value : j \in Heard(n + 1)'} = {} <=> Heard(n + 1)' = {}
    OBVIOUS
  <2> QED
    BY <2>1, <2>2, <2>3, Zenon
<1>5. PeakOf(breaker'.peakEquity, T) => PeakMeans(n + 1)'
  <2>1. PeakMeans(n + 1)' <=>
          IF Heard(n + 1)' = {} THEN breaker'.peakEquity = None
          ELSE /\ breaker'.peakEquity \in Int
               /\ \/ breaker'.peakEquity = HighestEquity(n + 1)'
                  \/ breaker'.peakEquity < 0 /\ HighestEquity(n + 1)' = 0
    BY Zenon DEF PeakMeans
  <2> HIDE DEF T
  <2> QED
    BY <1>4, <2>1 DEF PeakOf
<1>6. CASE op \in {"day", "equity"}
  <2>1. T = S \union {value}
    BY <1>6, HeardStep
  <2> DEFINE raised == RaisedPeak(peak, value)
  <2>2. breaker'.peakEquity = raised
    BY <1>6
  <2> HIDE DEF peak, S, T, raised
  <2>3. /\ PeakOf(raised, S \union {value})
        /\ \/ raised = Max(S \union {value})
           \/ value <= raised /\ raised < 0 /\ Max(S \union {value}) = 0
        /\ Max(S \union {value}) \in Int /\ raised \in Int
    BY <1>1, <1>2, <1>3, PeakRaised DEF raised
  <2>4. PeakMeans(n + 1)'
    BY <1>5, <2>1, <2>2, <2>3, Zenon
  <2>5. ASSUME op = "equity", MaxDrawdownPct # 0
        PROVE  DrawdownBreach(n + 1)' <=> Below(value, MaxDrawdownPct, raised)
    <3> DEFINE high == Max(S \union {value})
    <3>1. HighestEquity(n + 1)' = high
      BY <1>4, <2>1, Zenon
    <3>2. DrawdownBreach(n + 1)' <=> Below(value, MaxDrawdownPct, high)
      <4>1. calls'[n+1].op = "equity" /\ calls'[n+1].value = value
        BY <2>5 DEF Extends
      <4> HIDE DEF high
      <4> QED
        BY <3>1, <4>1, Zenon DEF DrawdownBreach
    <3> HIDE DEF high
    <3>3. high \in Int /\ raised \in Int
          /\ (raised = high \/ (value <= raised /\ raised < 0 /\ high = 0))
      BY <2>3 DEF high
    <3>4. ASSUME value <= raised, raised < 0, high = 0
          PROVE  Below(value, MaxDrawdownPct, high) /\ Below(value, MaxDrawdownPct, raised)
      <4>1. MaxDrawdownPct \in 1..100
        BY <2>5, ThresholdsAssumption
      <4>2. MaxDrawdownPct * raised < 0
        BY <3>3, <3>4, <4>1
      <4>3. (100 - MaxDrawdownPct) * raised = 100 * raised - MaxDrawdownPct * raised
        BY <3>3, <4>1
      <4>4. (100 - MaxDrawdownPct) * 0 = 0
        BY <4>1
      <4>5. MaxDrawdownPct * raised \in Int
        BY <3>3, <4>1
      <4>6. 100 * value < 100 * raised - MaxDrawdownPct * raised
        BY <3>3, <3>4, <4>2, <4>5
      <4> QED
        BY <3>3, <3>4, <4>3, <4>4, <4>6 DEF Below
    <3> QED
      BY <3>2, <3>3, <3>4
  <2> QED
    BY <2>2, <2>4, <2>5
<1>7. CASE op \notin {"day", "equity"}
  <2>1. T = S
    BY <1>7, HeardStep
  <2>2. PeakMeans(n + 1)'
    BY <1>3, <1>5, <1>7, <2>1
  <2> QED
    BY <1>7, <2>2
<1> QED
  BY <1>6, <1>7

----------------------------------------------------------------------------
\* The day's opening equity.

\* circuit_breaker.py:48-53, 61-65: a day boundary replaces it, and an update
\* is compared with the last one.
LEMMA OpeningStep ==
    ASSUME NEW n \in Nat, NEW op \in Ops, NEW value \in Int, Extends(n, op, value),
           OpeningMeans(n),
           breaker'.startOfDayEquity = IF op = "day" THEN value ELSE breaker.startOfDayEquity
    PROVE  /\ OpeningMeans(n + 1)'
           /\ op = "equity" =>
                 (DailyLossBreach(n + 1)' <=>
                    /\ breaker.startOfDayEquity # None
                    /\ Below(value, DailyLossPct, breaker.startOfDayEquity))
<1>1. /\ "day" \in Ops /\ calls \in Seq(Calls) /\ n = Len(calls)
      /\ calls'[n+1].value = value /\ calls'[n+1].op = op
      /\ \A j \in 1..n : calls'[j] = calls[j] /\ calls[j].value \in Int
  <2>1. \A j \in 1..Len(calls) : calls[j] \in Calls
    BY DEF Extends
  <2>2. \A j \in 1..Len(calls) : calls[j].value \in Int
    BY <2>1 DEF Calls
  <2> QED
    BY <2>2 DEF Extends, Ops
<1>2. At("day", n) \in SUBSET (1..n)
  BY <1>1, AtType
<1> DEFINE D == At("day", n)
<1>3. D # {} => Max(D) \in 1..n
  BY <1>2, LastOfCalls
<1>4. CASE op = "day"
  <2>1. At("day", n + 1)' = D \union {n + 1}
    BY <1>1, <1>4, AtKept
  <2>2. Max(D \union {n + 1}) = n + 1
    BY <1>2, LastOfCalls
  <2>3. OpeningMeans(n + 1)' <=>
          breaker'.startOfDayEquity = IF D \union {n + 1} = {} THEN None
                                      ELSE calls'[Max(D \union {n + 1})].value
    BY <2>1, Zenon DEF OpeningMeans
  <2>4. D \union {n + 1} # {}
    OBVIOUS
  <2> HIDE DEF D
  <2>5. OpeningMeans(n + 1)'
    BY <1>1, <1>4, <2>2, <2>3, <2>4, Zenon
  <2> QED
    BY <1>4, <2>5
<1>5. CASE op # "day"
  <2>1. At("day", n + 1)' = D
    BY <1>1, <1>5, AtKept
  <2>2. D # {} => calls'[Max(D)] = calls[Max(D)] /\ calls[Max(D)].value \in Int
    BY <1>1, <1>3
  <2>3. breaker'.startOfDayEquity = breaker.startOfDayEquity
    BY <1>5
  <2>4. breaker.startOfDayEquity = IF D = {} THEN None ELSE calls[Max(D)].value
    BY DEF OpeningMeans
  <2>5. OpeningMeans(n + 1)' <=>
          breaker'.startOfDayEquity = IF D = {} THEN None ELSE calls'[Max(D)].value
    BY <2>1, Zenon DEF OpeningMeans
  <2>6. DailyLossBreach(n + 1)' <=>
          /\ calls'[n+1].op = "equity" /\ D # {}
          /\ Below(calls'[n+1].value, DailyLossPct, calls'[Max(D)].value)
    BY <2>1, Zenon DEF DailyLossBreach
  <2> HIDE DEF D
  <2>7. OpeningMeans(n + 1)'
    BY <2>2, <2>3, <2>4, <2>5
  <2>8. breaker.startOfDayEquity # None <=> D # {}
    BY <2>2, <2>4, NoneAssumption
  <2>9. D # {} => calls'[Max(D)].value = breaker.startOfDayEquity
    BY <2>2, <2>4
  <2>10. op = "equity" =>
           (DailyLossBreach(n + 1)' <=>
              /\ breaker.startOfDayEquity # None
              /\ Below(value, DailyLossPct, breaker.startOfDayEquity))
    BY <1>1, <2>6, <2>8, <2>9, Zenon
  <2> QED
    BY <2>7, <2>10
<1> QED
  BY <1>4, <1>5

----------------------------------------------------------------------------
\* The day's trades, and the streak of losing days.

LEMMA TodayType ==
    ASSUME calls \in Seq(Calls), NEW i \in Nat, i <= Len(calls)
    PROVE  /\ Boundary(i) \in 0..i
           /\ Today(i) \in SUBSET (1..i) /\ IsFiniteSet(Today(i))
           /\ \A j \in Today(i) : Values[j] \in Int
<1>1. \A o \in {"day", "reset", "trade"} : At(o, i) \in SUBSET (1..i)
  BY AtType
<1>2. At("day", i) \union At("reset", i) \in SUBSET (1..i)
  BY <1>1
<1>3. Boundary(i) \in 0..i
  BY <1>2, LastOfCalls DEF Boundary
<1>4. Today(i) \in SUBSET (1..i)
  BY <1>1 DEF Today
<1>5. IsFiniteSet(Today(i))
  BY <1>4, LastOfCalls
<1>6. \A j \in 1..Len(calls) : Values[j] \in Int
  <2>1. \A j \in 1..Len(calls) : calls[j] \in Calls
    OBVIOUS
  <2>2. \A j \in 1..Len(calls) : calls[j].value \in Int /\ j \in DOMAIN calls
    BY <2>1 DEF Calls
  <2> QED
    BY <2>2 DEF Values
<1>7. \A j \in Today(i) : Values[j] \in Int
  BY <1>4, <1>6
<1> QED
  BY <1>3, <1>4, <1>5, <1>7

\* circuit_breaker.py:69-73: a closed trade joins the day's; a day boundary and
\* a reset begin a day with none.
LEMMA TodayGrows ==
    ASSUME NEW n \in Nat, NEW op \in Ops, NEW value \in Int, Extends(n, op, value)
    PROVE  /\ Boundary(n)' = Boundary(n)
           /\ op = "trade"  => Today(n + 1)' = Today(n) \union {n + 1}
           /\ op = "equity" => Today(n + 1)' = Today(n)
           /\ op \in {"day", "reset"} => Today(n + 1)' = {}
           /\ SumFunctionOnSet(Values', Today(n)) = SumFunctionOnSet(Values, Today(n))
           /\ n + 1 \notin Today(n)
           /\ \A j \in Today(n) \union {n + 1} : Values'[j] \in Int
           /\ Values'[n + 1] = value
<1>1. /\ "day" \in Ops /\ "reset" \in Ops /\ "trade" \in Ops /\ n \in 0..n
      /\ calls \in Seq(Calls) /\ n = Len(calls)
      /\ n + 1 \in DOMAIN calls' /\ calls'[n + 1].value = value
      /\ \A j \in 1..n : j \in DOMAIN calls /\ j \in DOMAIN calls' /\ calls'[j] = calls[j]
  BY DEF Extends, Ops
<1>2. /\ Boundary(n) \in 0..n /\ Today(n) \in SUBSET (1..n) /\ IsFiniteSet(Today(n))
      /\ \A j \in Today(n) : Values[j] \in Int
  BY <1>1, TodayType
<1>3. Boundary(n)' = Boundary(n)
  <2>1. At("day", n)' = At("day", n) /\ At("reset", n)' = At("reset", n)
    BY <1>1, AtKept
  <2> QED
    BY <2>1, Zenon DEF Boundary
<1>4. \A o \in Ops : At(o, n) \in SUBSET (1..n)
  BY <1>1, AtType
<1>5. ASSUME op \in {"trade", "equity"} PROVE Boundary(n + 1)' = Boundary(n)
  <2>1. At("day", n + 1)' = At("day", n) /\ At("reset", n + 1)' = At("reset", n)
    BY <1>1, <1>5, AtKept
  <2> QED
    BY <2>1, Zenon DEF Boundary
<1>6. Today(n + 1)' = {j \in At("trade", n + 1)' : j > Boundary(n + 1)'}
  BY Zenon DEF Today
<1>7. ASSUME op = "trade" PROVE Today(n + 1)' = Today(n) \union {n + 1}
  <2>1. At("trade", n + 1)' = At("trade", n) \union {n + 1}
    BY <1>1, <1>7, AtKept
  <2>2. Today(n + 1)' = {j \in At("trade", n) \union {n + 1} : j > Boundary(n)}
    BY <1>5, <1>6, <1>7, <2>1, Zenon
  <2>3. n + 1 > Boundary(n)
    BY <1>2
  <2> QED
    BY <2>2, <2>3 DEF Today
<1>8. ASSUME op = "equity" PROVE Today(n + 1)' = Today(n)
  <2>1. At("trade", n + 1)' = At("trade", n)
    BY <1>1, <1>8, AtKept
  <2> QED
    BY <1>5, <1>6, <1>8, <2>1, Zenon DEF Today
<1>9. ASSUME op \in {"day", "reset"} PROVE Today(n + 1)' = {}
  <2>1. At("trade", n + 1)' = At("trade", n)
    BY <1>1, <1>9, AtKept
  <2>2. Boundary(n + 1)' = n + 1
    <3> DEFINE S == At("day", n) \union At("reset", n)
    <3>1. S \in SUBSET (1..n)
      BY <1>1, <1>4
    <3>2. At("day", n + 1)' \union At("reset", n + 1)' = S \union {n + 1}
      <4>1. CASE op = "day"
        <5>1. At("day", n + 1)' = At("day", n) \union {n + 1}
              /\ At("reset", n + 1)' = At("reset", n)
          BY <1>1, <4>1, AtKept
        <5> QED
          BY <5>1
      <4>2. CASE op = "reset"
        <5>1. At("reset", n + 1)' = At("reset", n) \union {n + 1}
              /\ At("day", n + 1)' = At("day", n)
          BY <1>1, <4>2, AtKept
        <5> QED
          BY <5>1
      <4> QED
        BY <1>9, <4>1, <4>2
    <3>3. Boundary(n + 1)' = LastOr(At("day", n + 1)' \union At("reset", n + 1)', 0)
      BY Zenon DEF Boundary
    <3> HIDE DEF S
    <3>4. LastOr(S \union {n + 1}, 0) = n + 1
      BY <3>1, LastOfCalls
    <3> QED
      BY <3>2, <3>3, <3>4, Zenon
  <2>3. Today(n + 1)' = {j \in At("trade", n) : j > n + 1}
    BY <1>6, <2>1, <2>2, Zenon
  <2>4. \A j \in At("trade", n) : ~(j > n + 1)
    BY <1>1, <1>4
  <2> QED
    BY <2>3, <2>4
<1>10. \A j \in Today(n) : Values'[j] = Values[j]
  BY <1>1, <1>2 DEF Values
<1>11. SumFunctionOnSet(Values', Today(n)) = SumFunctionOnSet(Values, Today(n))
  <2> DEFINE f == Values
             g == Values'
             S == Today(n)
  <2>1. IsFiniteSet(S) /\ \A j \in S : g[j] = f[j]
    BY <1>2, <1>10
  <2> HIDE DEF f, g, S
  <2>2. SumFunctionOnSet(g, S) = SumFunctionOnSet(f, S)
    BY <2>1, SumCongruent
  <2> QED
    BY <2>2 DEF f, g, S
<1>12. n + 1 \notin Today(n)
  BY <1>2
<1>13. Values'[n + 1] = value
  BY <1>1 DEF Values
<1>14. \A j \in Today(n) \union {n + 1} : Values'[j] \in Int
  BY <1>2, <1>10, <1>13
<1> QED
  BY <1>3, <1>7, <1>8, <1>9, <1>11, <1>12, <1>13, <1>14

LEMMA TodayStep ==
    ASSUME NEW n \in Nat, NEW op \in Ops, NEW value \in Int, Extends(n, op, value),
           breaker \in Breakers, TodayMeans(n),
           op = "trade" => /\ breaker'.dayTradeCount = breaker.dayTradeCount + 1
                           /\ breaker'.dayRealized = breaker.dayRealized + value,
           op = "equity" => /\ breaker'.dayTradeCount = breaker.dayTradeCount
                            /\ breaker'.dayRealized = breaker.dayRealized,
           op \in {"day", "reset"} => breaker'.dayTradeCount = 0 /\ breaker'.dayRealized = 0
    PROVE  TodayMeans(n + 1)'
<1> DEFINE S == Today(n)
           g == Values'
<1>1. /\ IsFiniteSet(S) /\ n + 1 \notin S
      /\ \A j \in S \union {n + 1} : g[j] \in Int
      /\ g[n + 1] = value
      /\ breaker.dayRealized = SumFunctionOnSet(g, S)
      /\ breaker.dayTradeCount = 0 <=> S = {}
      /\ breaker.dayTradeCount \in Nat
  <2>1. calls \in Seq(Calls) /\ n <= Len(calls)
    BY DEF Extends
  <2> QED
    BY <2>1, TodayType, TodayGrows DEF TodayMeans, Breakers
<1>2. TodayMeans(n + 1)' <=> /\ breaker'.dayTradeCount = 0 <=> Today(n + 1)' = {}
                            /\ breaker'.dayRealized = SumFunctionOnSet(g, Today(n + 1)')
  BY Zenon DEF TodayMeans
<1>3. CASE op = "trade"
  <2>1. Today(n + 1)' = S \union {n + 1}
    BY <1>3, TodayGrows
  <2> HIDE DEF S, g
  <2>2. SumFunctionOnSet(g, S \union {n + 1}) = g[n + 1] + SumFunctionOnSet(g, S)
    <3> DEFINE T == S \union {n + 1}
    <3>1. IsFiniteSet(T) /\ n + 1 \in T /\ T \ {n + 1} = S
      <4>1. IsFiniteSet(T)
        BY <1>1, FS_AddElement
      <4> QED
        BY <1>1, <4>1
    <3>2. \A j \in T : g[j] \in Int
      BY <1>1
    <3> HIDE DEF T
    <3>3. SumFunctionOnSet(g, T) = g[n + 1] + SumFunctionOnSet(g, T \ {n + 1})
      BY <3>1, <3>2, SumWithout
    <3> QED
      BY <3>1, <3>3, Zenon DEF T
  <2>3. S \union {n + 1} # {} /\ breaker'.dayTradeCount # 0
    BY <1>1, <1>3
  <2>4. breaker'.dayRealized = SumFunctionOnSet(g, S \union {n + 1})
    <3>1. breaker.dayRealized \in Int
      BY DEF Breakers
    <3> QED
      BY <1>1, <1>3, <2>2, <3>1
  <2> QED
    BY <1>2, <2>1, <2>3, <2>4, Zenon
<1>4. CASE op = "equity"
  <2>1. Today(n + 1)' = S
    BY <1>4, TodayGrows
  <2> HIDE DEF S, g
  <2> QED
    BY <1>1, <1>2, <1>4, <2>1, Zenon
<1>5. CASE op \in {"day", "reset"}
  <2>1. Today(n + 1)' = {}
    BY <1>5, TodayGrows
  <2> HIDE DEF S, g
  <2>2. SumFunctionOnSet(g, {}) = 0
    BY SumEmpty
  <2> QED
    BY <1>2, <1>5, <2>1, <2>2, Zenon
<1> QED
  BY <1>3, <1>4, <1>5 DEF Ops

\* circuit_breaker.py:83-93: the boundary that ends day n + 1 adds a red day to
\* the streak, or a green one ends it, or an idle one leaves it; a reset ends it.
LEMMA StreakStep ==
    ASSUME NEW n \in Nat, NEW op \in Ops, NEW value \in Int, Extends(n, op, value)
    PROVE  /\ StreakAt(n) \in Nat
           /\ op \in {"equity", "trade"} => StreakAt(n + 1)' = StreakAt(n)
           /\ op = "reset" => StreakAt(n + 1)' = 0
           /\ op = "day" =>
                 /\ TradesOfDay(n + 1)' = Today(n)
                 /\ DayPnl(n + 1)' = SumFunctionOnSet(Values, Today(n))
                 /\ StreakAt(n + 1)' = IF Today(n) = {} THEN StreakAt(n)
                                       ELSE IF DayPnl(n + 1)' < 0 THEN StreakAt(n) + 1
                                       ELSE 0
<1>1. /\ "day" \in Ops /\ "reset" \in Ops /\ "trade" \in Ops /\ n \in 0..n
      /\ calls \in Seq(Calls) /\ n = Len(calls) /\ (n + 1) - 1 = n
  BY DEF Extends, Ops
<1>2. /\ StreakAt(n) = Cardinality(Red(n))
      /\ Green(n) \in SUBSET (1..n) /\ Red(n) \in SUBSET (1..n) /\ Broken(n) \in 0..n
      /\ At("day", n) \in SUBSET (1..n) /\ At("reset", n) \in SUBSET (1..n)
  BY <1>1, StreakParts, AtType
<1>3. IsFiniteSet(Red(n)) /\ n + 1 \notin Red(n) /\ StreakAt(n) \in Nat
  <2>1. IsFiniteSet(Red(n))
    BY <1>2, LastOfCalls
  <2> QED
    BY <1>2, <2>1, FS_CardinalityType
<1>4. \A j \in At("day", n) : WinningDay(j)' = WinningDay(j) /\ LosingDay(j)' = LosingDay(j)
  <2>1. \A j \in At("day", n) : j \in 1..n
    BY <1>2
  <2> QED
    BY <2>1, TradesKept
<1>5. /\ StreakAt(n + 1)' = Cardinality(Red(n + 1)')
      /\ Red(n + 1)' = {j \in At("day", n + 1)' : j > Broken(n + 1)' /\ LosingDay(j)'}
      /\ Broken(n + 1)' = LastOr(Green(n + 1)' \union At("reset", n + 1)', 0)
      /\ Green(n + 1)' = {j \in At("day", n + 1)' : WinningDay(j)'}
  BY Zenon DEF StreakAt, Red, Broken, Green
<1>6. /\ Red(n) = {j \in At("day", n) : j > Broken(n) /\ LosingDay(j)}
      /\ Broken(n) = LastOr(Green(n) \union At("reset", n), 0)
      /\ Green(n) = {j \in At("day", n) : WinningDay(j)}
  BY Zenon DEF Red, Broken, Green
<1>7. Green(n) \union At("reset", n) \in SUBSET (1..n)
  BY <1>2
<1>8. ASSUME op \in {"equity", "trade"} PROVE StreakAt(n + 1)' = StreakAt(n)
  <2>1. At("day", n + 1)' = At("day", n) /\ At("reset", n + 1)' = At("reset", n)
    BY <1>1, <1>8, AtKept
  <2>2. Green(n + 1)' = Green(n)
    BY <1>4, <1>5, <1>6, <2>1, Zenon
  <2>3. Broken(n + 1)' = Broken(n)
    BY <1>5, <1>6, <2>1, <2>2, Zenon
  <2>4. Red(n + 1)' = Red(n)
    BY <1>4, <1>5, <1>6, <2>1, <2>3, Zenon
  <2> QED
    BY <1>2, <1>5, <2>4, Zenon
<1>9. ASSUME op = "reset" PROVE StreakAt(n + 1)' = 0
  <2>1. At("day", n + 1)' = At("day", n) /\ At("reset", n + 1)' = At("reset", n) \union {n + 1}
    BY <1>1, <1>9, AtKept
  <2>2. Green(n + 1)' = Green(n)
    BY <1>4, <1>5, <1>6, <2>1, Zenon
  <2>3. Broken(n + 1)' = n + 1
    <3> DEFINE S == Green(n) \union At("reset", n)
    <3>1. Green(n + 1)' \union At("reset", n + 1)' = S \union {n + 1}
      BY <2>1, <2>2
    <3> HIDE DEF S
    <3>2. LastOr(S \union {n + 1}, 0) = n + 1
      BY <1>7, LastOfCalls DEF S
    <3> QED
      BY <1>5, <3>1, <3>2, Zenon
  <2>4. Red(n + 1)' = {}
    <3>1. \A j \in At("day", n) : ~(j > n + 1)
      BY <1>2
    <3> QED
      BY <1>5, <2>1, <2>3, <3>1
  <2> QED
    BY <1>5, <2>4, FS_EmptySet
<1>10. ASSUME op = "day"
       PROVE  /\ TradesOfDay(n + 1)' = Today(n)
              /\ DayPnl(n + 1)' = SumFunctionOnSet(Values, Today(n))
              /\ StreakAt(n + 1)' = IF Today(n) = {} THEN StreakAt(n)
                                    ELSE IF DayPnl(n + 1)' < 0 THEN StreakAt(n) + 1
                                    ELSE 0
  <2>1. /\ At("day", n + 1)' = At("day", n) \union {n + 1}
        /\ At("reset", n + 1)' = At("reset", n) /\ At("trade", n + 1)' = At("trade", n)
        /\ At("reset", n)' = At("reset", n) /\ At("day", n)' = At("day", n)
    BY <1>1, <1>10, AtKept
  <2>2. TradesOfDay(n + 1)' = Today(n)
    <3>1. TradesOfDay(n + 1)' =
            {j \in At("trade", n + 1)' :
                j > LastOr(At("day", n + 1 - 1)' \union At("reset", n + 1 - 1)', 0)}
      BY DEF TradesOfDay
    <3>2. n + 1 - 1 = n
      BY <1>1
    <3>3. TradesOfDay(n + 1)' =
            {j \in At("trade", n) : j > LastOr(At("day", n) \union At("reset", n), 0)}
      <4>1. At("day", n + 1 - 1)' = At("day", n)' /\ At("reset", n + 1 - 1)' = At("reset", n)'
        BY <3>2, Zenon
      <4> QED
        BY <2>1, <3>1, <4>1, Zenon
    <3> QED
      BY <3>3, Zenon DEF Today, Boundary
  <2>3. DayPnl(n + 1)' = SumFunctionOnSet(Values, Today(n))
    <3>1. DayPnl(n + 1)' = SumFunctionOnSet(Values', Today(n))
      BY <2>2, Zenon DEF DayPnl
    <3> QED
      BY <3>1, TodayGrows, Zenon
  <2>4. DayPnl(n + 1)' \in Int
    <3> DEFINE S == Today(n)
               f == Values
    <3>1. IsFiniteSet(S) /\ \A j \in S : f[j] \in Int
      BY <1>1, TodayType
    <3> HIDE DEF S, f
    <3>2. SumFunctionOnSet(f, S) \in Int
      BY <3>1, SumType
    <3> QED
      BY <2>3, <3>2 DEF S, f
  <2>5. /\ LosingDay(n + 1)' <=> Today(n) # {} /\ DayPnl(n + 1)' < 0
        /\ WinningDay(n + 1)' <=> Today(n) # {} /\ DayPnl(n + 1)' >= 0
    BY <2>2, Zenon DEF LosingDay, WinningDay
  <2>6. /\ WinningDay(n + 1)'  => Green(n + 1)' = Green(n) \union {n + 1}
        /\ ~WinningDay(n + 1)' => Green(n + 1)' = Green(n)
    BY <1>4, <1>5, <1>6, <2>1
  <2>7. CASE Today(n) # {} /\ DayPnl(n + 1)' >= 0
    <3>1. Broken(n + 1)' = n + 1
      <4> DEFINE S == Green(n) \union At("reset", n)
      <4>1. Green(n + 1)' \union At("reset", n + 1)' = S \union {n + 1}
        BY <2>1, <2>5, <2>6, <2>7
      <4> HIDE DEF S
      <4>2. LastOr(S \union {n + 1}, 0) = n + 1
        BY <1>7, LastOfCalls DEF S
      <4> QED
        BY <1>5, <4>1, <4>2, Zenon
    <3>2. Red(n + 1)' = {}
      <4>1. \A j \in At("day", n) \union {n + 1} : ~(j > n + 1)
        BY <1>2
      <4> QED
        BY <1>5, <2>1, <3>1, <4>1
    <3>3. StreakAt(n + 1)' = 0
      BY <1>5, <3>2, FS_EmptySet
    <3> QED
      BY <2>2, <2>3, <2>4, <2>7, <3>3
  <2>8. ASSUME ~(Today(n) # {} /\ DayPnl(n + 1)' >= 0) PROVE Broken(n + 1)' = Broken(n)
    <3>1. Green(n + 1)' = Green(n)
      BY <2>5, <2>6, <2>8, Zenon
    <3> QED
      BY <1>5, <1>6, <2>1, <3>1, Zenon
  <2>9. CASE Today(n) # {} /\ DayPnl(n + 1)' < 0
    <3>1. Broken(n + 1)' = Broken(n)
      BY <2>4, <2>8, <2>9
    <3>2. Red(n + 1)' = Red(n) \union {n + 1}
      <4>1. LosingDay(n + 1)' /\ n + 1 > Broken(n)
        BY <1>2, <2>5, <2>9
      <4> QED
        BY <1>4, <1>5, <1>6, <2>1, <3>1, <4>1
    <3>3. Cardinality(Red(n) \union {n + 1}) = Cardinality(Red(n)) + 1
      BY <1>3, FS_AddElement
    <3>4. StreakAt(n + 1)' = StreakAt(n) + 1
      BY <1>2, <1>5, <3>2, <3>3
    <3> QED
      BY <2>2, <2>3, <2>9, <3>4
  <2>10. CASE Today(n) = {}
    <3>1. Broken(n + 1)' = Broken(n)
      BY <2>8, <2>10
    <3>2. Red(n + 1)' = Red(n)
      BY <1>4, <1>5, <1>6, <2>1, <2>5, <2>10, <3>1
    <3>3. StreakAt(n + 1)' = StreakAt(n)
      BY <1>2, <1>5, <3>2
    <3> QED
      BY <2>2, <2>3, <2>10, <3>3
  <2> QED
    BY <2>4, <2>7, <2>9, <2>10
<1> QED
  BY <1>3, <1>8, <1>9, <1>10

----------------------------------------------------------------------------
\* The breaches since the last reset.

LEMMA BreachesParts ==
    ASSUME calls \in Seq(Calls)
    PROVE  /\ LastReset(Len(calls)) \in 0..Len(calls)
           /\ Breaches = {i \in (LastReset(Len(calls)) + 1)..Len(calls) : Breach(i)}
           /\ Breaches \in SUBSET (1..Len(calls))
           /\ IsFiniteSet(Breaches)
<1> DEFINE n == Len(calls)
<1>1. n \in Nat
  OBVIOUS
<1>2. Breaches = {i \in (LastReset(n) + 1)..n : Breach(i)}
  BY DEF Breaches, Breach
<1>3. LastReset(n) \in 0..n
  <2>1. At("reset", n) \in SUBSET (1..n)
    BY <1>1, AtType
  <2> QED
    BY <1>1, <2>1, LastOfCalls DEF LastReset
<1>4. Breaches \in SUBSET (1..n)
  <2> HIDE DEF n
  <2> QED
    BY <1>1, <1>2, <1>3
<1>5. IsFiniteSet(Breaches)
  <2> HIDE DEF n
  <2> QED
    BY <1>1, <1>4, LastOfCalls
<1> QED
  BY <1>2, <1>3, <1>4, <1>5

\* circuit_breaker.py:75-81, 95-100: a reset forgets the breaches, any other call
\* adds itself if it is one.
LEMMA BreachesStep ==
    ASSUME NEW n \in Nat, NEW op \in Ops, NEW value \in Int, Extends(n, op, value)
    PROVE  /\ op = "reset" => Breaches' = {}
           /\ op # "reset" => Breaches' = Breaches \union {i \in {n + 1} : Breach(i)'}
<1>1. /\ "reset" \in Ops /\ n \in 0..n /\ calls \in Seq(Calls) /\ Len(calls) = n /\ Len(calls') = n + 1
  BY DEF Extends, Ops
<1>2. At("reset", n) \in SUBSET (1..n)
  BY <1>1, AtType
<1>3. /\ LastReset(n) \in 0..n
      /\ Breaches = {i \in (LastReset(n) + 1)..n : Breach(i)}
  BY <1>1, BreachesParts
<1>4. Breaches' = {i \in (LastReset(n + 1)' + 1)..(n + 1) : Breach(i)'}
  BY <1>1, Zenon DEF Breaches, Breach
<1>5. \A i \in 1..n : Breach(i)' = Breach(i)
  BY BreachKept
<1>6. ASSUME op = "reset" PROVE Breaches' = {}
  <2>1. At("reset", n + 1)' = At("reset", n) \union {n + 1}
    BY <1>1, <1>6, AtKept
  <2>2. LastReset(n + 1)' = n + 1
    <3>1. LastOr(At("reset", n) \union {n + 1}, 0) = n + 1
      BY <1>2, LastOfCalls
    <3> QED
      BY <2>1, <3>1, Zenon DEF LastReset
  <2> QED
    BY <1>4, <2>2
<1>7. ASSUME op # "reset" PROVE Breaches' = Breaches \union {i \in {n + 1} : Breach(i)'}
  <2>1. At("reset", n + 1)' = At("reset", n)
    BY <1>1, <1>7, AtKept
  <2>2. LastReset(n + 1)' = LastReset(n)
    BY <2>1, Zenon DEF LastReset
  <2>3. Breaches' = {i \in (LastReset(n) + 1)..(n + 1) : Breach(i)'}
    BY <1>4, <2>2, Zenon
  <2> QED
    BY <1>3, <1>5, <2>3
<1> QED
  BY <1>6, <1>7

\* The reason that the breach at call i is alerted for.
Alert(i) ==
    IF DrawdownBreach(i) THEN "max_drawdown"
    ELSE IF DailyLossBreach(i) THEN "daily_loss"
    ELSE "consecutive_losses"

\* circuit_breaker.py:95-100: a breaker that trips exactly at a breach, unless it
\* is halted already, stays halted for the first one.
LEMMA HaltStep ==
    ASSUME NEW n \in Nat, NEW op \in Ops \ {"reset"}, NEW value \in Int, Extends(n, op, value),
           HaltedIffBreached, AlertNamesFirstBreach,
           breaker'.halted <=> breaker.halted \/ Breach(n + 1)',
           breaker.halted => breaker'.reason = breaker.reason,
           ~breaker.halted /\ breaker'.halted => breaker'.reason = Alert(n + 1)'
    PROVE  HaltedIffBreached' /\ AlertNamesFirstBreach'
<1>1. Breaches' = Breaches \union {i \in {n + 1} : Breach(i)'}
  BY BreachesStep
<1>2. HaltedIffBreached'
  BY <1>1 DEF HaltedIffBreached
<1>3. /\ Breaches \in SUBSET (1..n) /\ IsFiniteSet(Breaches)
      /\ Len(calls) = n
  BY BreachesParts DEF Extends
<1>4. /\ AlertNamesFirstBreach <=> (breaker.halted => breaker.reason = Alert(Min(Breaches)))
      /\ AlertNamesFirstBreach' <=> (breaker'.halted => breaker'.reason = Alert(Min(Breaches))')
  BY Zenon DEF AlertNamesFirstBreach, Alert
<1>5. CASE ~breaker'.halted
  BY <1>2, <1>4, <1>5
<1>6. CASE breaker.halted
  <2>1. Breaches # {} /\ Breaches \subseteq Int
    BY <1>3, <1>6 DEF HaltedIffBreached
  <2>2. Min(Breaches) \in Breaches /\ \A i \in Breaches : Min(Breaches) <= i
    BY <1>3, <2>1, LeastMember
  <2>3. PICK first \in 1..n : first = Min(Breaches)
    BY <1>3, <2>2
  <2>4. Min(Breaches') = first
    <3> DEFINE B == Breaches \union {i \in {n + 1} : Breach(i)'}
    <3>1. B \subseteq 1..n+1 /\ first \in B /\ \A i \in B : first <= i
      <4>1. \A i \in B : i \in Breaches \/ i = n + 1
        OBVIOUS
      <4>2. \A i \in Breaches : i \in 1..n /\ first <= i
        BY <1>3, <2>2, <2>3
      <4>3. first \in B /\ first <= n + 1
        BY <2>2, <2>3
      <4> HIDE DEF B
      <4>4. \A i \in B : i \in 1..n+1 /\ first <= i
        BY <4>1, <4>2, <4>3
      <4> QED
        BY <4>3, <4>4
    <3>2. IsFiniteSet(1..n+1)
      BY FS_Interval
    <3> HIDE DEF B
    <3>3. IsFiniteSet(B) /\ B \subseteq Int
      <4>1. B \subseteq 1..n+1
        BY <3>1
      <4>2. IsFiniteSet(B)
        BY <3>2, <4>1, FS_Subset
      <4> QED
        BY <4>1, <4>2
    <3>4. Min(B) = first
      BY <3>1, <3>3, LeastIs
    <3> QED
      BY <1>1, <3>4 DEF B
  <2>5. Alert(Min(Breaches))' = Alert(Min(Breaches))
    <3>1. DrawdownBreach(first)' = DrawdownBreach(first) /\ DailyLossBreach(first)' = DailyLossBreach(first)
      BY BreachKept, Zenon
    <3>2. Alert(first)' = Alert(first)
      BY <3>1, Zenon DEF Alert
    <3>3. Alert(Min(Breaches))' = Alert(first)'
      BY <2>4, Zenon DEF Alert
    <3> QED
      BY <2>3, <3>2, <3>3, Zenon
  <2> QED
    BY <1>2, <1>4, <1>6, <2>5, Zenon
<1>7. CASE ~breaker.halted /\ breaker'.halted
  <2>1. Breaches' = {n + 1}
    <3>1. Breaches = {}
      BY <1>7 DEF HaltedIffBreached
    <3> QED
      BY <1>1, <1>7, <3>1
  <2>2. Min({n + 1}) = n + 1
    <3> DEFINE B == {n + 1}
    <3>1. n + 1 \in Int /\ B \subseteq Int /\ n + 1 \in B /\ \A i \in B : n + 1 <= i
      OBVIOUS
    <3>2. IsFiniteSet(B)
      BY FS_Singleton
    <3> HIDE DEF B
    <3>3. Min(B) = n + 1
      BY <3>1, <3>2, LeastIs
    <3> QED
      BY <3>3 DEF B
  <2>3. Alert(Min(Breaches))' = Alert(n + 1)'
    BY <2>1, <2>2, Zenon DEF Alert
  <2> QED
    BY <1>2, <1>4, <1>7, <2>3, Zenon
<1> QED
  BY <1>2, <1>5, <1>6, <1>7

----------------------------------------------------------------------------
\* What each method does to the fields.

Idle(b)   == b.dayTradeCount = 0
Losing(b) == b.dayRealized < 0
StreakEnds(b) == ~Idle(b) /\ Losing(b) /\ b.lossStreak + 1 >= MaxConsecutiveLosses

\* circuit_breaker.py:83-93
LEMMA SettleDayFields ==
    ASSUME NEW b \in Breakers, NEW s, s = SettleDay(b)
    PROVE  /\ s \in Breakers
           /\ s.startOfDayEquity = b.startOfDayEquity /\ s.peakEquity = b.peakEquity
           /\ s.lossStreak = IF Idle(b) THEN b.lossStreak
                             ELSE IF Losing(b) THEN b.lossStreak + 1 ELSE 0
           /\ s.dayTradeCount = 0
           /\ s.dayRealized = IF Idle(b) THEN b.dayRealized ELSE 0
           /\ s.halted <=> b.halted \/ StreakEnds(b)
           /\ s.reason = IF ~b.halted /\ StreakEnds(b) THEN "consecutive_losses" ELSE b.reason
<1> DEFINE idle    == Idle(b)
           losing  == Losing(b)
           trips   == StreakEnds(b)
           streak  == IF losing THEN b.lossStreak + 1 ELSE 0
           settled == [b EXCEPT !.lossStreak = streak, !.dayRealized = 0, !.dayTradeCount = 0]
<1>1. streak \in Nat
  BY DEF Breakers
<1> HIDE DEF streak
<1>2. \A k \in Nat, pnl \in Int, count \in Nat :
        [b EXCEPT !.lossStreak = k, !.dayRealized = pnl, !.dayTradeCount = count] \in Breakers
  BY DEF Breakers
<1>3. 0 \in Int /\ 0 \in Nat
  OBVIOUS
<1>4. /\ settled \in Breakers
      /\ settled.startOfDayEquity = b.startOfDayEquity /\ settled.peakEquity = b.peakEquity
      /\ settled.halted = b.halted /\ settled.reason = b.reason
      /\ settled.lossStreak = streak /\ settled.dayRealized = 0 /\ settled.dayTradeCount = 0
  <2>1. settled \in Breakers
    BY <1>1, <1>2, <1>3, Zenon
  <2>2. /\ settled.startOfDayEquity = b.startOfDayEquity /\ settled.peakEquity = b.peakEquity
        /\ settled.halted = b.halted /\ settled.reason = b.reason
        /\ settled.lossStreak = streak /\ settled.dayRealized = 0 /\ settled.dayTradeCount = 0
    BY <1>1 DEF Breakers
  <2> QED
    BY <2>1, <2>2
<1>5. s = IF idle THEN b
          ELSE IF losing /\ settled.lossStreak >= MaxConsecutiveLosses
               THEN Trip(settled, "consecutive_losses")
               ELSE settled
  BY DEF SettleDay, streak, Idle, Losing
<1> HIDE DEF settled
<1>6. \A r \in Breakers :
        LET t == Trip(r, "consecutive_losses")
        IN  /\ t \in Breakers /\ t.halted
            /\ t.startOfDayEquity = r.startOfDayEquity /\ t.peakEquity = r.peakEquity
            /\ t.lossStreak = r.lossStreak /\ t.dayRealized = r.dayRealized
            /\ t.dayTradeCount = r.dayTradeCount
            /\ t.reason = IF r.halted THEN r.reason ELSE "consecutive_losses"
  BY DEF Trip, Breakers, Reasons
<1>7. idle \in BOOLEAN /\ losing \in BOOLEAN /\ trips \in BOOLEAN
      /\ b.halted \in BOOLEAN /\ s.halted \in BOOLEAN
  BY <1>4, <1>5, <1>6 DEF Breakers, Idle, Losing, StreakEnds
<1>8. CASE idle
  <2>1. s = b /\ ~trips /\ b.dayTradeCount = 0
    BY <1>5, <1>8 DEF StreakEnds, Idle
  <2> QED
    BY <1>7, <1>8, <2>1
<1>9. CASE ~idle /\ losing /\ settled.lossStreak >= MaxConsecutiveLosses
  <2>1. s = Trip(settled, "consecutive_losses") /\ trips /\ settled.lossStreak = b.lossStreak + 1
    BY <1>4, <1>5, <1>9 DEF streak, StreakEnds
  <2> QED
    BY <1>4, <1>6, <1>7, <1>9, <2>1
<1>10. CASE ~idle /\ ~(losing /\ settled.lossStreak >= MaxConsecutiveLosses)
  <2>1. s = settled /\ ~trips
    BY <1>4, <1>5, <1>10 DEF streak, StreakEnds
  <2> QED
    BY <1>4, <1>7, <1>10, <2>1 DEF streak
<1> QED
  BY <1>8, <1>9, <1>10

\* circuit_breaker.py:48-53
LEMMA StartOfDayFields ==
    ASSUME NEW b \in Breakers, NEW equity \in Int, NEW s, s = SettleDay(b), s \in Breakers,
           NEW d, d = StartOfDay(b, equity)
    PROVE  /\ d.startOfDayEquity = equity /\ d.peakEquity = RaisedPeak(s.peakEquity, equity)
           /\ d.lossStreak = s.lossStreak /\ d.dayTradeCount = s.dayTradeCount
           /\ d.dayRealized = s.dayRealized
           /\ d.halted = s.halted /\ d.reason = s.reason
<1>1. d = [s EXCEPT !.startOfDayEquity = equity, !.peakEquity = RaisedPeak(s.peakEquity, equity)]
  BY DEF StartOfDay
<1> QED
  BY <1>1 DEF Breakers

InDrawdown(b, equity) == Below(equity, MaxDrawdownPct, RaisedPeak(b.peakEquity, equity))

InDailyLoss(b, equity) ==
    b.startOfDayEquity # None /\ Below(equity, DailyLossPct, b.startOfDayEquity)

\* circuit_breaker.py:55-67
LEMMA OnEquityUpdateFields ==
    ASSUME NEW b \in Breakers, NEW equity \in Int,
           NEW peak, peak = RaisedPeak(b.peakEquity, equity),
           NEW u, u = OnEquityUpdate(b, equity)
    PROVE  /\ u.startOfDayEquity = b.startOfDayEquity /\ u.peakEquity = peak
           /\ u.lossStreak = b.lossStreak /\ u.dayTradeCount = b.dayTradeCount
           /\ u.dayRealized = b.dayRealized
           /\ u.halted <=> b.halted \/ InDrawdown(b, equity) \/ InDailyLoss(b, equity)
           /\ u.reason = IF b.halted \/ ~(InDrawdown(b, equity) \/ InDailyLoss(b, equity))
                         THEN b.reason
                         ELSE IF InDrawdown(b, equity) THEN "max_drawdown" ELSE "daily_loss"
<1> DEFINE drawdown == InDrawdown(b, equity)
           loss == InDailyLoss(b, equity)
           raised == [b EXCEPT !.peakEquity = peak]
<1>1. peak \in Int
  BY RaisedPeakType DEF Breakers
<1>2. /\ raised \in Breakers
      /\ raised.startOfDayEquity = b.startOfDayEquity /\ raised.peakEquity = peak
      /\ raised.lossStreak = b.lossStreak /\ raised.dayTradeCount = b.dayTradeCount
      /\ raised.dayRealized = b.dayRealized
      /\ raised.halted = b.halted /\ raised.reason = b.reason
  BY <1>1 DEF Breakers
<1>3. drawdown \in BOOLEAN /\ loss \in BOOLEAN /\ b.halted \in BOOLEAN
  BY DEF Breakers, Below, InDrawdown, InDailyLoss
<1>4. u = IF drawdown THEN Trip(raised, "max_drawdown")
          ELSE IF loss THEN Trip(raised, "daily_loss") ELSE raised
  BY <1>2 DEF OnEquityUpdate, InDrawdown, InDailyLoss
<1> HIDE DEF raised
<1>5. \A r \in Breakers : \A why \in Reasons :
        LET t == Trip(r, why)
        IN  /\ t.halted = TRUE
            /\ t.startOfDayEquity = r.startOfDayEquity /\ t.peakEquity = r.peakEquity
            /\ t.lossStreak = r.lossStreak /\ t.dayRealized = r.dayRealized
            /\ t.dayTradeCount = r.dayTradeCount
            /\ t.reason = IF r.halted THEN r.reason ELSE why
  BY DEF Trip, Breakers
<1>6. "max_drawdown" \in Reasons /\ "daily_loss" \in Reasons
  BY DEF Reasons
<1>7. CASE drawdown
  <2>1. u = Trip(raised, "max_drawdown")
    BY <1>4, <1>7
  <2> QED
    BY <1>2, <1>3, <1>5, <1>6, <1>7, <2>1
<1>8. CASE ~drawdown /\ loss
  <2>1. u = Trip(raised, "daily_loss")
    BY <1>4, <1>8
  <2>2. /\ u.halted = TRUE
        /\ u.startOfDayEquity = raised.startOfDayEquity /\ u.peakEquity = raised.peakEquity
        /\ u.lossStreak = raised.lossStreak /\ u.dayRealized = raised.dayRealized
        /\ u.dayTradeCount = raised.dayTradeCount
        /\ u.reason = IF raised.halted THEN raised.reason ELSE "daily_loss"
    BY <1>2, <1>5, <1>6, <2>1
  <2> QED
    BY <1>2, <1>3, <1>8, <2>2
<1>9. CASE ~drawdown /\ ~loss
  BY <1>2, <1>3, <1>4, <1>9
<1> QED
  BY <1>7, <1>8, <1>9

\* circuit_breaker.py:69-81
LEMMA TradeFields ==
    ASSUME NEW b \in Breakers, NEW pnl \in Int, NEW c, c = OnTradeClosed(b, pnl)
    PROVE  /\ c.startOfDayEquity = b.startOfDayEquity /\ c.peakEquity = b.peakEquity
           /\ c.lossStreak = b.lossStreak /\ c.halted = b.halted /\ c.reason = b.reason
           /\ c.dayTradeCount = b.dayTradeCount + 1 /\ c.dayRealized = b.dayRealized + pnl
BY DEF OnTradeClosed, Breakers

LEMMA ResetFields ==
    ASSUME NEW b \in Breakers, NEW r, r = ResetCircuitBreaker(b)
    PROVE  /\ r.startOfDayEquity = b.startOfDayEquity /\ r.peakEquity = b.peakEquity
           /\ r.lossStreak = 0 /\ r.dayTradeCount = 0 /\ r.dayRealized = 0 /\ r.halted = FALSE
BY DEF ResetCircuitBreaker, Breakers

----------------------------------------------------------------------------
\* One step of the history invariant for each method.

\* Only an equity update breaches a floor, only a day boundary ends a streak.
LEMMA KindOfBreach ==
    ASSUME NEW n \in Nat, NEW op \in Ops, NEW value \in Int, Extends(n, op, value)
    PROVE  /\ op # "equity" => ~DrawdownBreach(n + 1)' /\ ~DailyLossBreach(n + 1)'
           /\ op # "day" => ~StreakBreach(n + 1)'
           /\ StreakBreach(n + 1)' <=> /\ op = "day" /\ TradesOfDay(n + 1)' # {}
                                      /\ DayPnl(n + 1)' < 0
                                      /\ StreakAt(n + 1)' >= MaxConsecutiveLosses
           /\ Breach(n + 1)' <=> \/ DrawdownBreach(n + 1)' \/ DailyLossBreach(n + 1)'
                                \/ StreakBreach(n + 1)'
<1>1. calls'[n + 1].op = op
  BY DEF Extends
<1>2. op # "equity" => ~DrawdownBreach(n + 1)' /\ ~DailyLossBreach(n + 1)'
  BY <1>1, Zenon DEF DrawdownBreach, DailyLossBreach
<1>3. StreakBreach(n + 1)' <=> /\ op = "day" /\ TradesOfDay(n + 1)' # {}
                              /\ DayPnl(n + 1)' < 0
                              /\ StreakAt(n + 1)' >= MaxConsecutiveLosses
  BY <1>1, Zenon DEF StreakBreach, LosingDay
<1>4. Breach(n + 1)' <=> \/ DrawdownBreach(n + 1)' \/ DailyLossBreach(n + 1)'
                        \/ StreakBreach(n + 1)'
  BY Zenon DEF Breach
<1> QED
  BY <1>2, <1>3, <1>4

Meaning(n) == FieldsMean(n) /\ HaltedIffBreached /\ AlertNamesFirstBreach

LEMMA NewDayStep ==
    ASSUME NEW n \in Nat, NEW equity \in Int, Extends(n, "day", equity),
           breaker \in Breakers, Meaning(n), breaker' = StartOfDay(breaker, equity)
    PROVE  Meaning(n + 1)'
<1> DEFINE b == breaker
           idle == Idle(b)
           losing == Losing(b)
           trips == StreakEnds(b)
<1>1. /\ PeakMeans(n) /\ OpeningMeans(n) /\ TodayMeans(n) /\ StreakMeans(n)
      /\ HaltedIffBreached /\ AlertNamesFirstBreach /\ "day" \in Ops \ {"reset"}
  BY DEF Meaning, FieldsMean, Ops
<1>2. PICK s : s = SettleDay(b)
  OBVIOUS
<1>3. /\ s \in Breakers
      /\ s.startOfDayEquity = b.startOfDayEquity /\ s.peakEquity = b.peakEquity
      /\ s.lossStreak = IF idle THEN b.lossStreak ELSE IF losing THEN b.lossStreak + 1 ELSE 0
      /\ s.dayTradeCount = 0
      /\ s.dayRealized = IF idle THEN b.dayRealized ELSE 0
      /\ s.halted <=> b.halted \/ trips
      /\ s.reason = IF ~b.halted /\ trips THEN "consecutive_losses" ELSE b.reason
  BY <1>2, SettleDayFields
<1>4. /\ breaker'.startOfDayEquity = equity /\ breaker'.peakEquity = RaisedPeak(s.peakEquity, equity)
      /\ breaker'.lossStreak = s.lossStreak /\ breaker'.dayTradeCount = s.dayTradeCount
      /\ breaker'.dayRealized = s.dayRealized
      /\ breaker'.halted = s.halted /\ breaker'.reason = s.reason
  BY <1>2, <1>3, StartOfDayFields
<1>5. /\ idle <=> Today(n) = {}
      /\ losing <=> b.dayRealized < 0
      /\ trips <=> ~idle /\ losing /\ b.lossStreak + 1 >= MaxConsecutiveLosses
      /\ b.dayRealized = SumFunctionOnSet(Values, Today(n))
      /\ b.lossStreak = StreakAt(n)
      /\ b.dayRealized \in Int /\ b.lossStreak \in Nat
  BY <1>1 DEF TodayMeans, StreakMeans, Breakers, Idle, Losing, StreakEnds
<1>6. idle => b.dayRealized = 0
  <2>1. Today(n) = {} => SumFunctionOnSet(Values, Today(n)) = SumFunctionOnSet(Values, {})
    BY Zenon
  <2>2. SumFunctionOnSet(Values, {}) = 0
    BY SumEmpty
  <2> QED
    BY <1>5, <2>1, <2>2
<1>7. /\ TradesOfDay(n + 1)' = Today(n)
      /\ DayPnl(n + 1)' = b.dayRealized
      /\ StreakAt(n + 1)' = IF Today(n) = {} THEN StreakAt(n)
                            ELSE IF DayPnl(n + 1)' < 0 THEN StreakAt(n) + 1
                            ELSE 0
  <2>1. "day" \in Ops
    BY <1>1
  <2> QED
    BY <1>5, <2>1, StreakStep, Zenon
<1>8. PeakMeans(n + 1)'
  <2>1. breaker'.peakEquity = RaisedPeak(breaker.peakEquity, equity)
    BY <1>3, <1>4
  <2> QED
    BY <1>1, <2>1, PeakStep
<1>9. OpeningMeans(n + 1)'
  BY <1>1, <1>4, OpeningStep
<1>10. TodayMeans(n + 1)'
  <2>1. breaker'.dayTradeCount = 0 /\ breaker'.dayRealized = 0
    BY <1>3, <1>4, <1>6
  <2> QED
    BY <1>1, <2>1, TodayStep
<1>11. StreakMeans(n + 1)'
  <2>1. breaker'.lossStreak = StreakAt(n + 1)'
    BY <1>3, <1>4, <1>5, <1>7
  <2> QED
    BY <2>1, Zenon DEF StreakMeans
<1>12. /\ Breach(n + 1)' <=> trips
       /\ Alert(n + 1)' = "consecutive_losses"
  <2>1. StreakBreach(n + 1)' <=> trips
    <3>1. StreakBreach(n + 1)' <=> /\ Today(n) # {} /\ b.dayRealized < 0
                                  /\ StreakAt(n + 1)' >= MaxConsecutiveLosses
      BY <1>1, <1>7, KindOfBreach, Zenon
    <3> QED
      BY <1>5, <1>7, <3>1
  <2>2. ~DrawdownBreach(n + 1)' /\ ~DailyLossBreach(n + 1)'
    BY <1>1, KindOfBreach
  <2>3. Breach(n + 1)' <=> trips
    BY <1>1, <2>1, <2>2, KindOfBreach
  <2>4. Alert(n + 1)' = "consecutive_losses"
    BY <2>2, Zenon DEF Alert
  <2> QED
    BY <2>3, <2>4
<1>13. HaltedIffBreached' /\ AlertNamesFirstBreach'
  <2>1. b.halted \in BOOLEAN /\ s.halted \in BOOLEAN
    BY <1>3 DEF Breakers
  <2>2. /\ breaker'.halted <=> breaker.halted \/ Breach(n + 1)'
        /\ breaker.halted => breaker'.reason = breaker.reason
        /\ ~breaker.halted /\ breaker'.halted => breaker'.reason = Alert(n + 1)'
    BY <1>3, <1>4, <1>12, <2>1
  <2> QED
    BY <1>1, <2>2, HaltStep
<1> QED
  BY <1>8, <1>9, <1>10, <1>11, <1>13, Zenon DEF Meaning, FieldsMean

LEMMA EquityStep ==
    ASSUME MaxDrawdownPct # 0,
           NEW n \in Nat, NEW equity \in Int, Extends(n, "equity", equity),
           breaker \in Breakers, Meaning(n), breaker' = OnEquityUpdate(breaker, equity)
    PROVE  Meaning(n + 1)'
<1> DEFINE b == breaker
           peak == RaisedPeak(b.peakEquity, equity)
           drawdown == InDrawdown(b, equity)
           loss == InDailyLoss(b, equity)
<1>1. /\ PeakMeans(n) /\ OpeningMeans(n) /\ TodayMeans(n) /\ StreakMeans(n)
      /\ HaltedIffBreached /\ AlertNamesFirstBreach /\ "equity" \in Ops \ {"reset"}
  BY DEF Meaning, FieldsMean, Ops
<1>2. /\ breaker'.startOfDayEquity = b.startOfDayEquity /\ breaker'.peakEquity = peak
      /\ breaker'.lossStreak = b.lossStreak /\ breaker'.dayTradeCount = b.dayTradeCount
      /\ breaker'.dayRealized = b.dayRealized
      /\ breaker'.halted <=> b.halted \/ drawdown \/ loss
      /\ breaker'.reason = IF b.halted \/ ~(drawdown \/ loss) THEN b.reason
                           ELSE IF drawdown THEN "max_drawdown" ELSE "daily_loss"
  BY OnEquityUpdateFields
<1>3. PeakMeans(n + 1)' /\ (DrawdownBreach(n + 1)' <=> drawdown)
  BY <1>1, <1>2, PeakStep DEF InDrawdown
<1>4. OpeningMeans(n + 1)' /\ (DailyLossBreach(n + 1)' <=> loss)
  BY <1>1, <1>2, OpeningStep DEF InDailyLoss
<1>5. TodayMeans(n + 1)'
  BY <1>1, <1>2, TodayStep
<1>6. StreakMeans(n + 1)'
  <2>1. StreakAt(n + 1)' = StreakAt(n)
    BY <1>1, StreakStep
  <2> QED
    BY <1>1, <1>2, <2>1, Zenon DEF StreakMeans
<1>7. Breach(n + 1)' <=> drawdown \/ loss
  <2>1. ~StreakBreach(n + 1)'
    BY <1>1, KindOfBreach
  <2> QED
    BY <1>1, <1>3, <1>4, <2>1, KindOfBreach
<1>8. drawdown \/ loss => Alert(n + 1)' = IF drawdown THEN "max_drawdown" ELSE "daily_loss"
  <2>1. Alert(n + 1)' = IF DrawdownBreach(n + 1)' THEN "max_drawdown"
                        ELSE IF DailyLossBreach(n + 1)' THEN "daily_loss"
                        ELSE "consecutive_losses"
    BY Zenon DEF Alert
  <2> QED
    BY <1>3, <1>4, <2>1
<1>9. HaltedIffBreached' /\ AlertNamesFirstBreach'
  <2>1. /\ breaker'.halted <=> breaker.halted \/ Breach(n + 1)'
        /\ breaker.halted => breaker'.reason = breaker.reason
        /\ ~breaker.halted /\ breaker'.halted => breaker'.reason = Alert(n + 1)'
    BY <1>2, <1>7, <1>8
  <2> QED
    BY <1>1, <2>1, HaltStep
<1> QED
  BY <1>3, <1>4, <1>5, <1>6, <1>9, Zenon DEF Meaning, FieldsMean

LEMMA TradeStep ==
    ASSUME NEW n \in Nat, NEW pnl \in Int, Extends(n, "trade", pnl),
           breaker \in Breakers, Meaning(n), breaker' = OnTradeClosed(breaker, pnl)
    PROVE  Meaning(n + 1)'
<1> DEFINE b == breaker
<1>1. /\ PeakMeans(n) /\ OpeningMeans(n) /\ TodayMeans(n) /\ StreakMeans(n)
      /\ HaltedIffBreached /\ AlertNamesFirstBreach /\ "trade" \in Ops \ {"reset"}
  BY DEF Meaning, FieldsMean, Ops
<1>2. /\ breaker'.startOfDayEquity = b.startOfDayEquity /\ breaker'.peakEquity = b.peakEquity
      /\ breaker'.lossStreak = b.lossStreak /\ breaker'.halted = b.halted
      /\ breaker'.reason = b.reason
      /\ breaker'.dayTradeCount = b.dayTradeCount + 1 /\ breaker'.dayRealized = b.dayRealized + pnl
  BY TradeFields
<1>3. PeakMeans(n + 1)'
  BY <1>1, <1>2, PeakStep
<1>4. OpeningMeans(n + 1)'
  BY <1>1, <1>2, OpeningStep
<1>5. TodayMeans(n + 1)'
  BY <1>1, <1>2, TodayStep
<1>6. StreakMeans(n + 1)'
  <2>1. StreakAt(n + 1)' = StreakAt(n)
    BY <1>1, StreakStep
  <2> QED
    BY <1>1, <1>2, <2>1, Zenon DEF StreakMeans
<1>7. ~Breach(n + 1)'
  BY <1>1, KindOfBreach
<1>8. HaltedIffBreached' /\ AlertNamesFirstBreach'
  BY <1>1, <1>2, <1>7, HaltStep
<1> QED
  BY <1>3, <1>4, <1>5, <1>6, <1>8, Zenon DEF Meaning, FieldsMean

LEMMA ResetStep ==
    ASSUME NEW n \in Nat, Extends(n, "reset", 0),
           breaker \in Breakers, Meaning(n), breaker' = ResetCircuitBreaker(breaker)
    PROVE  Meaning(n + 1)'
<1> DEFINE b == breaker
<1>1. /\ PeakMeans(n) /\ OpeningMeans(n) /\ TodayMeans(n)
      /\ "reset" \in Ops /\ 0 \in Int
  BY DEF Meaning, FieldsMean, Ops
<1>2. /\ breaker'.startOfDayEquity = b.startOfDayEquity /\ breaker'.peakEquity = b.peakEquity
      /\ breaker'.lossStreak = 0 /\ breaker'.dayTradeCount = 0
      /\ breaker'.dayRealized = 0 /\ breaker'.halted = FALSE
  BY <1>1, ResetFields
<1>3. PeakMeans(n + 1)'
  BY <1>1, <1>2, PeakStep
<1>4. OpeningMeans(n + 1)'
  BY <1>1, <1>2, OpeningStep
<1>5. TodayMeans(n + 1)'
  BY <1>1, <1>2, TodayStep
<1>6. StreakMeans(n + 1)'
  <2>1. StreakAt(n + 1)' = 0
    BY <1>1, StreakStep
  <2> QED
    BY <1>2, <2>1, Zenon DEF StreakMeans
<1>7. Breaches' = {}
  BY <1>1, BreachesStep
<1>8. HaltedIffBreached' /\ AlertNamesFirstBreach'
  BY <1>2, <1>7 DEF HaltedIffBreached, AlertNamesFirstBreach
<1> QED
  BY <1>3, <1>4, <1>5, <1>6, <1>8, Zenon DEF Meaning, FieldsMean

LEMMA InitHistoryInv == Init => HistoryInv
<1> SUFFICES ASSUME Init PROVE HistoryInv
  OBVIOUS
<1>1. /\ calls = <<>> /\ Len(calls) = 0 /\ calls \in Seq(Calls) /\ 0 \in Nat
      /\ breaker = NewBreaker /\ TypeOK
  BY InitIInv DEF Init, IInv, TypeOK
<1>2. \A o \in Ops : At(o, 0) = {}
  BY DEF At
<1>3. "day" \in Ops /\ "equity" \in Ops /\ "reset" \in Ops /\ "trade" \in Ops
  BY DEF Ops
<1>4. PeakMeans(0)
  BY <1>1, <1>2, <1>3 DEF PeakMeans, Heard, NewBreaker
<1>5. OpeningMeans(0)
  BY <1>1, <1>2, <1>3 DEF OpeningMeans, NewBreaker
<1>6. TodayMeans(0)
  <2>1. Today(0) = {}
    BY <1>2, <1>3 DEF Today
  <2>2. SumFunctionOnSet(Values, {}) = 0
    BY SumEmpty
  <2> QED
    BY <1>1, <2>1, <2>2 DEF TodayMeans, NewBreaker
<1>7. StreakMeans(0)
  <2>1. Red(0) = {}
    BY <1>2, <1>3 DEF Red
  <2>2. StreakAt(0) = 0
    BY <1>1, <2>1, StreakParts, FS_EmptySet
  <2> QED
    BY <1>1, <2>2 DEF StreakMeans, NewBreaker
<1>8. FieldsMean(0)
  BY <1>4, <1>5, <1>6, <1>7 DEF FieldsMean
<1>9. HaltedIffBreached /\ AlertNamesFirstBreach
  <2>1. Breaches = {}
    BY <1>1, BreachesParts
  <2> QED
    BY <1>1, <2>1 DEF HaltedIffBreached, AlertNamesFirstBreach, NewBreaker
<1> QED
  BY <1>1, <1>8, <1>9 DEF HistoryInv

LEMMA HistoryInvMeans ==
    ASSUME HistoryInv, NEW n \in Nat, n = Len(calls)
    PROVE  Meaning(n)
BY DEF HistoryInv, Meaning

LEMMA MeaningNext ==
    ASSUME TypeOK', NEW n \in Nat, Len(calls') = n + 1, Meaning(n + 1)'
    PROVE  HistoryInv'
<1>1. FieldsMean(n + 1)' /\ HaltedIffBreached' /\ AlertNamesFirstBreach'
  BY Zenon DEF Meaning
<1>2. ASSUME NEW m \in Nat, m = Len(calls') PROVE FieldsMean(m)'
  <2>1. m = n + 1
    BY <1>2
  <2> QED
    BY <1>1, <2>1, Zenon
<1> QED
  BY <1>1, <1>2, Zenon DEF HistoryInv

LEMMA HistoryStep ==
    ASSUME MaxDrawdownPct # 0, IInv, HistoryInv, [Next]_vars
    PROVE  HistoryInv'
<1>1. TypeOK'
  BY CallStep DEF IInv
<1>2. /\ breaker \in Breakers /\ calls \in Seq(Calls)
      /\ "day" \in Ops /\ "equity" \in Ops /\ "reset" \in Ops /\ "trade" \in Ops
  BY DEF IInv, TypeOK, Ops
<1>3. ASSUME NEW op \in Ops, NEW value \in Int, Record(op, value)
      PROVE  \E n \in Nat : /\ Extends(n, op, value) /\ Meaning(n) /\ Len(calls') = n + 1
                            /\ Meaning(n + 1)' => HistoryInv'
  <2>1. PICK n \in Nat : Extends(n, op, value)
    BY <1>2, <1>3, RecordExtends
  <2>2. Meaning(n) /\ Len(calls') = n + 1
    BY <2>1, HistoryInvMeans DEF Extends
  <2>3. Meaning(n + 1)' => HistoryInv'
    BY <1>1, <2>2, MeaningNext
  <2> QED
    BY <2>1, <2>2, <2>3
<1>4. ASSUME NEW e \in Equities, NewDay(e) PROVE HistoryInv'
  <2>1. e \in Int /\ Record("day", e) /\ breaker' = StartOfDay(breaker, e)
    BY <1>4, HistoryAssumption DEF NewDay
  <2>2. PICK n \in Nat : Extends(n, "day", e) /\ Meaning(n) /\ (Meaning(n + 1)' => HistoryInv')
    BY <1>2, <1>3, <2>1
  <2> QED
    BY <1>2, <2>1, <2>2, NewDayStep
<1>5. ASSUME NEW e \in Equities, EquityUpdate(e) PROVE HistoryInv'
  <2>1. e \in Int /\ Record("equity", e) /\ breaker' = OnEquityUpdate(breaker, e)
    BY <1>5, HistoryAssumption DEF EquityUpdate
  <2>2. PICK n \in Nat : Extends(n, "equity", e) /\ Meaning(n) /\ (Meaning(n + 1)' => HistoryInv')
    BY <1>2, <1>3, <2>1
  <2> QED
    BY <1>2, <2>1, <2>2, EquityStep
<1>6. ASSUME NEW p \in Pnls, TradeClosed(p) PROVE HistoryInv'
  <2>1. p \in Int /\ Record("trade", p) /\ breaker' = OnTradeClosed(breaker, p)
    BY <1>6, HistoryAssumption DEF TradeClosed
  <2>2. PICK n \in Nat : Extends(n, "trade", p) /\ Meaning(n) /\ (Meaning(n + 1)' => HistoryInv')
    BY <1>2, <1>3, <2>1
  <2> QED
    BY <1>2, <2>1, <2>2, TradeStep
<1>7. CASE ManualReset
  <2>1. 0 \in Int /\ Record("reset", 0) /\ breaker' = ResetCircuitBreaker(breaker)
    BY <1>7 DEF ManualReset
  <2>2. PICK n \in Nat : Extends(n, "reset", 0) /\ Meaning(n) /\ (Meaning(n + 1)' => HistoryInv')
    BY <1>2, <1>3, <2>1
  <2> QED
    BY <1>2, <2>1, <2>2, ResetStep
<1>8. CASE UNCHANGED vars
  <2>1. breaker' = breaker /\ calls' = calls
    BY <1>8 DEF vars
  <2>2. \A o : \A i : At(o, i)' = At(o, i)
    BY <2>1, Zenon DEF At
  <2>3. Values' = Values
    BY <2>1, Zenon DEF Values
  <2>4. \A i : /\ TradesOfDay(i)' = TradesOfDay(i) /\ Today(i)' = Today(i)
               /\ HighestEquity(i)' = HighestEquity(i) /\ Heard(i)' = Heard(i)
    BY <2>1, <2>2, Zenon DEF TradesOfDay, Today, Boundary, HighestEquity, Heard
  <2>5. \A i : WinningDay(i)' = WinningDay(i) /\ LosingDay(i)' = LosingDay(i)
    BY <2>3, <2>4, Zenon DEF WinningDay, LosingDay, DayPnl
  <2>6. \A i : StreakAt(i)' = StreakAt(i)
    BY <2>2, <2>5, Zenon DEF StreakAt
  <2>7. \A i : /\ DrawdownBreach(i)' = DrawdownBreach(i)
               /\ DailyLossBreach(i)' = DailyLossBreach(i)
               /\ StreakBreach(i)' = StreakBreach(i)
    BY <2>1, <2>2, <2>4, <2>5, <2>6, Zenon DEF DrawdownBreach, DailyLossBreach, StreakBreach
  <2>8. Breaches' = Breaches
    BY <2>1, <2>2, <2>7, Zenon DEF Breaches, LastReset
  <2>9. HaltedIffBreached' /\ AlertNamesFirstBreach'
    <3>1. HaltedIffBreached /\ AlertNamesFirstBreach
      BY DEF HistoryInv
    <3>2. HaltedIffBreached'
      BY <2>1, <2>8, <3>1, Zenon DEF HaltedIffBreached
    <3>3. AlertNamesFirstBreach'
      BY <2>1, <2>7, <2>8, <3>1, Zenon DEF AlertNamesFirstBreach
    <3> QED
      BY <3>2, <3>3
  <2>10. ASSUME NEW n \in Nat, n = Len(calls') PROVE FieldsMean(n)'
    <3>1. PeakMeans(n) /\ OpeningMeans(n) /\ TodayMeans(n) /\ StreakMeans(n)
      BY <2>1, <2>10 DEF HistoryInv, FieldsMean
    <3>2. PeakMeans(n)'
      BY <2>1, <2>4, <3>1, Zenon DEF PeakMeans
    <3>3. OpeningMeans(n)'
      BY <2>1, <2>2, <3>1, Zenon DEF OpeningMeans
    <3>4. TodayMeans(n)'
      BY <2>1, <2>3, <2>4, <3>1, Zenon DEF TodayMeans
    <3>5. StreakMeans(n)'
      BY <2>1, <2>6, <3>1, Zenon DEF StreakMeans
    <3> QED
      BY <3>2, <3>3, <3>4, <3>5, Zenon DEF FieldsMean
  <2> QED
    BY <1>1, <2>9, <2>10, Zenon DEF HistoryInv
<1> QED
  BY <1>4, <1>5, <1>6, <1>7, <1>8 DEF Next

THEOREM HistoryInvHolds ==
    ASSUME MaxDrawdownPct # 0 PROVE Spec => []HistoryInv
<1>1. IInv /\ HistoryInv /\ [Next]_vars => HistoryInv'
  BY HistoryStep
<1> QED
  BY <1>1, InitHistoryInv, IInvHolds, PTL DEF Spec

\* circuit_breaker.py:1-10: for every history, trading is halted exactly when one
\* of the three documented conditions has held since the last reset.  A drawdown
\* limit of 0 is left out: then a peak of 0, which Python takes for "no peak
\* yet", is replaced by a negative equity that is no drawdown from itself.
THEOREM HaltsExactlyOnBreach ==
    ASSUME MaxDrawdownPct # 0 PROVE Spec => []HaltedIffBreached
<1>1. HistoryInv => HaltedIffBreached
  BY DEF HistoryInv
<1> QED
  BY <1>1, HistoryInvHolds, PTL

\* circuit_breaker.py:95-100: the alert of a halt names the first of its breaches.
THEOREM AlertsAlwaysNameFirstBreach ==
    ASSUME MaxDrawdownPct # 0 PROVE Spec => []AlertNamesFirstBreach
<1>1. HistoryInv => AlertNamesFirstBreach
  BY DEF HistoryInv
<1> QED
  BY <1>1, HistoryInvHolds, PTL
=============================================================================
