----------------------------- MODULE BacktestProofs -----------------------------
(****************************************************************************)
(* Theorems about BacktestEngine for every universe, every price, every     *)
(* reading of the signals and every setting of the gate.  The lemmas about  *)
(* tracker and gate are in RiskTheorems; those about broker and strategies  *)
(* come first, then the inductive invariant and its preservation.           *)
(****************************************************************************)
EXTENDS BacktestEngine, RiskTheorems, SequenceTheorems

----------------------------------------------------------------------------
\* One position of the broker and one fill.

LEMMA SettledType ==
    ASSUME NEW pos \in [qty : Int, avgPrice : Int], NEW fill \in FillRecords
    PROVE  /\ Settled(pos, fill) \in [qty : Int, avgPrice : Int]
           /\ Settled(pos, fill).qty = pos.qty + Signed(fill)
<1> DEFINE newQty == pos.qty + Signed(fill)
<1>1. pos.qty \in Int /\ pos.avgPrice \in Int /\ fill.qty \in Nat /\ fill.price \in Int
  BY DEF FillRecords
<1>2. newQty \in Int
  BY <1>1, SignedType
<1>3. CASE newQty = 0
  BY <1>1, <1>3 DEF Settled
<1>4. CASE newQty # 0
  <2>1. Abs(pos.qty) \in Nat /\ Abs(newQty) \in Nat /\ Abs(newQty) > 0
    BY <1>1, <1>2, <1>4, AbsType
  <2>2. (Abs(pos.qty) * pos.avgPrice + fill.qty * fill.price) \div Abs(newQty) \in Int
    BY <1>1, <2>1, AverageType
  <2> QED
    BY <1>1, <1>2, <2>2 DEF Settled
<1> QED
  BY <1>3, <1>4

----------------------------------------------------------------------------
\* The broker.

LEMMA SubmitOrderType ==
    ASSUME NEW b \in Brokers, NEW order \in Orders
    PROVE  /\ SubmitOrder(b, order) \in Brokers
           /\ SubmitOrder(b, order).positions = b.positions
           /\ \A s \in Symbols : SubmitOrder(b, order).pending[s] =
                IF s = order.symbol THEN Append(b.pending[s], order) ELSE b.pending[s]
<1>1. order.symbol \in Symbols /\ b.pending[order.symbol] \in Seq(Orders)
  BY DEF Brokers, Orders
<1>2. Append(b.pending[order.symbol], order) \in Seq(Orders)
  BY <1>1
<1>3. [b.pending EXCEPT ![order.symbol] = Append(b.pending[order.symbol], order)]
        \in [Symbols -> Seq(Orders)]
  BY <1>1, <1>2 DEF Brokers
<1> QED
  BY <1>1, <1>3 DEF SubmitOrder, Brokers

LEMMA FillAtOpenType ==
    ASSUME NEW b \in Brokers, NEW fill \in FillRecords, b.pending[fill.symbol] # <<>>
    PROVE  /\ FillAtOpen(b, fill) \in Brokers
           /\ \A s \in Symbols :
                /\ FillAtOpen(b, fill).positions[s].qty =
                     IF s = fill.symbol THEN b.positions[s].qty + Signed(fill)
                     ELSE b.positions[s].qty
                /\ FillAtOpen(b, fill).pending[s] =
                     IF s = fill.symbol THEN Tail(b.pending[s]) ELSE b.pending[s]
<1> DEFINE next == FillAtOpen(b, fill)
           pos == b.positions[fill.symbol]
           commission == fill.qty * CommissionPerShare
<1>1. fill.symbol \in Symbols /\ fill.qty \in Nat /\ fill.price \in Int
  BY DEF FillRecords
<1>2. pos \in [qty : Int, avgPrice : Int] /\ b.pending[fill.symbol] \in Seq(Orders)
  BY <1>1 DEF Brokers
<1>3. commission \in Int
  BY <1>1, CostAssumption
<1>4. Signed(fill) * fill.price \in Int
  BY <1>1, SignedType
<1>5. Settled(pos, fill) \in [qty : Int, avgPrice : Int]
      /\ Settled(pos, fill).qty = pos.qty + Signed(fill)
  BY <1>2, SettledType
<1>6. Tail(b.pending[fill.symbol]) \in Seq(Orders)
  BY <1>2
<1>7. /\ b.cash \in Int /\ b.commission \in Int
      /\ b.cash - Signed(fill) * fill.price - commission \in Int
      /\ b.commission + commission \in Int
  BY <1>3, <1>4 DEF Brokers
<1>8. [b.positions EXCEPT ![fill.symbol] = Settled(pos, fill)]
        \in [Symbols -> [qty : Int, avgPrice : Int]]
  BY <1>1, <1>5 DEF Brokers
<1>9. [b.pending EXCEPT ![fill.symbol] = Tail(b.pending[fill.symbol])]
        \in [Symbols -> Seq(Orders)]
  BY <1>1, <1>6 DEF Brokers
<1>10. next \in Brokers
  BY <1>7, <1>8, <1>9 DEF FillAtOpen, Brokers
<1>11. /\ next.positions = [b.positions EXCEPT ![fill.symbol] = Settled(pos, fill)]
       /\ next.pending = [b.pending EXCEPT ![fill.symbol] = Tail(b.pending[fill.symbol])]
  BY DEF FillAtOpen, Brokers
<1> QED
  BY <1>1, <1>5, <1>10, <1>11 DEF Brokers

LEMMA BarType ==
    ASSUME NEW row \in Bars
    PROVE  /\ row.symbol \in Symbols
           /\ row.open \in Nat \ {0}
           /\ row.close \in Nat \ {0}
           /\ row.close \in Int
<1>1. Candles \subseteq [open : Nat \ {0}, close : Nat \ {0}]
  BY BarsAssumption, Zenon
<1>2. PICK s \in Symbols, candle \in Candles :
        row = [symbol |-> s, open |-> candle.open, close |-> candle.close]
  BY DEF Bars
<1>3. candle \in [open : Nat \ {0}, close : Nat \ {0}]
  BY <1>1
<1> QED
  BY <1>2, <1>3

LEMMA ReadingType ==
    ASSUME NEW reading \in Readings
    PROVE  reading.signal \in -100..100 /\ reading.signal \in Int
<1>1. \A x \in -100..100 : x \in Int
  OBVIOUS
<1>2. reading \in [complete : BOOLEAN, signal : -100..100, regime : Int \union {None},
                  sentiment : -100..100]
  BY BarsAssumption, Zenon
<1>3. reading.signal \in -100..100
  BY <1>2, Zenon
<1> QED
  BY <1>1, <1>3, Zenon

LEMMA MarkType ==
    ASSUME NEW b \in Brokers, NEW row \in Bars
    PROVE  /\ Mark(b, row) \in Brokers
           /\ Mark(b, row).positions = b.positions
           /\ Mark(b, row).pending = b.pending
<1>1. row.symbol \in Symbols /\ row.close \in Int
  BY BarType
<1>2. [b.lastPrice EXCEPT ![row.symbol] = row.close] \in [Symbols -> Int \union {None}]
  BY <1>1 DEF Brokers
<1> QED
  BY <1>2 DEF Mark, Brokers

----------------------------------------------------------------------------
\* The strategy.

LEMMA BufferBarType ==
    ASSUME NEW st \in StrategyObjects, NEW row \in Bars
    PROVE  /\ BufferBar(st, row) \in StrategyObjects
           /\ \E kept \in [Symbols -> 0..WarmupBars] :
                BufferBar(st, row) = [st EXCEPT !.buffered = kept]
<1> DEFINE kept == [st.buffered EXCEPT ![row.symbol] = st.buffered[row.symbol] + 1]
<1>1. row.symbol \in Symbols /\ WarmupBars \in Nat
  BY BarType, StrategyAssumption
<1>2. st.buffered \in [Symbols -> 0..WarmupBars]
  BY DEF StrategyObjects
<1>3. ASSUME st.buffered[row.symbol] # WarmupBars PROVE kept \in [Symbols -> 0..WarmupBars]
  BY <1>1, <1>2, <1>3
<1>4. CASE st.buffered[row.symbol] = WarmupBars \/ row.symbol \notin Universe
  <2>1. BufferBar(st, row) = st /\ st = [st EXCEPT !.buffered = st.buffered]
    BY <1>4 DEF BufferBar, StrategyObjects
  <2> QED
    BY <1>2, <2>1
<1>5. CASE st.buffered[row.symbol] # WarmupBars /\ row.symbol \in Universe
  <2>1. BufferBar(st, row) = [st EXCEPT !.buffered = kept] /\ kept \in [Symbols -> 0..WarmupBars]
    BY <1>3, <1>5 DEF BufferBar
  <2> QED
    BY <2>1 DEF StrategyObjects
<1> QED
  BY <1>4, <1>5

LEMMA AgeHoldingType ==
    ASSUME NEW st \in StrategyObjects, NEW row \in Bars
    PROVE  /\ AgeHolding(st, row) \in StrategyObjects
           /\ \E ages \in [Symbols -> Nat] : AgeHolding(st, row) = [st EXCEPT !.barsHeld = ages]
           /\ \A s \in Symbols :
                AgeHolding(st, row).barsHeld[s] =
                    IF s = row.symbol /\ Warm(st, s) /\ st.positions[s] > 0
                    THEN st.barsHeld[s] + 1 ELSE st.barsHeld[s]
<1> DEFINE older == [st.barsHeld EXCEPT ![row.symbol] = st.barsHeld[row.symbol] + 1]
<1>1. row.symbol \in Symbols /\ st.barsHeld \in [Symbols -> Nat]
  BY BarType DEF StrategyObjects
<1>2. older \in [Symbols -> Nat]
  BY <1>1
<1>3. st = [st EXCEPT !.barsHeld = st.barsHeld] /\ [st EXCEPT !.barsHeld = older] \in StrategyObjects
  BY <1>2 DEF StrategyObjects
<1>4. CASE Warm(st, row.symbol) /\ st.positions[row.symbol] > 0
  <2>1. AgeHolding(st, row) = [st EXCEPT !.barsHeld = older]
    BY <1>4 DEF AgeHolding
  <2>2. AgeHolding(st, row).barsHeld = older
    BY <2>1 DEF StrategyObjects
  <2> QED
    BY <1>1, <1>2, <1>3, <1>4, <2>1, <2>2
<1>5. CASE ~(Warm(st, row.symbol) /\ st.positions[row.symbol] > 0)
  BY <1>1, <1>3, <1>5 DEF AgeHolding
<1> QED
  BY <1>4, <1>5

LEMMA BestOfType ==
    ASSUME NEW signals \in Seq(Ranked) PROVE BestOf(signals) \subseteq Ranked
<1>1. \A i \in DOMAIN signals : signals[i] \in Ranked
  OBVIOUS
<1> QED
  BY <1>1 DEF BestOf

\* xsec_reversion.py:110-123: rolling the day touches nothing but the ranking.
LEMMA RollDayType ==
    ASSUME NEW st \in StrategyObjects, NEW timestamp \in Nat
    PROVE  /\ RollDay(st, timestamp) \in StrategyObjects
           /\ RollDay(st, timestamp).class = st.class
           /\ RollDay(st, timestamp).buffered = st.buffered
           /\ RollDay(st, timestamp).positions = st.positions
           /\ RollDay(st, timestamp).barsHeld = st.barsHeld
<1>1. st.signals \in Seq(Ranked) /\ st.target \in SUBSET Ranked /\ st.dayCount \in Nat
  BY DEF StrategyObjects
<1>2. BestOf(st.signals) \in SUBSET Ranked
  BY <1>1, BestOfType
<1>3. <<>> \in Seq(Ranked)
  OBVIOUS
<1>4. PICK chosen \in SUBSET Ranked :
        chosen = IF RebalancesOn(st.dayCount + 1) THEN BestOf(st.signals) ELSE st.target
  BY <1>1, <1>2
<1>5. CASE timestamp <= st.day
  BY <1>5 DEF RollDay
<1>6. CASE ~(timestamp <= st.day) /\ st.day = 0
  BY <1>6 DEF RollDay, StrategyObjects
<1>7. CASE ~(timestamp <= st.day) /\ st.day # 0
  <2>1. RollDay(st, timestamp) = [st EXCEPT !.day = timestamp, !.dayCount = st.dayCount + 1,
                                            !.signals = <<>>, !.target = chosen]
    BY <1>4, <1>7 DEF RollDay
  <2> DEFINE rolled == [st EXCEPT !.day = timestamp, !.dayCount = st.dayCount + 1,
                                  !.signals = <<>>, !.target = chosen]
  <2>2. rolled \in StrategyObjects
    <3>1. st.dayCount + 1 \in Nat /\ chosen \in SUBSET Ranked
      BY <1>1, <1>4
    <3> QED
      BY <1>3, <3>1 DEF StrategyObjects
  <2>3. /\ rolled.class = st.class /\ rolled.buffered = st.buffered
        /\ rolled.positions = st.positions /\ rolled.barsHeld = st.barsHeld
    BY DEF StrategyObjects
  <2> QED
    BY <2>1, <2>2, <2>3
<1> QED
  BY <1>5, <1>6, <1>7

LEMMA RecordedType ==
    ASSUME NEW st \in StrategyObjects, NEW row \in Bars, NEW reading \in Readings,
           NEW timestamp \in Nat
    PROVE  LET next == Recorded(st, row, timestamp, reading)
           IN  /\ next \in StrategyObjects
               /\ next.class = st.class /\ next.buffered = st.buffered
               /\ next.positions = st.positions /\ next.barsHeld = st.barsHeld
               /\ next.day = st.day /\ next.target = st.target
               /\ \A i \in DOMAIN next.signals :
                    \/ next.signals[i].day = timestamp
                    \/ \E j \in DOMAIN st.signals : next.signals[i] = st.signals[j]
<1> DEFINE signal == [symbol |-> row.symbol, signal |-> reading.signal, day |-> timestamp]
           old    == st.signals
           same   == {i \in DOMAIN old : old[i].symbol = row.symbol}
           in_place == [i \in DOMAIN old |-> IF i \in same THEN signal ELSE old[i]]
<1>1. signal \in Ranked /\ signal.day = timestamp /\ old \in Seq(Ranked)
  BY BarType, ReadingType DEF Ranked, StrategyObjects
<1>2. /\ Append(old, signal) \in Seq(Ranked)
      /\ \A i \in DOMAIN Append(old, signal) :
            Append(old, signal)[i] = signal
              \/ \E j \in DOMAIN old : Append(old, signal)[i] = old[j]
  BY <1>1
<1>3. /\ in_place \in Seq(Ranked) /\ DOMAIN in_place = DOMAIN old
      /\ \A i \in DOMAIN old : in_place[i] = signal \/ in_place[i] = old[i]
  <2>1. \A i \in DOMAIN old : old[i] \in Ranked
    BY <1>1
  <2>2. DOMAIN old = 1..Len(old) /\ Len(old) \in Nat
    BY <1>1
  <2>3. in_place \in [1..Len(old) -> Ranked]
    BY <1>1, <2>1, <2>2
  <2> QED
    BY <2>2, <2>3
<1> HIDE DEF signal, in_place
<1>4. ASSUME NEW signals \in Seq(Ranked)
      PROVE  LET next == [st EXCEPT !.signals = signals]
             IN  /\ next \in StrategyObjects /\ next.signals = signals
                 /\ next.class = st.class /\ next.buffered = st.buffered
                 /\ next.positions = st.positions /\ next.barsHeld = st.barsHeld
                 /\ next.day = st.day /\ next.target = st.target
  BY DEF StrategyObjects
<1>5. CASE ~Warm(st, row.symbol) \/ ~reading.complete
  BY <1>5 DEF Recorded
<1>6. CASE Warm(st, row.symbol) /\ reading.complete /\ same = {}
  <2> DEFINE added == Append(old, signal)
  <2>1. Recorded(st, row, timestamp, reading) = [st EXCEPT !.signals = added]
    BY <1>6 DEF Recorded, signal
  <2>2. /\ added \in Seq(Ranked)
        /\ \A i \in DOMAIN added : added[i] = signal \/ \E j \in DOMAIN old : added[i] = old[j]
    BY <1>2
  <2> HIDE DEF added
  <2> QED
    BY <1>1, <1>4, <2>1, <2>2
<1>7. CASE Warm(st, row.symbol) /\ reading.complete /\ same # {}
  <2>1. Recorded(st, row, timestamp, reading) = [st EXCEPT !.signals = in_place]
    BY <1>7 DEF Recorded, signal, in_place
  <2> QED
    BY <1>1, <1>3, <1>4, <2>1
<1> QED
  BY <1>5, <1>6, <1>7

\* base.py:57-64: whatever the class, taking a bar in moves no position.
LEMMA OnBarType ==
    ASSUME NEW st \in StrategyObjects, NEW row \in Bars, NEW reading \in Readings,
           NEW timestamp \in Nat
    PROVE  /\ OnBar(st, row, timestamp, reading) \in StrategyObjects
           /\ OnBar(st, row, timestamp, reading).positions = st.positions
<1>1. st.class \in {"momentum", "mean_reversion", "xsec_reversion"}
  BY ClassesAssumption DEF StrategyObjects
<1>2. ASSUME NEW x \in StrategyObjects
      PROVE  BufferBar(x, row) \in StrategyObjects /\ BufferBar(x, row).positions = x.positions
  <2>1. PICK kept \in [Symbols -> 0..WarmupBars] :
          BufferBar(x, row) = [x EXCEPT !.buffered = kept]
    BY BufferBarType
  <2> QED
    BY <2>1, BufferBarType DEF StrategyObjects
<1>3. ASSUME NEW x \in StrategyObjects
      PROVE  AgeHolding(x, row) \in StrategyObjects /\ AgeHolding(x, row).positions = x.positions
  <2>1. PICK ages \in [Symbols -> Nat] : AgeHolding(x, row) = [x EXCEPT !.barsHeld = ages]
    BY AgeHoldingType
  <2> QED
    BY <2>1, AgeHoldingType DEF StrategyObjects
<1>4. ASSUME NEW x \in StrategyObjects
      PROVE  /\ Recorded(x, row, timestamp, reading) \in StrategyObjects
             /\ Recorded(x, row, timestamp, reading).positions = x.positions
  BY <1>4, RecordedType
<1>5. CASE st.class = "momentum"
  BY <1>2, <1>5 DEF OnBar
<1>6. CASE st.class = "mean_reversion"
  BY <1>2, <1>3, <1>6 DEF OnBar
<1>7. CASE st.class = "xsec_reversion"
  <2>1. OnBar(st, row, timestamp, reading) = XsecOnBar(st, row, timestamp, reading)
    BY <1>7 DEF OnBar
  <2> QED
    BY <1>2, <1>3, <1>4, <2>1, RollDayType DEF XsecOnBar
<1> QED
  BY <1>1, <1>5, <1>6, <1>7

LEMMA OnFillType ==
    ASSUME NEW st \in StrategyObjects, NEW fill \in FillRecords
    PROVE  /\ OnFill(st, fill) \in StrategyObjects
           /\ OnFill(st, fill).class = st.class
           /\ OnFill(st, fill).target = st.target /\ OnFill(st, fill).signals = st.signals
           /\ OnFill(st, fill).day = st.day
           /\ \A s \in Symbols :
                /\ OnFill(st, fill).positions[s] =
                     IF s = fill.symbol THEN st.positions[s] + Signed(fill) ELSE st.positions[s]
                /\ OnFill(st, fill).barsHeld[s] =
                     IF /\ st.class # "momentum" /\ s = fill.symbol
                        /\ st.positions[s] + Signed(fill) <= 0
                     THEN 0 ELSE st.barsHeld[s]
<1> DEFINE sym   == fill.symbol
           moved == [st.positions EXCEPT ![sym] = st.positions[sym] + Signed(fill)]
           ended == st.class # "momentum" /\ st.positions[sym] + Signed(fill) <= 0
           ages  == IF ended THEN [st.barsHeld EXCEPT ![sym] = 0] ELSE st.barsHeld
           next  == [st EXCEPT !.positions = moved, !.barsHeld = ages]
<1>1. sym \in Symbols /\ Signed(fill) \in Int
  BY SignedType DEF FillRecords
<1>2. /\ st.positions \in [Symbols -> Int] /\ st.barsHeld \in [Symbols -> Nat]
      /\ st = [st EXCEPT !.barsHeld = st.barsHeld]
  BY DEF StrategyObjects
<1>3. /\ moved \in [Symbols -> Int] /\ ages \in [Symbols -> Nat]
      /\ \A s \in Symbols :
           /\ moved[s] = IF s = sym THEN st.positions[s] + Signed(fill) ELSE st.positions[s]
           /\ ages[s] = IF ended /\ s = sym THEN 0 ELSE st.barsHeld[s]
  BY <1>1, <1>2
<1>4. OnTradeUpdate(st, fill) = [st EXCEPT !.positions = moved]
  BY DEF OnTradeUpdate
<1>5. /\ [st EXCEPT !.positions = moved].positions = moved
      /\ [st EXCEPT !.positions = moved].barsHeld = st.barsHeld
      /\ [st EXCEPT !.positions = moved] = [st EXCEPT !.positions = moved, !.barsHeld = st.barsHeld]
  BY <1>3 DEF StrategyObjects
<1>6. moved[sym] = st.positions[sym] + Signed(fill)
  BY <1>1, <1>3
<1>7. OnFill(st, fill) = next
  <2>1. CASE ~ended
    <3>1. ages = st.barsHeld
      BY <2>1
    <3>2. st.class # "momentum" => ~([st EXCEPT !.positions = moved].positions[sym] <= 0)
      BY <1>5, <1>6, <2>1
    <3> HIDE DEF moved, ages, ended
    <3>3. OnFill(st, fill) = [st EXCEPT !.positions = moved]
      BY <1>4, <3>2 DEF OnFill, ReversionOnFill
    <3> QED
      BY <1>5, <3>1, <3>3
  <2>2. CASE ended
    <3>1. OnFill(st, fill) = [[st EXCEPT !.positions = moved] EXCEPT
                                !.barsHeld = [st.barsHeld EXCEPT ![sym] = 0]]
      BY <1>4, <1>5, <1>6, <2>2 DEF OnFill, ReversionOnFill
    <3> QED
      BY <2>2, <3>1 DEF StrategyObjects
  <2> QED
    BY <2>1, <2>2
<1> HIDE DEF moved, ages, ended
<1>8. /\ next \in StrategyObjects /\ next.class = st.class
      /\ next.target = st.target /\ next.signals = st.signals /\ next.day = st.day
      /\ next.positions = moved /\ next.barsHeld = ages
  BY <1>3 DEF StrategyObjects
<1> HIDE DEF next
<1> QED
  BY <1>3, <1>7, <1>8 DEF ended

\* momentum_lightgbm.py:99-124, mean_reversion.py:118-147, xsec_reversion.py:143-172:
\* what a strategy that holds no short position asks for is an entry of a symbol it
\* does not hold or an exit of all that it holds.
LEMMA IntentShape ==
    ASSUME NEW st \in StrategyObjects, NEW row \in Bars, NEW reading \in Readings,
           st.positions[row.symbol] >= 0, IntentOf(st, row, reading) # None
    PROVE  \E strength \in Int :
              \/ /\ IntentOf(st, row, reading) = EntryIntent(row, strength)
                 /\ st.positions[row.symbol] = 0
              \/ /\ IntentOf(st, row, reading) =
                       ExitIntent(row, st.positions[row.symbol], strength)
                 /\ st.positions[row.symbol] > 0
<1>1. st.class \in {"momentum", "mean_reversion", "xsec_reversion"}
  BY ClassesAssumption DEF StrategyObjects
<1>2. reading.signal \in Int /\ row.symbol \in Symbols /\ st.positions[row.symbol] \in Int
  BY ReadingType, BarType DEF StrategyObjects
<1>3. CASE st.class = "momentum"
  BY <1>2, <1>3 DEF IntentOf, Intent, Decide
<1>4. CASE st.class = "mean_reversion"
  BY <1>2, <1>4 DEF IntentOf, ReversionIntent
<1>5. CASE st.class = "xsec_reversion"
  BY <1>2, <1>5 DEF IntentOf, XsecIntent
<1> QED
  BY <1>1, <1>3, <1>4, <1>5

LEMMA PendingType ==
    ASSUME NEW b \in Brokers, NEW s \in Symbols
    PROVE  /\ b.pending[s] \in Seq(Orders)
           /\ \A i \in DOMAIN b.pending[s] :
                b.pending[s][i] \in Orders /\ b.pending[s][i].day \in Nat
<1>1. b.pending[s] \in Seq(Orders)
  BY DEF Brokers
<1>2. \A i \in DOMAIN b.pending[s] : b.pending[s][i] \in Orders
  BY <1>1
<1> QED
  BY <1>1, <1>2 DEF Orders

LEMMA SingletonQueue ==
    ASSUME NEW b \in Brokers, NEW s \in Symbols, Len(b.pending[s]) <= 1, b.pending[s] # <<>>
    PROVE  /\ DOMAIN b.pending[s] = {1}
           /\ Head(b.pending[s]) = b.pending[s][1]
           /\ b.pending[s][1] \in Orders
           /\ Tail(b.pending[s]) = <<>>
<1> DEFINE q == b.pending[s]
<1>1. q \in Seq(Orders)
  BY PendingType
<1> SUFFICES ASSUME q \in Seq(Orders), q # <<>>, Len(q) <= 1
             PROVE  /\ DOMAIN q = {1} /\ Head(q) = q[1] /\ q[1] \in Orders
                    /\ Tail(q) = <<>>
  BY <1>1
<1> HIDE DEF q
<1>2. Len(q) = 1
  <2>1. Len(q) \in Nat /\ Len(Tail(q)) \in Nat /\ Len(Tail(q)) = Len(q) - 1
    BY LenProperties, HeadTailProperties
  <2> QED
    BY <2>1
<1> QED
  BY <1>2, HeadTailProperties, EmptySeq

LEMMA FillOfType ==
    ASSUME NEW order \in Orders, NEW open \in Nat
    PROVE  /\ FillOf(order, open) \in FillRecords
           /\ FillOf(order, open).symbol = order.symbol
           /\ FillOf(order, open).side = order.side
           /\ FillOf(order, open).qty = order.qty
<1> DEFINE factor == IF order.side = "buy" THEN 10000 + SlippageBps ELSE 10000 - SlippageBps
<1>1. factor \in Int
  BY CostAssumption
<1> HIDE DEF factor
<1>2. (open * factor) \div 10000 \in Int
  BY <1>1
<1> QED
  BY <1>2 DEF FillOf, FillRecords, Orders, factor

----------------------------------------------------------------------------
\* The inductive invariant.

\* What the type invariant says of the variables the books depend on; the equity
\* curve and the P&L tallies never flow back into them.
Typed ==
    /\ day \in Nat /\ todo \subseteq Symbols
    /\ bar \in Bars \union {None}
    /\ broker \in Brokers
    /\ risk.tracker \in Trackers
    /\ strategy \in StrategyObjects

\* fill_at_open picks a symbol's orders out of the pending list.
QueuesMatch ==
    \A s \in Symbols : \A i \in DOMAIN broker.pending[s] : broker.pending[s][i].symbol = s

\* A symbol whose order is of this timestamp has had its row of this timestamp.
OrdersAreOld ==
    /\ bar # None => bar.symbol \notin todo
    /\ \A s \in Symbols : \A i \in DOMAIN broker.pending[s] :
        LET order == broker.pending[s][i]
        IN  /\ TradeStart <= order.day /\ order.day <= day
            /\ order.day = day => s \notin todo /\ (bar # None => bar.symbol # s)

IInv ==
    /\ Typed /\ QueuesMatch /\ OrdersAreOld
    /\ BooksAgree /\ NeverShort /\ OrdersAreWholeTrades

----------------------------------------------------------------------------
\* It holds initially and every step preserves it.

LEMMA InitIInv == Init => IInv
<1> SUFFICES ASSUME Init PROVE IInv
  OBVIOUS
<1>1. \A s \in Symbols : PositionsReport(NewBroker)[s].qty = 0
  BY DEF PositionsReport, NewBroker
<1>2. risk.tracker = [positions |-> [s \in Symbols |-> Flat], equity |-> InitialCapital]
  BY <1>1 DEF Init, SyncFromApi, NewBroker
<1>3. risk.tracker \in Trackers
  BY <1>2, CostAssumption DEF Trackers, Positions, Flat
<1>4. broker \in Brokers
  BY CostAssumption DEF Init, NewBroker, Brokers
<1>5. strategy \in StrategyObjects
  <2>1. PICK class \in Classes : strategy = NewObject(class)
    BY DEF Init
  <2> QED
    BY <2>1, StrategyAssumption DEF NewObject, StrategyObjects
<1>6. \A s \in Symbols : /\ broker.pending[s] = <<>> /\ broker.positions[s].qty = 0
                          /\ strategy.positions[s] = 0
                          /\ risk.tracker.positions[s].qty = 0
  BY <1>2 DEF Init, NewBroker, NewObject, Flat
<1>7. Typed
  BY <1>3, <1>4, <1>5 DEF Init, Typed
<1>8. QueuesMatch /\ OrdersAreOld
  BY <1>6 DEF Init, QueuesMatch, OrdersAreOld
<1>9. BooksAgree /\ NeverShort /\ OrdersAreWholeTrades
  BY <1>6 DEF BooksAgree, NeverShort, OrdersAreWholeTrades
<1> QED
  BY <1>7, <1>8, <1>9 DEF IInv

\* What the invariant is about does not change.
LEMMA KeepsIInv ==
    ASSUME IInv, UNCHANGED <<bar, broker, strategy>>, risk'.tracker = risk.tracker,
           day' = day \/ (bar = None /\ day' = day + 1),
           todo' \subseteq Symbols, bar # None => todo' = todo, day' = day => todo' \subseteq todo
    PROVE  IInv'
<1>1. Typed'
  BY DEF IInv, Typed
<1>2. QueuesMatch'
  BY DEF IInv, QueuesMatch
<1>3. OrdersAreOld'
  <2>1. \A s \in Symbols : \A i \in DOMAIN broker.pending[s] : broker.pending[s][i].day \in Nat
    BY PendingType DEF IInv, Typed
  <2> QED
    BY <2>1 DEF IInv, Typed, OrdersAreOld
<1>4. BooksAgree' /\ NeverShort' /\ OrdersAreWholeTrades'
  BY DEF IInv, BooksAgree, NeverShort, OrdersAreWholeTrades
<1> QED
  BY <1>1, <1>2, <1>3, <1>4 DEF IInv

LEMMA NewTimestampStep == IInv /\ NewTimestamp => IInv'
<1> SUFFICES ASSUME IInv, NewTimestamp PROVE IInv'
  OBVIOUS
<1>1. /\ UNCHANGED <<bar, broker, strategy>> /\ risk'.tracker = risk.tracker
      /\ bar = None /\ day' = day + 1 /\ todo' \subseteq Symbols
  BY DEF NewTimestamp, RiskOnNewDay
<1>2. day \in Nat
  BY DEF IInv, Typed
<1>3. day' # day
  BY <1>1, <1>2
<1> QED
  BY <1>1, <1>3, KeepsIInv

LEMMA StutterStep == IInv /\ (Finish \/ UNCHANGED vars) => IInv'
<1> SUFFICES ASSUME IInv, Finish \/ UNCHANGED vars PROVE IInv'
  OBVIOUS
<1>1. UNCHANGED <<day, todo, bar, broker, risk, strategy>>
  BY DEF Finish, vars, books
<1>2. todo' \subseteq Symbols
  BY <1>1 DEF IInv, Typed
<1> QED
  BY <1>1, <1>2, KeepsIInv

LEMMA OpenBarStep == ASSUME NEW next \in Bars PROVE IInv /\ OpenBar(next) => IInv'
<1> SUFFICES ASSUME IInv, OpenBar(next) PROVE IInv'
  OBVIOUS
<1>1. /\ UNCHANGED <<day, broker, risk, strategy>>
      /\ bar' = next /\ next.symbol \in todo /\ todo' = todo \ {next.symbol}
  BY DEF OpenBar, books
<1>2. Typed' /\ QueuesMatch'
  BY <1>1 DEF IInv, Typed, QueuesMatch
<1>3. OrdersAreOld'
  BY <1>1 DEF IInv, OrdersAreOld
<1>4. BooksAgree' /\ NeverShort' /\ OrdersAreWholeTrades'
  BY <1>1 DEF IInv, BooksAgree, NeverShort, OrdersAreWholeTrades
<1> QED
  BY <1>2, <1>3, <1>4 DEF IInv

\* The one order of the row's symbol leaves the queue and moves all three sets of
\* books by the same signed quantity: an entry from nothing, an exit to nothing.
LEMMA FillShape ==
    ASSUME IInv, FillOrder
    PROVE  \E fill \in FillRecords :
             /\ bar \in Bars /\ fill.symbol = bar.symbol
             /\ fill.side = broker.pending[fill.symbol][1].side
             /\ broker' = FillAtOpen(broker, fill)
             /\ strategy' = OnFill(strategy, fill)
             /\ risk'.tracker = TrackFill(risk.tracker, fill)
             /\ pnls' = (IF Realized(risk.tracker.positions[fill.symbol], fill) = 0 THEN pnls
                         ELSE Append(pnls, Realized(risk.tracker.positions[fill.symbol], fill)))
             /\ broker.pending[fill.symbol] # <<>>
             /\ Tail(broker.pending[fill.symbol]) = <<>>
             /\ fill.side = "buy" =>
                  broker.positions[fill.symbol].qty + Signed(fill) = fill.qty
             /\ fill.side = "sell" => broker.positions[fill.symbol].qty + Signed(fill) = 0
<1> DEFINE sym   == bar.symbol
           order == Head(broker.pending[sym])
           fill  == FillOf(order, bar.open)
<1>1. Typed /\ QueuesMatch /\ OrdersAreWholeTrades
  BY DEF IInv
<1>2. bar \in Bars /\ sym \in Symbols /\ bar.open \in Nat
  BY <1>1, BarType DEF FillOrder, Typed
<1>3. /\ order = broker.pending[sym][1] /\ order \in Orders
      /\ DOMAIN broker.pending[sym] = {1} /\ Tail(broker.pending[sym]) = <<>>
  BY <1>1, <1>2, SingletonQueue DEF FillOrder, Typed, OrdersAreWholeTrades
<1>4. order.symbol = sym
  BY <1>1, <1>2, <1>3 DEF QueuesMatch
<1>5. /\ fill \in FillRecords /\ fill.symbol = sym
      /\ fill.side = order.side /\ fill.qty = order.qty
  BY <1>2, <1>3, <1>4, FillOfType
<1>6. /\ broker' = FillAtOpen(broker, fill)
      /\ strategy' = OnFill(strategy, fill)
      /\ risk'.tracker = TrackFill(risk.tracker, fill)
      /\ pnls' = (IF Realized(risk.tracker.positions[sym], fill) = 0 THEN pnls
                  ELSE Append(pnls, Realized(risk.tracker.positions[sym], fill)))
      /\ broker.pending[sym] # <<>>
  BY <1>5 DEF FillOrder, RiskOnFill
<1>7. order.qty \in Nat /\ broker.positions[sym].qty \in Int
  BY <1>1, <1>2, <1>3 DEF Typed, Brokers, Orders
<1>8. \/ order.side = "buy" /\ broker.positions[sym].qty = 0
      \/ order.side = "sell" /\ order.qty = broker.positions[sym].qty
  BY <1>1, <1>2, <1>3 DEF OrdersAreWholeTrades
<1> HIDE DEF order, fill
<1>9. /\ fill.side = "buy" => broker.positions[sym].qty + Signed(fill) = fill.qty
      /\ fill.side = "sell" => broker.positions[sym].qty + Signed(fill) = 0
  BY <1>5, <1>7, <1>8, SignedType
<1> QED
  BY <1>2, <1>3, <1>5, <1>6, <1>9

\* What that leaves of the broker.
LEMMA FillEffect ==
    ASSUME NEW fill \in FillRecords, broker \in Brokers, broker' = FillAtOpen(broker, fill),
           broker.pending[fill.symbol] # <<>>, Tail(broker.pending[fill.symbol]) = <<>>
    PROVE  /\ broker' \in Brokers
           /\ \A s \in Symbols :
                /\ broker'.pending[s] = IF s = fill.symbol THEN <<>> ELSE broker.pending[s]
                /\ broker'.positions[s].qty =
                     IF s = fill.symbol THEN broker.positions[s].qty + Signed(fill)
                     ELSE broker.positions[s].qty
<1>1. /\ broker' \in Brokers
      /\ \A s \in Symbols :
           /\ broker'.positions[s].qty =
                IF s = fill.symbol THEN broker.positions[s].qty + Signed(fill)
                ELSE broker.positions[s].qty
           /\ broker'.pending[s] = IF s = fill.symbol THEN Tail(broker.pending[s])
                                   ELSE broker.pending[s]
  BY FillAtOpenType
<1>2. Tail(broker.pending[fill.symbol]) = <<>>
  OBVIOUS
<1> QED
  BY <1>1, <1>2

LEMMA FillOrderStep == IInv /\ FillOrder => IInv'
<1> SUFFICES ASSUME IInv, FillOrder PROVE IInv'
  OBVIOUS
<1>1. /\ Typed /\ QueuesMatch /\ OrdersAreOld
      /\ BooksAgree /\ NeverShort /\ OrdersAreWholeTrades
      /\ UNCHANGED <<day, todo, bar>>
  BY DEF IInv, FillOrder
<1>2. PICK fill \in FillRecords :
        /\ bar \in Bars /\ fill.symbol = bar.symbol
        /\ broker' = FillAtOpen(broker, fill)
        /\ strategy' = OnFill(strategy, fill)
        /\ risk'.tracker = TrackFill(risk.tracker, fill)
        /\ broker.pending[fill.symbol] # <<>>
        /\ Tail(broker.pending[fill.symbol]) = <<>>
        /\ fill.side = "buy" => broker.positions[fill.symbol].qty + Signed(fill) = fill.qty
        /\ fill.side = "sell" => broker.positions[fill.symbol].qty + Signed(fill) = 0
  BY FillShape
<1> DEFINE sym == fill.symbol
<1>3. /\ broker' \in Brokers
      /\ \A s \in Symbols :
           /\ broker'.pending[s] = IF s = sym THEN <<>> ELSE broker.pending[s]
           /\ broker'.positions[s].qty = IF s = sym THEN broker.positions[s].qty + Signed(fill)
                                         ELSE broker.positions[s].qty
  BY <1>1, <1>2, FillEffect DEF Typed
<1>4. Typed'
  BY <1>1, <1>2, <1>3, OnFillType, TrackFillType DEF Typed
<1>5. QueuesMatch' /\ OrdersAreOld'
  BY <1>1, <1>3 DEF QueuesMatch, OrdersAreOld
<1>6. BooksAgree'
  <2>1. \A s \in Symbols :
          /\ strategy'.positions[s] = IF s = sym THEN strategy.positions[s] + Signed(fill)
                                      ELSE strategy.positions[s]
          /\ risk'.tracker.positions[s].qty =
                IF s = sym THEN risk.tracker.positions[s].qty + Signed(fill)
                ELSE risk.tracker.positions[s].qty
    BY <1>1, <1>2, OnFillType, TrackFillType DEF Typed
  <2> QED
    BY <1>1, <1>3, <2>1 DEF BooksAgree
<1>7. NeverShort'
  <2>1. broker.positions[sym].qty + Signed(fill) >= 0
    BY <1>2 DEF FillRecords, Sides
  <2> QED
    BY <1>1, <1>3, <2>1 DEF NeverShort
<1>8. OrdersAreWholeTrades'
  BY <1>1, <1>3 DEF OrdersAreWholeTrades
<1> QED
  BY <1>4, <1>5, <1>6, <1>7, <1>8 DEF IInv

\* The intent that an order was approved for, as far as OrdersAdmissible has it.
RequestOf(order, row) ==
    [symbol |-> order.symbol, side |-> order.side, qty |-> order.qty, price |-> row.close]

\* momentum_lightgbm.py:99-124 behind manager.py:75-97: what a row adds to an empty
\* queue is nothing, or one order of this timestamp for a whole trade.
LEMMA SubmittedShape ==
    ASSUME IInv, bar # None, broker.pending[bar.symbol] = <<>>,
           NEW reading \in Readings, strategy' = OnBar(strategy, bar, day, reading)
    PROVE  \/ Submitted(reading) = broker
           \/ \E order \in Orders :
                /\ Submitted(reading) = SubmitOrder(broker, order)
                /\ order.symbol = bar.symbol
                /\ order.day = day /\ TradeStart <= day
                /\ \/ order.side = "buy" /\ broker.positions[bar.symbol].qty = 0
                   \/ /\ order.side = "sell"
                      /\ broker.positions[bar.symbol].qty > 0
                      /\ order.qty = broker.positions[bar.symbol].qty
                /\ Admissible(risk, RequestOf(order, bar), order.qty)
<1> DEFINE sym     == bar.symbol
           held    == broker.positions[sym].qty
           intent  == IntentOf(strategy', bar, reading)
           verdict == Validate(risk, intent)
           order   == [symbol |-> intent.symbol, side |-> intent.side,
                       qty |-> verdict.qty, day |-> day]
<1>1. Typed /\ BooksAgree /\ NeverShort
  BY DEF IInv
<1>2. bar \in Bars /\ sym \in Symbols /\ bar.close \in Nat \ {0}
  BY <1>1, BarType DEF Typed
<1>3. /\ strategy' \in StrategyObjects /\ strategy'.positions[sym] = held
      /\ risk.tracker \in Trackers /\ PositionQty(risk.tracker, sym) = held
      /\ held \in Int /\ held >= 0
  BY <1>1, <1>2, OnBarType, ZenonT(40) DEF Typed, BooksAgree, NeverShort, PositionQty, Brokers
<1>5. CASE InLeadIn \/ intent = None \/ ~verdict.approved
  BY <1>5 DEF Submitted, Reject
<1>6. CASE ~InLeadIn /\ intent # None /\ verdict.approved
  <2>1. Submitted(reading) = SubmitOrder(broker, order)
    BY <1>6 DEF Submitted
  <2>2. TradeStart <= day /\ day \in Nat
    BY <1>1, <1>6, BarsAssumption DEF InLeadIn, Typed
  <2>3. PICK strength \in Int :
           \/ intent = EntryIntent(bar, strength) /\ held = 0
           \/ intent = ExitIntent(bar, held, strength) /\ held > 0
    BY <1>2, <1>3, <1>6, IntentShape
  <2>9. ASSUME intent.symbol = sym, intent.side \in Sides, intent.qty \in Nat,
               intent.strength \in Int, intent.price = bar.close
        PROVE  verdict.qty \in Nat /\ Admissible(risk, RequestOf(order, bar), verdict.qty)
    <3>1. verdict.qty \in Nat /\ Admissible(risk, intent, verdict.qty)
      BY <1>2, <1>3, <1>6, <2>9, ApprovedIsAdmissible
    <3>2. /\ RequestOf(order, bar).symbol = intent.symbol
          /\ RequestOf(order, bar).side = intent.side
          /\ RequestOf(order, bar).price = intent.price
      BY <2>9 DEF RequestOf
    <3> QED
      BY <3>1, <3>2, AdmissibleIntents
  <2> HIDE DEF intent, held
  <2>4. CASE intent = EntryIntent(bar, strength) /\ held = 0
    <3>1. /\ intent.symbol = sym /\ intent.side = "buy" /\ intent.price = bar.close
          /\ intent.strength = strength /\ intent.qty = 1
      BY <2>4 DEF EntryIntent
    <3>2. verdict.qty \in Nat /\ Admissible(risk, RequestOf(order, bar), verdict.qty)
      BY <2>9, <3>1 DEF Sides
    <3>3. /\ order \in Orders /\ order.symbol = sym /\ order.side = "buy" /\ order.day = day
          /\ order.qty = verdict.qty
      BY <1>2, <2>2, <3>1, <3>2 DEF Orders, Sides
    <3> HIDE DEF order, verdict
    <3> QED
      BY <2>1, <2>2, <2>4, <3>2, <3>3 DEF held
  <2>5. CASE intent = ExitIntent(bar, held, strength) /\ held > 0
    <3>1. /\ intent.symbol = sym /\ intent.side = "sell" /\ intent.qty = held
          /\ intent.price = bar.close /\ intent.strength = strength
      BY <2>5 DEF ExitIntent
    <3>2. verdict.qty = held
      BY <1>3, <1>6, <2>5, <3>1, ExitSize
    <3>3. /\ order \in Orders /\ order.symbol = sym /\ order.side = "sell"
          /\ order.qty = held /\ order.day = day
      BY <1>2, <1>3, <2>2, <2>5, <3>1, <3>2 DEF Orders, Sides
    <3>4. held \in Nat
      BY <1>3, <2>5
    <3>5. Admissible(risk, RequestOf(order, bar), order.qty)
      BY <2>9, <3>1, <3>2, <3>3, <3>4 DEF Sides
    <3> HIDE DEF order, verdict
    <3> QED
      BY <2>1, <2>2, <2>5, <3>3, <3>5 DEF held
  <2> QED
    BY <2>3, <2>4, <2>5
<1> QED
  BY <1>5, <1>6

\* What the end of a row does to the broker: at most one order, admissible on the
\* books of the row, and no position.
LEMMA CloseShape ==
    ASSUME IInv, NEW reading \in Readings, CloseBar(reading)
    PROVE  /\ broker' \in Brokers /\ broker'.positions = broker.positions
           /\ \/ broker'.pending = broker.pending
              \/ \E order \in Orders :
                   /\ order.symbol = bar.symbol /\ order.day = day /\ TradeStart <= day
                   /\ \/ order.side = "buy" /\ broker.positions[bar.symbol].qty = 0
                      \/ /\ order.side = "sell" /\ broker.positions[bar.symbol].qty > 0
                         /\ order.qty = broker.positions[bar.symbol].qty
                   /\ Admissible(risk, RequestOf(order, bar), order.qty)
                   /\ broker'.pending[bar.symbol] = <<order>>
                   /\ \A s \in Symbols \ {bar.symbol} : broker'.pending[s] = broker.pending[s]
<1> DEFINE sym == bar.symbol
<1>1. /\ bar # None /\ broker.pending[sym] = <<>> /\ strategy' = OnBar(strategy, bar, day, reading)
      /\ broker' = Mark(Submitted(reading), bar)
  BY DEF CloseBar
<1>2. bar \in Bars /\ sym \in Symbols /\ broker \in Brokers
  BY <1>1, BarType DEF IInv, Typed
<1>3. CASE Submitted(reading) = broker
  BY <1>1, <1>2, <1>3, MarkType
<1>4. ASSUME NEW order \in Orders, Submitted(reading) = SubmitOrder(broker, order),
             order.symbol = sym
      PROVE  /\ broker' \in Brokers /\ broker'.positions = broker.positions
             /\ broker'.pending[sym] = <<order>>
             /\ \A s \in Symbols \ {sym} : broker'.pending[s] = broker.pending[s]
  <2>1. /\ SubmitOrder(broker, order) \in Brokers
        /\ SubmitOrder(broker, order).positions = broker.positions
    BY <1>2, SubmitOrderType
  <2>2. \A s \in Symbols : SubmitOrder(broker, order).pending[s] =
                              IF s = sym THEN Append(broker.pending[s], order) ELSE broker.pending[s]
    BY <1>2, <1>4, SubmitOrderType
  <2>3. /\ broker' \in Brokers /\ broker'.positions = broker.positions
        /\ broker'.pending = SubmitOrder(broker, order).pending
    BY <1>1, <1>2, <1>4, <2>1, MarkType
  <2>4. Append(<<>>, order) = <<order>>
    OBVIOUS
  <2>5. SubmitOrder(broker, order).pending[sym] = Append(<<>>, order)
    BY <1>1, <1>2, <2>2, Zenon
  <2>6. broker'.pending[sym] = <<order>>
    BY <2>3, <2>4, <2>5, Zenon
  <2>7. \A s \in Symbols \ {sym} : broker'.pending[s] = broker.pending[s]
    BY <2>2, <2>3
  <2> QED
    BY <2>3, <2>6, <2>7
<1> QED
  BY <1>1, <1>3, <1>4, SubmittedShape

LEMMA CloseBarStep == ASSUME NEW reading \in Readings PROVE IInv /\ CloseBar(reading) => IInv'
<1> SUFFICES ASSUME IInv, CloseBar(reading) PROVE IInv'
  OBVIOUS
<1> DEFINE sym == bar.symbol
<1>1. /\ Typed /\ QueuesMatch /\ OrdersAreOld
      /\ BooksAgree /\ NeverShort /\ OrdersAreWholeTrades
  BY DEF IInv
<1>2. /\ bar # None /\ bar' = None /\ UNCHANGED <<day, todo, risk>>
      /\ strategy' = OnBar(strategy, bar, day, reading)
  BY DEF CloseBar
<1>3. broker' \in Brokers /\ broker'.positions = broker.positions
  BY CloseShape
<1>4. /\ bar \in Bars /\ sym \in Symbols
      /\ strategy' \in StrategyObjects /\ strategy'.positions = strategy.positions
  BY <1>1, <1>2, BarType, OnBarType DEF Typed
<1>5. Typed' /\ BooksAgree' /\ NeverShort'
  BY <1>1, <1>2, <1>3, <1>4 DEF Typed, BooksAgree, NeverShort
<1>6. CASE broker'.pending = broker.pending
  BY <1>1, <1>2, <1>3, <1>5, <1>6 DEF IInv, QueuesMatch, OrdersAreOld, OrdersAreWholeTrades
<1>7. ASSUME NEW order \in Orders,
             order.symbol = sym, order.day = day, TradeStart <= day,
             \/ order.side = "buy" /\ broker.positions[sym].qty = 0
             \/ /\ order.side = "sell" /\ broker.positions[sym].qty > 0
                /\ order.qty = broker.positions[sym].qty,
             broker'.pending[sym] = <<order>>,
             \A s \in Symbols \ {sym} : broker'.pending[s] = broker.pending[s]
      PROVE  IInv'
  <2>1. Len(<<order>>) = 1 /\ DOMAIN <<order>> = {1} /\ <<order>>[1] = order
    OBVIOUS
  <2>2. QueuesMatch'
    BY <1>1, <1>7, <2>1 DEF QueuesMatch
  <2>3. sym \notin todo /\ day \in Nat
    BY <1>1, <1>2 DEF OrdersAreOld, Typed
  <2>4. OrdersAreOld'
    <3>1. ASSUME NEW s \in Symbols, NEW i \in DOMAIN broker'.pending[s]
          PROVE  /\ TradeStart <= broker'.pending[s][i].day /\ broker'.pending[s][i].day <= day
                 /\ broker'.pending[s][i].day = day => s \notin todo
      <4>1. CASE s = sym
        BY <1>7, <2>1, <2>3, <3>1, <4>1
      <4>2. CASE s # sym
        BY <1>1, <1>7, <3>1, <4>2 DEF OrdersAreOld
      <4> QED
        BY <4>1, <4>2
    <3> QED
      BY <1>2, <3>1 DEF OrdersAreOld
  <2>5. OrdersAreWholeTrades'
    <3>1. ASSUME NEW s \in Symbols
          PROVE  /\ Len(broker'.pending[s]) <= 1
                 /\ \A i \in DOMAIN broker'.pending[s] :
                      LET o    == broker'.pending[s][i]
                          held == broker'.positions[s].qty
                      IN  \/ o.side = "buy" /\ held = 0
                          \/ o.side = "sell" /\ held > 0 /\ o.qty = held
      <4>1. CASE s = sym
        <5>1. broker'.pending[s] = <<order>> /\ broker'.positions[s].qty = broker.positions[sym].qty
          BY <1>3, <1>7, <4>1, Zenon
        <5>2. Len(broker'.pending[s]) <= 1
          BY <2>1, <5>1
        <5>3. \A i \in DOMAIN broker'.pending[s] : broker'.pending[s][i] = order
          BY <2>1, <5>1
        <5> QED
          BY <1>7, <5>1, <5>2, <5>3
      <4>2. CASE s # sym
        BY <1>1, <1>3, <1>7, <4>2 DEF OrdersAreWholeTrades
      <4> QED
        BY <4>1, <4>2
    <3> QED
      BY <3>1 DEF OrdersAreWholeTrades
  <2> QED
    BY <1>5, <2>2, <2>4, <2>5 DEF IInv
<1> QED
  BY <1>6, <1>7, CloseShape

LEMMA NextIInv == IInv /\ [Next]_vars => IInv'
<1> SUFFICES ASSUME IInv, [Next]_vars PROVE IInv'
  OBVIOUS
<1>1. CASE NewTimestamp
  BY <1>1, NewTimestampStep
<1>2. CASE \E next \in Bars : OpenBar(next)
  BY <1>2, OpenBarStep
<1>3. CASE FillOrder
  BY <1>3, FillOrderStep
<1>4. CASE \E reading \in Readings : CloseBar(reading)
  BY <1>4, CloseBarStep
<1>5. CASE Finish \/ UNCHANGED vars
  BY <1>5, StutterStep
<1> QED
  BY <1>1, <1>2, <1>3, <1>4, <1>5 DEF Next

----------------------------------------------------------------------------

\* engine.py:135-187: the invariant holds in every state of every backtest.
THEOREM IInvHolds == Spec => []IInv
<1> QED
  BY InitIInv, NextIInv, PTL DEF Spec

\* engine.py:86-95, exposure_tracker.py:30-46, momentum_lightgbm.py:72-74: the
\* strategy, the tracker and the broker never disagree on a position.
THEOREM BooksAlwaysAgree == Spec => []BooksAgree
<1>1. IInv => BooksAgree
  BY DEF IInv
<1> QED
  BY <1>1, IInvHolds, PTL

\* momentum_lightgbm.py:1: long-only, whatever the signals, prices and caps.
THEOREM NeverShortAlways == Spec => []NeverShort
<1>1. IInv => NeverShort
  BY DEF IInv
<1> QED
  BY <1>1, IInvHolds, PTL

\* engine.py:69: an order never meets another one of its symbol.
THEOREM WholeTradesAlways == Spec => []OrdersAreWholeTrades
<1>1. IInv => OrdersAreWholeTrades
  BY DEF IInv
<1> QED
  BY <1>1, IInvHolds, PTL

\* engine.py:4-5: no order fills on the timestamp it was decided at, and none
\* was decided in the lead-in.
THEOREM NoFillOnItsOwnBar == Spec => FillsAreLater
<1>1. ASSUME IInv, FillOrder
      PROVE  LET order == Head(broker.pending[bar.symbol])
             IN  order.day < day /\ order.day >= TradeStart
  <2> DEFINE order == Head(broker.pending[bar.symbol])
  <2>1. Typed /\ OrdersAreOld /\ OrdersAreWholeTrades /\ bar # None
    BY <1>1 DEF IInv, FillOrder
  <2>2. bar \in Bars /\ bar.symbol \in Symbols /\ broker \in Brokers /\ day \in Nat
    BY <2>1, BarType DEF Typed
  <2>3. /\ order = broker.pending[bar.symbol][1] /\ order \in Orders
        /\ 1 \in DOMAIN broker.pending[bar.symbol]
    BY <1>1, <2>1, <2>2, SingletonQueue DEF FillOrder, OrdersAreWholeTrades
  <2>4. TradeStart <= order.day /\ order.day <= day /\ order.day # day
    BY <2>1, <2>2, <2>3 DEF OrdersAreOld
  <2>5. order.day \in Nat /\ TradeStart \in Nat
    BY <2>3, BarsAssumption DEF Orders
  <2> HIDE DEF order
  <2>6. order.day < day /\ order.day >= TradeStart
    BY <2>2, <2>4, <2>5
  <2> QED
    BY <2>6 DEF order
<1> QED
  BY <1>1, IInvHolds, PTL DEF FillsAreLater, Spec

----------------------------------------------------------------------------
\* The reversion strategies: the age of a holding and the ranking behind a target.

\* mean_reversion.py:77-91, xsec_reversion.py:73-89: what taking a bar in does to
\* the ages, whatever the class.
LEMMA OnBarAges ==
    ASSUME NEW st \in StrategyObjects, NEW row \in Bars, NEW reading \in Readings,
           NEW timestamp \in Nat
    PROVE  LET next == OnBar(st, row, timestamp, reading)
           IN  /\ next.class = st.class
               /\ \A s \in Symbols :
                    \/ next.barsHeld[s] = st.barsHeld[s]
                    \/ /\ next.barsHeld[s] = st.barsHeld[s] + 1
                       /\ s = row.symbol /\ st.positions[s] > 0 /\ Warm(next, s)
<1>1. st.class \in {"momentum", "mean_reversion", "xsec_reversion"}
  BY ClassesAssumption DEF StrategyObjects
<1>2. ASSUME NEW x \in StrategyObjects
      PROVE  LET next == BufferBar(x, row)
             IN  next \in StrategyObjects /\ next.class = x.class
                 /\ next.positions = x.positions /\ next.barsHeld = x.barsHeld
  <2>1. PICK kept \in [Symbols -> 0..WarmupBars] :
          BufferBar(x, row) = [x EXCEPT !.buffered = kept]
    BY BufferBarType
  <2> QED
    BY <2>1, BufferBarType DEF StrategyObjects
<1>3. ASSUME NEW x \in StrategyObjects
      PROVE  LET next == AgeHolding(x, row)
             IN  /\ next \in StrategyObjects
                 /\ next.class = x.class /\ next.buffered = x.buffered
                 /\ \A s \in Symbols :
                      \/ next.barsHeld[s] = x.barsHeld[s]
                      \/ /\ next.barsHeld[s] = x.barsHeld[s] + 1
                         /\ s = row.symbol /\ x.positions[s] > 0 /\ Warm(next, s)
  <2>1. PICK ages \in [Symbols -> Nat] : AgeHolding(x, row) = [x EXCEPT !.barsHeld = ages]
    BY AgeHoldingType
  <2>2. AgeHolding(x, row).class = x.class /\ AgeHolding(x, row).buffered = x.buffered
    BY <2>1 DEF StrategyObjects
  <2>3. \A s \in Symbols : Warm(x, s) = Warm(AgeHolding(x, row), s)
    BY <2>2 DEF Warm
  <2> QED
    BY <2>2, <2>3, AgeHoldingType
<1>4. ASSUME NEW x \in StrategyObjects
      PROVE  LET next == Recorded(x, row, timestamp, reading)
             IN  next \in StrategyObjects /\ next.class = x.class /\ next.buffered = x.buffered
                 /\ next.barsHeld = x.barsHeld
  BY <1>4, RecordedType
<1>5. CASE st.class = "momentum"
  BY <1>2, <1>5 DEF OnBar
<1>6. CASE st.class = "mean_reversion"
  <2>1. OnBar(st, row, timestamp, reading) = AgeHolding(BufferBar(st, row), row)
    BY <1>6 DEF OnBar
  <2> QED
    BY <1>2, <1>3, <2>1
<1>7. CASE st.class = "xsec_reversion" /\ row.symbol \notin Universe
  BY <1>7 DEF OnBar, XsecOnBar
<1>8. CASE st.class = "xsec_reversion" /\ row.symbol \in Universe
  <2> DEFINE rolled == RollDay(st, timestamp)
             aged   == AgeHolding(BufferBar(rolled, row), row)
             next   == Recorded(aged, row, timestamp, reading)
  <2>1. OnBar(st, row, timestamp, reading) = next
    BY <1>8 DEF OnBar, XsecOnBar
  <2>2. /\ rolled \in StrategyObjects /\ rolled.class = st.class
        /\ rolled.positions = st.positions /\ rolled.barsHeld = st.barsHeld
    BY RollDayType
  <2>3. /\ BufferBar(rolled, row) \in StrategyObjects
        /\ BufferBar(rolled, row).class = st.class
        /\ BufferBar(rolled, row).positions = st.positions
        /\ BufferBar(rolled, row).barsHeld = st.barsHeld
    BY <1>2, <2>2
  <2>4. /\ aged \in StrategyObjects /\ aged.class = st.class
        /\ \A s \in Symbols :
              \/ aged.barsHeld[s] = st.barsHeld[s]
              \/ /\ aged.barsHeld[s] = st.barsHeld[s] + 1
                 /\ s = row.symbol /\ st.positions[s] > 0 /\ Warm(aged, s)
    BY <1>3, <2>3
  <2> HIDE DEF aged
  <2>5. next.class = aged.class /\ next.buffered = aged.buffered /\ next.barsHeld = aged.barsHeld
    BY <1>4, <2>4
  <2>6. \A s \in Symbols : Warm(next, s) = Warm(aged, s)
    BY <2>5 DEF Warm
  <2> QED
    BY <2>1, <2>4, <2>5, <2>6
<1> QED
  BY <1>1, <1>5, <1>6, <1>7, <1>8

\* circuit_breaker.py:44-73: nothing a backtest calls ends a halt.
HasHalt(b) == "halted" \in DOMAIN b

LEMMA CallsKeepHalts ==
    ASSUME NEW b, HasHalt(b), NEW equity, NEW pnl
    PROVE  /\ HasHalt(StartOfDay(b, equity)) /\ (b.halted => StartOfDay(b, equity).halted)
           /\ HasHalt(OnEquityUpdate(b, equity))
           /\ b.halted => OnEquityUpdate(b, equity).halted
           /\ HasHalt(OnTradeClosed(b, pnl)) /\ (b.halted => OnTradeClosed(b, pnl).halted)
<1> DEFINE Keeps(x) == HasHalt(x) /\ (b.halted => x.halted)
<1>3. Keeps(b)
  OBVIOUS
<1>4. ASSUME NEW x, NEW reason, Keeps(x) PROVE Keeps(Trip(x, reason))
  BY <1>4 DEF Trip, HasHalt
<1>5. Keeps(SettleDay(b))
  BY <1>3, <1>4 DEF SettleDay, HasHalt
<1>6. Keeps(StartOfDay(b, equity))
  BY <1>5 DEF StartOfDay, HasHalt
<1>7. Keeps(OnEquityUpdate(b, equity))
  BY <1>3, <1>4 DEF OnEquityUpdate, HasHalt
<1>8. Keeps(OnTradeClosed(b, pnl))
  BY <1>3 DEF OnTradeClosed, HasHalt
<1> QED
  BY <1>6, <1>7, <1>8

\* Nothing is held before the evaluation span, and the time stop binds.
HeldInSpan == \A s \in Symbols : broker.positions[s].qty # 0 => TradeStart <= day

TimeInv == HasHalt(risk.breaker) /\ HeldInSpan /\ TimeStopBinds

LEMMA InitTimeInv == Init => TimeInv
<1> SUFFICES ASSUME Init PROVE TimeInv
  OBVIOUS
<1>1. HasHalt(risk.breaker)
  BY DEF Init, NewBreaker, HasHalt
<1>2. HeldInSpan
  BY DEF Init, HeldInSpan, NewBroker
<1>3. TimeStopBinds
  BY ReversionAssumption DEF Init, NewObject, TimeStopBinds
<1> QED
  BY <1>1, <1>2, <1>3 DEF TimeInv

LEMMA BreakerStep ==
    ASSUME [Next]_vars, HasHalt(risk.breaker)
    PROVE  HasHalt(risk'.breaker) /\ (~risk'.breaker.halted => ~risk.breaker.halted)
<1>1. CASE NewTimestamp
  BY <1>1, CallsKeepHalts DEF NewTimestamp, RiskOnNewDay
<1>2. CASE FillOrder
  <2>1. PICK b, equity, pnl : risk'.breaker = OnEquityUpdate(b, equity)
                             /\ (b = risk.breaker \/ b = OnTradeClosed(risk.breaker, pnl))
    BY <1>2 DEF FillOrder, RiskOnFill
  <2> QED
    BY <2>1, CallsKeepHalts
<1>3. CASE UNCHANGED risk
  BY <1>3
<1> QED
  BY <1>1, <1>2, <1>3 DEF Next, vars, books, OpenBar, CloseBar, Finish

\* A step that leaves orders, positions and strategy alone.
LEMMA KeepsTimeInv ==
    ASSUME IInv, TimeInv, [Next]_vars, UNCHANGED <<broker, strategy>>,
           day' = day \/ day' = day + 1
    PROVE  TimeInv'
<1>1. HasHalt(risk'.breaker) /\ (~risk'.breaker.halted => ~risk.breaker.halted)
  BY BreakerStep DEF TimeInv
<1>2. HeldInSpan'
  <2>1. day \in Nat /\ TradeStart \in Nat
    BY BarsAssumption DEF IInv, Typed
  <2>2. \A s \in Symbols : broker.positions[s].qty # 0 => TradeStart <= day
    BY DEF TimeInv, HeldInSpan
  <2> QED
    BY <2>1, <2>2 DEF HeldInSpan
<1>3. TimeStopBinds'
  BY <1>1 DEF TimeInv, TimeStopBinds
<1> QED
  BY <1>1, <1>2, <1>3 DEF TimeInv

\* A fill leaves an age of zero behind, whether it opens a holding or ends one.
LEMMA FillTimeInv == ASSUME IInv, TimeInv, FillOrder PROVE TimeInv'
<1>1. /\ Typed /\ BooksAgree /\ NeverShort /\ OrdersAreWholeTrades /\ OrdersAreOld
      /\ UNCHANGED <<day, todo, bar>>
  BY DEF IInv, FillOrder
<1>2. HasHalt(risk'.breaker) /\ (~risk'.breaker.halted => ~risk.breaker.halted)
  BY BreakerStep DEF TimeInv, Next
<1>3. PICK fill \in FillRecords :
        /\ bar \in Bars /\ fill.symbol = bar.symbol
        /\ fill.side = broker.pending[fill.symbol][1].side
        /\ broker' = FillAtOpen(broker, fill)
        /\ strategy' = OnFill(strategy, fill)
        /\ broker.pending[fill.symbol] # <<>>
        /\ Tail(broker.pending[fill.symbol]) = <<>>
        /\ fill.side = "sell" => broker.positions[fill.symbol].qty + Signed(fill) = 0
  BY FillShape
<1> DEFINE sym == fill.symbol
<1>4. sym \in Symbols /\ fill.side \in {"buy", "sell"}
  BY DEF FillRecords, Sides
<1>5. \A s \in Symbols :
        /\ broker'.pending[s] = IF s = sym THEN <<>> ELSE broker.pending[s]
        /\ broker'.positions[s].qty = IF s = sym THEN broker.positions[s].qty + Signed(fill)
                                      ELSE broker.positions[s].qty
  BY <1>1, <1>3, FillEffect DEF Typed
<1>6. /\ strategy'.class = strategy.class
      /\ \A s \in Symbols :
           /\ strategy'.positions[s] = IF s = sym THEN strategy.positions[s] + Signed(fill)
                                       ELSE strategy.positions[s]
           /\ strategy'.barsHeld[s] =
                IF /\ strategy.class # "momentum" /\ s = sym
                   /\ strategy.positions[s] + Signed(fill) <= 0
                THEN 0 ELSE strategy.barsHeld[s]
  BY <1>1, <1>3, OnFillType DEF Typed
<1>7. /\ 1 \in DOMAIN broker.pending[sym] /\ broker.pending[sym][1] \in Orders
      /\ TradeStart <= broker.pending[sym][1].day /\ broker.pending[sym][1].day <= day
  BY <1>1, <1>3, <1>4, SingletonQueue DEF Typed, OrdersAreWholeTrades, OrdersAreOld
<1>8. HeldInSpan'
  <2>1. TradeStart <= day
    BY <1>1, <1>7, BarsAssumption DEF Orders, Typed
  <2> QED
    BY <1>1, <2>1 DEF HeldInSpan
<1>9. strategy.class # "momentum" => strategy'.barsHeld[sym] = 0
  <2>1. CASE fill.side = "buy"
    <3>1. broker.positions[sym].qty = 0 /\ strategy.positions[sym] = 0
      BY <1>1, <1>3, <1>4, <1>7, <2>1 DEF OrdersAreWholeTrades, BooksAgree
    <3>2. strategy.class # "momentum" => strategy.barsHeld[sym] = 0
      BY <1>4, <3>1 DEF TimeInv, TimeStopBinds
    <3> QED
      BY <1>4, <1>6, <3>2
  <2>2. CASE fill.side = "sell"
    <3>1. strategy.positions[sym] + Signed(fill) = 0
      BY <1>1, <1>3, <1>4, <2>2 DEF BooksAgree
    <3> QED
      BY <1>4, <1>6, <3>1
  <2> QED
    BY <1>4, <2>1, <2>2
<1>10. TimeStopBinds'
  <2> SUFFICES ASSUME strategy.class # "momentum", NEW s \in Symbols
               PROVE  /\ strategy'.positions[s] = 0 => strategy'.barsHeld[s] = 0
                      /\ strategy.class = "xsec_reversion" /\ ~risk'.breaker.halted =>
                           /\ strategy'.barsHeld[s] <= MaxHold
                           /\ strategy'.barsHeld[s] = MaxHold => broker'.pending[s] # <<>>
    BY <1>6 DEF TimeStopBinds
  <2>1. CASE s = sym
    BY <1>9, <2>1, ReversionAssumption
  <2>2. CASE s # sym
    <3>1. /\ strategy'.positions[s] = strategy.positions[s]
          /\ strategy'.barsHeld[s] = strategy.barsHeld[s]
          /\ broker'.pending[s] = broker.pending[s]
      BY <1>5, <1>6, <2>2
    <3> QED
      BY <1>2, <3>1 DEF TimeInv, TimeStopBinds
  <2> QED
    BY <2>1, <2>2
<1> QED
  BY <1>2, <1>8, <1>10 DEF TimeInv

\* xsec_reversion.py:160-171 behind manager.py:75-81: a holding as old as the time
\* stop is asked to be sold, and the gate lets the exit through.
LEMMA ExpiredIsSold ==
    ASSUME IInv, TimeInv, NEW reading \in Readings, CloseBar(reading),
           strategy.class = "xsec_reversion", ~risk.breaker.halted,
           strategy.positions[bar.symbol] > 0, Warm(strategy', bar.symbol),
           strategy'.barsHeld[bar.symbol] = MaxHold
    PROVE  broker'.pending[bar.symbol] # <<>>
<1> DEFINE sym    == bar.symbol
           held   == strategy.positions[sym]
           intent == IntentOf(strategy', bar, reading)
<1>1. /\ bar \in Bars /\ sym \in Symbols /\ broker \in Brokers /\ day \in Nat
      /\ strategy \in StrategyObjects /\ strategy' = OnBar(strategy, bar, day, reading)
      /\ broker' = Mark(Submitted(reading), bar) /\ broker.pending[sym] = <<>>
  BY BarType DEF IInv, Typed, CloseBar
<1>2. /\ strategy'.class = "xsec_reversion" /\ strategy'.positions[sym] = held
      /\ held \in Int /\ held > 0
  <2>1. strategy'.class = "xsec_reversion"
    BY <1>1, OnBarAges
  <2>2. strategy'.positions[sym] = held
    BY <1>1, OnBarType
  <2>3. held \in Int
    BY <1>1 DEF StrategyObjects
  <2> QED
    BY <2>1, <2>2, <2>3
<1>3. TimedOut(strategy', sym)
  BY ReversionAssumption DEF TimedOut
<1>4. PICK strength \in -100..100 : intent = ExitIntent(bar, held, strength)
  <2>1. reading.signal \in -100..100 /\ 0 \in -100..100
    BY ReadingType
  <2>2. \/ intent = ExitIntent(bar, held, reading.signal)
        \/ intent = ExitIntent(bar, held, 0)
    BY <1>2, <1>3 DEF IntentOf, XsecIntent
  <2> QED
    BY <2>1, <2>2
<1>5. ~InLeadIn
  <2>1. broker.positions[sym].qty # 0
    BY <1>1, <1>2 DEF IInv, BooksAgree
  <2> QED
    BY <1>1, <2>1, BarsAssumption DEF TimeInv, HeldInSpan, InLeadIn
<1>6. PositionQty(risk.tracker, sym) = held
  BY <1>1 DEF IInv, BooksAgree, PositionQty
<1> HIDE DEF held, intent
<1>7. intent.side = "sell" /\ intent.symbol = sym /\ intent.qty = held
  BY <1>4 DEF ExitIntent
<1>8. intent # None
  <2>1. ExitIntent(bar, held, strength) \in Intents
    <3>1. held \in Nat /\ bar.close \in Nat \ {0}
      BY <1>1, <1>2, BarType
    <3> QED
      BY <1>1, <3>1 DEF ExitIntent, Intents, Sides
  <2> QED
    BY <1>4, <2>1, IntentAssumption
<1>9. IsReducing(risk.tracker, intent)
  BY <1>2, <1>6, <1>7, AbsType DEF IsReducing
<1>10. Validate(risk, intent).approved
  BY <1>9 DEF Validate, Approve
<1> DEFINE order == [symbol |-> sym, side |-> "sell", qty |-> Validate(risk, intent).qty,
                     day |-> day]
<1>11. Submitted(reading) = SubmitOrder(broker, order)
  BY <1>5, <1>7, <1>8, <1>10 DEF Submitted, intent
<1>12. Submitted(reading).pending[sym] = Append(<<>>, order)
  <2>1. order.symbol = sym
    OBVIOUS
  <2> HIDE DEF order
  <2>2. SubmitOrder(broker, order).pending =
          [broker.pending EXCEPT ![sym] = Append(broker.pending[sym], order)]
    BY <1>1, <2>1 DEF SubmitOrder, Brokers
  <2>3. broker.pending \in [Symbols -> Seq(Orders)]
    BY <1>1 DEF Brokers
  <2>4. SubmitOrder(broker, order).pending[sym] = Append(broker.pending[sym], order)
    BY <1>1, <2>2, <2>3
  <2> QED
    BY <1>1, <1>11, <2>4
<1>13. broker'.pending[sym] = Append(<<>>, order)
  BY <1>1, <1>11, <1>12 DEF Mark, SubmitOrder, Brokers
<1> QED
  BY <1>13

LEMMA CloseTimeInv ==
    ASSUME IInv, TimeInv, NEW reading \in Readings, CloseBar(reading) PROVE TimeInv'
<1> DEFINE sym == bar.symbol
<1>1. /\ Typed /\ BooksAgree
      /\ bar \in Bars /\ sym \in Symbols /\ strategy \in StrategyObjects /\ day \in Nat
      /\ strategy' = OnBar(strategy, bar, day, reading) /\ broker.pending[sym] = <<>>
      /\ UNCHANGED <<day, risk>>
  BY BarType DEF IInv, Typed, CloseBar
<1>2. /\ broker'.positions = broker.positions
      /\ \A s \in Symbols \ {sym} : broker'.pending[s] = broker.pending[s]
  BY CloseShape
<1>3. /\ strategy'.class = strategy.class /\ strategy'.positions = strategy.positions
      /\ \A s \in Symbols :
           \/ strategy'.barsHeld[s] = strategy.barsHeld[s]
           \/ /\ strategy'.barsHeld[s] = strategy.barsHeld[s] + 1
              /\ s = sym /\ strategy.positions[s] > 0 /\ Warm(strategy', s)
  BY <1>1, OnBarAges, OnBarType
<1>4. HeldInSpan'
  BY <1>1, <1>2 DEF TimeInv, HeldInSpan
<1>5. TimeStopBinds'
  <2> SUFFICES ASSUME strategy.class # "momentum", NEW s \in Symbols
               PROVE  /\ strategy'.positions[s] = 0 => strategy'.barsHeld[s] = 0
                      /\ strategy.class = "xsec_reversion" /\ ~risk.breaker.halted =>
                           /\ strategy'.barsHeld[s] <= MaxHold
                           /\ strategy'.barsHeld[s] = MaxHold => broker'.pending[s] # <<>>
    BY <1>1, <1>3 DEF TimeStopBinds
  <2>1. /\ strategy.positions[s] = 0 => strategy.barsHeld[s] = 0
        /\ strategy.class = "xsec_reversion" /\ ~risk.breaker.halted =>
             /\ strategy.barsHeld[s] <= MaxHold
             /\ strategy.barsHeld[s] = MaxHold => broker.pending[s] # <<>>
    BY DEF TimeInv, TimeStopBinds
  <2>2. strategy'.positions[s] = 0 => strategy'.barsHeld[s] = 0
    BY <1>3, <2>1
  <2>3. CASE s # sym
    BY <1>2, <1>3, <2>1, <2>3
  <2>4. CASE s = sym /\ strategy.class = "xsec_reversion" /\ ~risk.breaker.halted
    <3>1. strategy.barsHeld[sym] \in Nat /\ strategy.barsHeld[sym] < MaxHold
      BY <1>1, <2>1, <2>4, ReversionAssumption DEF StrategyObjects
    <3>2. strategy'.barsHeld[sym] <= MaxHold
      BY <1>1, <1>3, <3>1, ReversionAssumption
    <3>3. ASSUME strategy'.barsHeld[sym] = MaxHold PROVE broker'.pending[sym] # <<>>
      <4>1. strategy.positions[sym] > 0 /\ Warm(strategy', sym)
        BY <1>1, <1>3, <3>1, <3>3
      <4> QED
        BY <2>4, <3>3, <4>1, ExpiredIsSold
    <3> QED
      BY <2>2, <2>4, <3>2, <3>3
  <2> QED
    BY <2>2, <2>3, <2>4
<1> QED
  BY <1>1, <1>4, <1>5 DEF TimeInv

LEMMA NextTimeInv == IInv /\ TimeInv /\ [Next]_vars => TimeInv'
<1> SUFFICES ASSUME IInv, TimeInv, [Next]_vars PROVE TimeInv'
  OBVIOUS
<1>1. day \in Nat
  BY DEF IInv, Typed
<1>2. CASE NewTimestamp \/ (\E next \in Bars : OpenBar(next)) \/ Finish \/ UNCHANGED vars
  <2>1. UNCHANGED <<broker, strategy>> /\ (day' = day \/ day' = day + 1)
    BY <1>2 DEF NewTimestamp, OpenBar, Finish, vars, books
  <2> QED
    BY <1>1, <2>1, KeepsTimeInv
<1>3. CASE FillOrder
  BY <1>3, FillTimeInv
<1>4. CASE \E reading \in Readings : CloseBar(reading)
  BY <1>4, CloseTimeInv
<1> QED
  BY <1>2, <1>3, <1>4 DEF Next

\* mean_reversion.py:7-9, xsec_reversion.py:160: while trading is enabled no holding
\* of the cross-sectional strategy outlives the time stop, in any backtest.
THEOREM TimeStopAlwaysBinds == Spec => []TimeStopBinds
<1>1. TimeInv => TimeStopBinds
  BY DEF TimeInv
<1> QED
  BY <1>1, IInvHolds, InitTimeInv, NextTimeInv, PTL DEF Spec

\* What taking a bar in does to the ranking: the target is kept or chosen from the
\* signals of an earlier day, and the signals are of the day.
LEMMA OnBarRanks ==
    ASSUME NEW st \in StrategyObjects, NEW row \in Bars, NEW reading \in Readings,
           NEW timestamp \in Nat, timestamp > 0, st.day <= timestamp,
           \A i \in DOMAIN st.signals : st.signals[i].day = st.day /\ st.day > 0
    PROVE  LET next == OnBar(st, row, timestamp, reading)
           IN  /\ next.day <= timestamp
               /\ \A i \in DOMAIN next.signals : next.signals[i].day = next.day /\ next.day > 0
               /\ \/ next.target = st.target
                  \/ \A chosen \in next.target : chosen.day = st.day /\ st.day < timestamp
<1> DEFINE Ordered(x) ==
             /\ x.day <= timestamp
             /\ \A i \in DOMAIN x.signals : x.signals[i].day = x.day /\ x.day > 0
<1>1. /\ st.class \in {"momentum", "mean_reversion", "xsec_reversion"}
      /\ st.day \in Nat /\ st.signals \in Seq(Ranked) /\ Ordered(st)
  BY ClassesAssumption DEF StrategyObjects
<1>2. ASSUME NEW x \in StrategyObjects
      PROVE  LET next == BufferBar(x, row)
             IN  next \in StrategyObjects /\ next.day = x.day
                 /\ next.signals = x.signals /\ next.target = x.target
  <2>1. PICK kept \in [Symbols -> 0..WarmupBars] :
          BufferBar(x, row) = [x EXCEPT !.buffered = kept]
    BY BufferBarType
  <2> QED
    BY <2>1, BufferBarType DEF StrategyObjects
<1>3. ASSUME NEW x \in StrategyObjects
      PROVE  LET next == AgeHolding(x, row)
             IN  next \in StrategyObjects /\ next.day = x.day
                 /\ next.signals = x.signals /\ next.target = x.target
  <2>1. PICK ages \in [Symbols -> Nat] : AgeHolding(x, row) = [x EXCEPT !.barsHeld = ages]
    BY AgeHoldingType
  <2> QED
    BY <2>1, AgeHoldingType DEF StrategyObjects
<1>4. CASE st.class = "momentum"
  BY <1>1, <1>2, <1>4 DEF OnBar
<1>5. CASE st.class = "mean_reversion"
  <2>1. OnBar(st, row, timestamp, reading) = AgeHolding(BufferBar(st, row), row)
    BY <1>5 DEF OnBar
  <2> QED
    BY <1>1, <1>2, <1>3, <2>1
<1>6. CASE st.class = "xsec_reversion" /\ row.symbol \notin Universe
  BY <1>1, <1>6 DEF OnBar, XsecOnBar
<1>7. CASE st.class = "xsec_reversion" /\ row.symbol \in Universe
  <2> DEFINE rolled == RollDay(st, timestamp)
             aged   == AgeHolding(BufferBar(rolled, row), row)
  <2>1. OnBar(st, row, timestamp, reading) = Recorded(aged, row, timestamp, reading)
    BY <1>7 DEF OnBar, XsecOnBar
  <2>2. /\ rolled \in StrategyObjects /\ rolled.day = timestamp /\ Ordered(rolled)
        /\ \/ rolled.target = st.target
           \/ /\ rolled.target \subseteq BestOf(st.signals)
              /\ st.day < timestamp
    <3>1. rolled \in StrategyObjects
      BY RollDayType
    <3>2. CASE timestamp <= st.day
      BY <1>1, <3>1, <3>2 DEF RollDay
    <3>3. CASE ~(timestamp <= st.day) /\ st.day = 0
      <4>1. rolled = [st EXCEPT !.day = timestamp] /\ DOMAIN st.signals = {}
        BY <1>1, <3>3 DEF RollDay
      <4>2. rolled.day = timestamp /\ rolled.signals = st.signals /\ rolled.target = st.target
        BY <4>1 DEF StrategyObjects
      <4> QED
        BY <3>1, <4>1, <4>2
    <3>4. CASE ~(timestamp <= st.day) /\ st.day # 0
      <4> DEFINE target == IF RebalancesOn(st.dayCount + 1) THEN BestOf(st.signals)
                           ELSE st.target
      <4>1. rolled = [st EXCEPT !.day = timestamp, !.dayCount = st.dayCount + 1,
                                !.signals = <<>>, !.target = target]
        BY <3>4 DEF RollDay
      <4> HIDE DEF target
      <4>2. rolled.day = timestamp /\ rolled.signals = <<>> /\ rolled.target = target
        BY <4>1 DEF StrategyObjects
      <4>3. st.day < timestamp /\ (target = BestOf(st.signals) \/ target = st.target)
        BY <1>1, <3>4 DEF target
      <4> QED
        BY <3>1, <4>2, <4>3
    <3> QED
      BY <3>2, <3>3, <3>4
  <2>3. \A chosen \in BestOf(st.signals) : chosen.day = st.day
    BY <1>1 DEF BestOf
  <2> HIDE DEF rolled
  <2>4. /\ aged \in StrategyObjects /\ aged.day = timestamp
        /\ aged.signals = rolled.signals /\ aged.target = rolled.target
    BY <1>2, <1>3, <2>2
  <2> HIDE DEF aged
  <2> DEFINE next == Recorded(aged, row, timestamp, reading)
  <2>5. /\ next.day = timestamp /\ next.target = rolled.target
        /\ \A i \in DOMAIN next.signals :
             \/ next.signals[i].day = timestamp
             \/ \E j \in DOMAIN rolled.signals : next.signals[i] = rolled.signals[j]
    BY <2>4, RecordedType
  <2> HIDE DEF next
  <2>6. \A i \in DOMAIN next.signals : next.signals[i].day = timestamp
    BY <2>2, <2>5
  <2>7. next = OnBar(st, row, timestamp, reading)
    BY <2>1 DEF next
  <2> QED
    BY <2>2, <2>3, <2>5, <2>6, <2>7
<1> QED
  BY <1>1, <1>4, <1>5, <1>6, <1>7

\* Rows have timestamps, and a day's signals are of that day.
RankInv ==
    /\ bar # None \/ todo # {} => day > 0
    /\ strategy.day <= day
    /\ \A i \in DOMAIN strategy.signals :
          strategy.signals[i].day = strategy.day /\ strategy.day > 0
    /\ TargetIsPast

LEMMA NextRankInv == IInv /\ RankInv /\ [Next]_vars => RankInv'
<1> SUFFICES ASSUME IInv, RankInv, [Next]_vars PROVE RankInv'
  OBVIOUS
<1>1. /\ day \in Nat /\ strategy \in StrategyObjects /\ strategy.day \in Nat
      /\ \A chosen \in strategy.target : chosen.day \in Nat
  BY DEF IInv, Typed, StrategyObjects, Ranked
<1>2. CASE NewTimestamp
  <2>1. UNCHANGED strategy /\ day' = day + 1
    BY <1>2 DEF NewTimestamp
  <2> QED
    BY <1>1, <2>1 DEF RankInv, TargetIsPast
<1>3. CASE \E next \in Bars : OpenBar(next)
  <2>1. UNCHANGED <<strategy, day>> /\ todo # {}
    BY <1>3 DEF OpenBar, books
  <2> QED
    BY <1>1, <2>1 DEF RankInv, TargetIsPast
<1>4. CASE FillOrder
  <2>1. UNCHANGED <<day, todo, bar>>
    BY <1>4 DEF FillOrder
  <2>2. PICK fill \in FillRecords : strategy' = OnFill(strategy, fill)
    BY <1>4, FillShape
  <2>3. /\ strategy'.target = strategy.target /\ strategy'.signals = strategy.signals
        /\ strategy'.day = strategy.day
    BY <1>1, <2>2, OnFillType
  <2> QED
    BY <1>1, <2>1, <2>3 DEF RankInv, TargetIsPast
<1>5. ASSUME NEW reading \in Readings, CloseBar(reading) PROVE RankInv'
  <2>1. /\ bar # None /\ bar \in Bars /\ bar' = None /\ UNCHANGED <<day, todo>>
        /\ strategy' = OnBar(strategy, bar, day, reading)
    BY <1>5 DEF CloseBar, IInv, Typed
  <2>2. day > 0
    BY <2>1 DEF RankInv
  <2>3. /\ strategy'.day <= day
        /\ \A i \in DOMAIN strategy'.signals :
              strategy'.signals[i].day = strategy'.day /\ strategy'.day > 0
        /\ \/ strategy'.target = strategy.target
           \/ \A chosen \in strategy'.target : chosen.day = strategy.day /\ strategy.day < day
    BY <1>1, <2>1, <2>2, OnBarRanks DEF RankInv
  <2>4. TargetIsPast'
    BY <1>1, <2>1, <2>3 DEF RankInv, TargetIsPast
  <2> QED
    BY <2>1, <2>2, <2>3, <2>4 DEF RankInv
<1>6. CASE Finish \/ UNCHANGED vars
  BY <1>6 DEF Finish, vars, books, RankInv, TargetIsPast
<1> QED
  BY <1>2, <1>3, <1>4, <1>5, <1>6 DEF Next

\* xsec_reversion.py:8-11: in every backtest, what is held is decided by one
\* cross-section of an earlier timestamp.
THEOREM TargetAlwaysPast == Spec => []TargetIsPast
<1>1. Init => RankInv
  BY DEF Init, NewObject, RankInv, TargetIsPast
<1>2. RankInv => TargetIsPast
  BY DEF RankInv
<1> QED
  BY <1>1, <1>2, IInvHolds, NextRankInv, PTL DEF Spec

----------------------------------------------------------------------------

\* manager.py:1-5: no order reaches the simulated broker that the gate did not find
\* admissible on the books of that moment, in any backtest.
THEOREM OrdersAlwaysAdmissible == Spec => OrdersAdmissible
<1> DEFINE Entered(s) == Len(broker'.pending[s]) > Len(broker.pending[s])
           Approved(s) ==
               LET order == broker'.pending[s][Len(broker'.pending[s])]
               IN  Admissible(risk, [symbol |-> s, side |-> order.side, qty |-> order.qty,
                                     price |-> bar.close], order.qty)
<1>1. ASSUME IInv, [Next]_vars, NEW s \in Symbols, Entered(s) PROVE Approved(s)
  <2>1. broker \in Brokers /\ Len(broker.pending[s]) \in Nat
    <3>1. broker \in Brokers
      BY <1>1 DEF IInv, Typed
    <3> QED
      BY <3>1, PendingType, LenProperties
  <2>2. broker'.pending[s] # broker.pending[s]
    BY <1>1, <2>1
  <2>3. CASE FillOrder
    <3>1. PICK fill \in FillRecords :
            /\ broker' = FillAtOpen(broker, fill)
            /\ broker.pending[fill.symbol] # <<>>
            /\ Tail(broker.pending[fill.symbol]) = <<>>
      BY <1>1, <2>3, FillShape
    <3>2. broker'.pending[s] = <<>>
      BY <2>1, <2>2, <3>1, FillEffect
    <3> QED
      BY <1>1, <2>1, <3>2
  <2>4. ASSUME NEW reading \in Readings, CloseBar(reading) PROVE Approved(s)
    <3>1. PICK order \in Orders :
            /\ order.symbol = bar.symbol
            /\ Admissible(risk, RequestOf(order, bar), order.qty)
            /\ broker'.pending[bar.symbol] = <<order>>
            /\ \A x \in Symbols \ {bar.symbol} : broker'.pending[x] = broker.pending[x]
      BY <1>1, <2>2, <2>4, CloseShape
    <3>2. s = bar.symbol
      BY <2>2, <3>1
    <3>3. Len(<<order>>) = 1 /\ <<order>>[1] = order
      OBVIOUS
    <3>4. broker'.pending[s][Len(broker'.pending[s])] = order
      BY <3>1, <3>2, <3>3, Zenon
    <3> DEFINE request == [symbol |-> s, side |-> order.side, qty |-> order.qty,
                           price |-> bar.close]
    <3>5. Admissible(risk, request, order.qty)
      BY <3>1, <3>2 DEF RequestOf
    <3> QED
      BY <3>4, <3>5, Zenon
  <2> QED
    BY <1>1, <2>2, <2>3, <2>4 DEF Next, NewTimestamp, OpenBar, Finish, books, vars
<1>2. IInv /\ [Next]_vars => \A s \in Symbols : Entered(s) => Approved(s)
  BY <1>1
<1> QED
  BY <1>2, IInvHolds, PTL DEF OrdersAdmissible, Spec

----------------------------------------------------------------------------
\* The money.

CostOf(positions) == [s \in Symbols |-> positions[s].qty * positions[s].avgPrice]

Basis(positions) == SumFunctionOnSet(CostOf(positions), Symbols)

\* A realized result of nothing is not reported (engine.py:102-105), and the results
\* are made when nothing can follow.
MoneyInv ==
    /\ pnls \in Seq(Int \ {0})
    /\ broker.cash + broker.commission + Basis(risk.tracker.positions) = risk.tracker.equity
    /\ risk.tracker.equity = InitialCapital + SumFunction(pnls)
    /\ results # None => bar = None /\ todo = {} /\ day = Days /\ results = Results

LEMMA CostType ==
    ASSUME NEW tracker \in Trackers
    PROVE  /\ \A s \in Symbols : CostOf(tracker.positions)[s] \in Int
           /\ Basis(tracker.positions) \in Int
<1>1. \A s \in Symbols : CostOf(tracker.positions)[s] \in Int
  <2> SUFFICES ASSUME NEW s \in Symbols PROVE CostOf(tracker.positions)[s] \in Int
    OBVIOUS
  <2>1. tracker.positions[s].qty \in Int /\ tracker.positions[s].avgPrice \in Int
    BY DEF Trackers, Positions
  <2>2. tracker.positions[s].qty * tracker.positions[s].avgPrice \in Int
    BY <2>1
  <2> QED
    BY <2>2 DEF CostOf
<1> QED
  BY <1>1, SymbolsAssumption, SumType DEF Basis

LEMMA InitMoneyInv == Init => MoneyInv
<1> SUFFICES ASSUME Init PROVE MoneyInv
  OBVIOUS
<1>1. /\ \A s \in Symbols : PositionsReport(NewBroker)[s].qty = 0
      /\ broker.cash = InitialCapital /\ broker.commission = 0
      /\ pnls = <<>> /\ results = None
  BY DEF PositionsReport, NewBroker, Init
<1>2. risk.tracker = [positions |-> [s \in Symbols |-> Flat], equity |-> InitialCapital]
  BY <1>1 DEF Init, SyncFromApi, NewBroker
<1>3. Basis(risk.tracker.positions) = 0
  <2>1. \A s \in Symbols : CostOf(risk.tracker.positions)[s] = 0
    BY <1>2 DEF CostOf, Flat
  <2> QED
    BY <2>1, SymbolsAssumption, SumOfZeros DEF Basis
<1>4. SumFunction(pnls) = 0
  <2>1. DOMAIN pnls = {}
    BY <1>1
  <2>2. SumFunctionOnSet(pnls, DOMAIN pnls) = 0
    BY <2>1, SumEmpty, Zenon
  <2> QED
    BY <2>2 DEF SumFunction
<1>5. pnls \in Seq(Int \ {0}) /\ InitialCapital \in Int
  BY <1>1, CostAssumption
<1> QED
  BY <1>1, <1>2, <1>3, <1>4, <1>5 DEF MoneyInv

\* The reported results add up term by term.
LEMMA SumReported ==
    ASSUME NEW seq \in Seq(Int), NEW p \in Int
    PROVE  /\ SumFunction(seq) \in Int
           /\ SumFunction(Append(seq, p)) = SumFunction(seq) + p
<1> DEFINE n == Len(seq)
           longer == Append(seq, p)
<1>1. /\ n \in Nat /\ DOMAIN seq = 1..n /\ DOMAIN longer = 1..n+1
      /\ longer[n+1] = p /\ \A i \in 1..n : longer[i] = seq[i] /\ seq[i] \in Int
  BY LenProperties, AppendProperties
<1>2. \A i \in 1..n+1 : longer[i] \in Int
  BY <1>1
<1>3. IsFiniteSet(1..n)
  BY <1>1, FS_Interval
<1> HIDE DEF longer, n
<1>4. SumFunctionOnSet(longer, 1..n+1) = SumFunctionOnSet(longer, 1..n) + longer[n+1]
  BY <1>1, <1>2, SumLast
<1>5. SumFunctionOnSet(longer, 1..n) = SumFunctionOnSet(seq, 1..n)
  BY <1>1, <1>3, SumCongruent
<1>6. SumFunctionOnSet(seq, 1..n) \in Int
  BY <1>1, <1>3, SumType
<1>7. SumFunctionOnSet(longer, DOMAIN longer) = SumFunctionOnSet(seq, DOMAIN seq) + p
  BY <1>1, <1>4, <1>5, Zenon
<1>8. SumFunctionOnSet(seq, DOMAIN seq) \in Int
  BY <1>1, <1>6, Zenon
<1> QED
  BY <1>7, <1>8 DEF SumFunction, longer

\* engine.py:200-231: gross win less gross loss is the sum of what was reported, and
\* every report is a win or a loss.
LEMMA TalliesAddUp ==
    ASSUME pnls \in Seq(Int \ {0})
    PROVE  /\ Results.nTrades = Results.nWins + Results.nLosses
           /\ SumFunction(pnls) = Results.grossWin - Results.grossLoss
           /\ Results.grossWin \in Int /\ Results.grossLoss \in Int
<1> DEFINE all    == DOMAIN pnls
           wins   == {i \in DOMAIN pnls : pnls[i] > 0}
           losses == {i \in DOMAIN pnls : pnls[i] < 0}
<1>1. /\ Len(pnls) \in Nat /\ all = 1..Len(pnls)
      /\ \A i \in all : pnls[i] \in Int /\ pnls[i] # 0
  BY LenProperties
<1>2. IsFiniteSet(all) /\ Cardinality(all) = Len(pnls)
  <2>1. /\ IsFiniteSet(1..Len(pnls))
        /\ Cardinality(1..Len(pnls)) = IF 1 > Len(pnls) THEN 0 ELSE Len(pnls) - 1 + 1
    BY <1>1, FS_Interval
  <2>2. Cardinality(1..Len(pnls)) = Len(pnls)
    BY <1>1, <2>1
  <2> QED
    BY <1>1, <2>1, <2>2, Zenon
<1>3. all \cap wins = wins /\ all \ wins = losses /\ wins \in SUBSET all /\ losses \in SUBSET all
  BY <1>1
<1>4. IsFiniteSet(wins) /\ IsFiniteSet(losses)
  BY <1>2, <1>3, FS_Subset
<1> HIDE DEF all, wins, losses
<1>5. Cardinality(all) = Cardinality(wins) + Cardinality(losses)
  <2>1. Cardinality(all) = Cardinality(all \ wins) + Cardinality(wins)
    <3>1. Cardinality(all \ wins) = Cardinality(all) - Cardinality(all \cap wins)
      BY <1>2, FS_Difference
    <3>2. Cardinality(all \ wins) = Cardinality(all) - Cardinality(wins)
      BY <1>3, <3>1, Zenon
    <3> QED
      BY <1>2, <1>4, <3>2, <1>3, FS_CardinalityType
  <2>2. Cardinality(all) = Cardinality(losses) + Cardinality(wins)
    BY <1>3, <2>1, Zenon
  <2> QED
    BY <1>4, <2>2, FS_CardinalityType
<1>6. SumFunctionOnSet(pnls, all) =
          SumFunctionOnSet(pnls, wins) + SumFunctionOnSet(pnls, losses)
  <2>1. all = wins \union losses /\ wins \cap losses = {}
    BY <1>1 DEF wins, losses, all
  <2>2. IsFiniteSet(all)
    BY <1>2
  <2>3. \A i \in all : pnls[i] \in Int
    BY <1>1
  <2> QED
    BY <1>4, <2>1, <2>2, <2>3, SumType, SumSplit
<1>7. /\ SumFunctionOnSet(pnls, wins) \in Int /\ SumFunctionOnSet(pnls, losses) \in Int
      /\ SumFunctionOnSet(pnls, losses) <= 0
  <2>1. \A i \in losses : pnls[i] \in {n \in Int : n <= 0}
    BY <1>1, <1>3 DEF losses
  <2>2. \A i \in wins : pnls[i] \in Int
    BY <1>1, <1>3
  <2> QED
    BY <1>4, <2>1, <2>2, SumType, SumOfLosses
<1>8. /\ Results.nTrades = Len(pnls) /\ Results.nWins = Cardinality(wins)
      /\ Results.nLosses = Cardinality(losses)
      /\ Results.grossWin = SumFunctionOnSet(pnls, wins)
      /\ Results.grossLoss = Abs(SumFunctionOnSet(pnls, losses))
  BY DEF Results, wins, losses
<1>9. Abs(SumFunctionOnSet(pnls, losses)) = -SumFunctionOnSet(pnls, losses)
  BY <1>7 DEF Abs
<1>10. SumFunction(pnls) = Results.grossWin - Results.grossLoss
  BY <1>6, <1>7, <1>8, <1>9 DEF SumFunction, all
<1>11. Results.grossWin \in Int /\ Results.grossLoss \in Int
  BY <1>7, <1>8, <1>9
<1>12. Results.nTrades = Results.nWins + Results.nLosses
  BY <1>2, <1>5, <1>8
<1> QED
  BY <1>10, <1>11, <1>12

\* An order of a whole trade averages nothing: it opens a position or closes it.
LEMMA WholeTradesAreExact ==
    ASSUME NEW pos \in Positions, NEW fill \in FillRecords,
           fill.side = "buy" => pos.qty + Signed(fill) = fill.qty,
           fill.side = "sell" => pos.qty + Signed(fill) = 0
    PROVE  ExactAverage(pos, fill)
<1> DEFINE newQty == pos.qty + Signed(fill)
<1>1. /\ pos.qty \in Int /\ pos.avgPrice \in Int /\ fill.qty \in Nat /\ fill.price \in Int
      /\ fill.side \in {"buy", "sell"} /\ Signed(fill) \in Int
      /\ fill.side = "buy" => Signed(fill) = fill.qty
  BY SignedType DEF Positions, FillRecords, Sides
<1>2. CASE newQty = 0
  BY <1>2 DEF ExactAverage
<1>3. CASE newQty # 0
  <2>1. pos.qty = 0 /\ newQty = fill.qty /\ fill.qty \in Nat \ {0}
    BY <1>1, <1>3
  <2>2. Abs(pos.qty) = 0 /\ Abs(newQty) = fill.qty
    BY <1>1, <2>1, AbsType
  <2>3. 0 * pos.avgPrice = 0 /\ fill.qty * fill.price \in Int
    BY <1>1
  <2>4. EntryPrice(pos, fill) = (0 + fill.qty * fill.price) \div fill.qty
        \/ ~Increases(pos, fill)
    BY <1>3, <2>2, <2>3 DEF EntryPrice
  <2>5. (0 + fill.qty * fill.price) \div fill.qty = fill.price
    <3>1. \A q \in Nat \ {0}, p \in Int : (q * p) \div q = p
      OBVIOUS
    <3>2. 0 + fill.qty * fill.price = fill.qty * fill.price
      BY <2>3
    <3> QED
      BY <1>1, <2>1, <3>1, <3>2
  <2>6. Increases(pos, fill) => EntryPrice(pos, fill) = fill.price
    BY <2>4, <2>5
  <2>7. Abs(pos.qty) * pos.avgPrice + fill.qty * fill.price = fill.qty * fill.price
    BY <2>2, <2>3
  <2> QED
    BY <2>2, <2>6, <2>7 DEF ExactAverage
<1> QED
  BY <1>2, <1>3

\* What a fill takes from the broker's cash, it adds to the cost of the position or
\* gives back as realized.
LEMMA FillMoney == IInv /\ MoneyInv /\ FillOrder => MoneyInv'
<1> SUFFICES ASSUME IInv, MoneyInv, FillOrder PROVE MoneyInv'
  OBVIOUS
<1>1. PICK fill \in FillRecords :
        /\ bar \in Bars /\ fill.symbol = bar.symbol
        /\ broker' = FillAtOpen(broker, fill)
        /\ risk'.tracker = TrackFill(risk.tracker, fill)
        /\ pnls' = (IF Realized(risk.tracker.positions[fill.symbol], fill) = 0 THEN pnls
                    ELSE Append(pnls, Realized(risk.tracker.positions[fill.symbol], fill)))
        /\ fill.side = "buy" => broker.positions[fill.symbol].qty + Signed(fill) = fill.qty
        /\ fill.side = "sell" => broker.positions[fill.symbol].qty + Signed(fill) = 0
  BY FillShape
<1> DEFINE sym      == fill.symbol
           old      == risk.tracker.positions
           new      == risk'.tracker.positions
           pos      == old[sym]
           next     == FilledPosition(pos, fill)
           realized == Realized(pos, fill)
           paid     == Signed(fill) * fill.price
           fee      == fill.qty * CommissionPerShare
<1>2. /\ risk.tracker \in Trackers /\ broker \in Brokers /\ sym \in Symbols
      /\ old \in [Symbols -> Positions] /\ pos \in Positions
      /\ risk.tracker.equity \in Int /\ broker.cash \in Int /\ broker.commission \in Int
      /\ pos.qty = broker.positions[sym].qty
  BY DEF IInv, Typed, Trackers, Brokers, FillRecords, BooksAgree
<1>3. /\ risk'.tracker \in Trackers
      /\ new = [old EXCEPT ![sym] = next]
      /\ risk'.tracker.equity = risk.tracker.equity + realized
      /\ broker'.cash = broker.cash - paid - fee
      /\ broker'.commission = broker.commission + fee
  <2>1. risk'.tracker \in Trackers
    BY <1>1, <1>2, TrackFillType
  <2>2. risk'.tracker = [positions |-> [old EXCEPT ![sym] = next],
                         equity |-> risk.tracker.equity + realized]
    BY <1>1 DEF TrackFill
  <2>3. /\ broker'.cash = broker.cash - paid - fee
        /\ broker'.commission = broker.commission + fee
    BY <1>1, <1>2 DEF FillAtOpen, Brokers
  <2> QED
    BY <2>1, <2>2, <2>3
<1>4. /\ realized \in Int /\ paid \in Int /\ fee \in Int
      /\ realized + pos.qty * pos.avgPrice = next.qty * next.avgPrice - paid
  <2>1. realized \in Int
    BY <1>2, RealizedType DEF Positions
  <2>2. paid \in Int /\ fee \in Int
    BY SignedType, CostAssumption DEF FillRecords
  <2>3. ExactAverage(pos, fill)
    BY <1>1, <1>2, WholeTradesAreExact
  <2> QED
    BY <1>2, <2>1, <2>2, <2>3, FillIsALedgerEntry
<1> HIDE DEF realized, paid, fee, next
<1>5. Basis(new) = Basis(old) + next.qty * next.avgPrice - pos.qty * pos.avgPrice
      /\ Basis(old) \in Int
  <2>1. \A s \in Symbols : CostOf(old)[s] \in Int /\ CostOf(new)[s] \in Int
    BY <1>2, <1>3, CostType
  <2>2. /\ CostOf(new)[sym] = next.qty * next.avgPrice
        /\ CostOf(old)[sym] = pos.qty * pos.avgPrice
        /\ \A s \in Symbols \ {sym} : CostOf(new)[s] = CostOf(old)[s]
    BY <1>2, <1>3 DEF CostOf
  <2>3. SumFunctionOnSet(CostOf(new), Symbols) =
          SumFunctionOnSet(CostOf(old), Symbols) + CostOf(new)[sym] - CostOf(old)[sym]
    BY <1>2, <2>1, <2>2, SymbolsAssumption, SumChange
  <2>4. Basis(old) \in Int
    BY <1>2, CostType
  <2> QED
    BY <2>2, <2>3, <2>4 DEF Basis
<1>6. broker'.cash + broker'.commission + Basis(new) = risk'.tracker.equity
  <2>1. broker.cash + broker.commission + Basis(old) = risk.tracker.equity
    BY DEF MoneyInv
  <2>2. next.qty * next.avgPrice \in Int /\ pos.qty * pos.avgPrice \in Int
    <3>1. next \in Positions
      BY <1>2, FilledPositionType DEF next
    <3> QED
      BY <1>2, <3>1 DEF Positions
  <2> DEFINE before == pos.qty * pos.avgPrice
             after  == next.qty * next.avgPrice
  <2>3. before \in Int /\ after \in Int /\ realized + before = after - paid
        /\ Basis(new) = Basis(old) + after - before
    BY <1>4, <1>5, <2>2
  <2> HIDE DEF before, after, pos, old, new
  <2> QED
    BY <1>2, <1>3, <1>4, <1>5, <2>1, <2>3
<1>7. /\ pnls' \in Seq(Int \ {0})
      /\ risk'.tracker.equity = InitialCapital + SumFunction(pnls')
  <2>1. /\ pnls \in Seq(Int \ {0}) /\ pnls \in Seq(Int) /\ InitialCapital \in Int
        /\ risk.tracker.equity = InitialCapital + SumFunction(pnls)
    <3>1. \A seq \in Seq(Int \ {0}) : seq \in Seq(Int)
      OBVIOUS
    <3> QED
      BY <3>1, CostAssumption DEF MoneyInv
  <2>2. CASE realized = 0
    <3>1. pnls' = pnls
      BY <1>1, <2>2 DEF realized
    <3> QED
      BY <1>2, <1>3, <2>1, <2>2, <3>1
  <2>3. CASE realized # 0
    <3>1. pnls' = Append(pnls, realized)
      BY <1>1, <2>3 DEF realized
    <3>2. SumFunction(pnls) \in Int /\ SumFunction(pnls') = SumFunction(pnls) + realized
      BY <1>4, <2>1, <3>1, SumReported
    <3>3. pnls' \in Seq(Int \ {0})
      BY <1>4, <2>1, <2>3, <3>1
    <3> QED
      BY <1>3, <1>4, <2>1, <3>2, <3>3
  <2> QED
    BY <2>2, <2>3
<1>8. results' = None
  <2>1. bar # None /\ UNCHANGED results
    BY DEF FillOrder
  <2> QED
    BY <2>1 DEF MoneyInv
<1> QED
  BY <1>6, <1>7, <1>8 DEF MoneyInv

LEMMA NextMoneyInv == IInv /\ MoneyInv /\ [Next]_vars => MoneyInv'
<1> SUFFICES ASSUME IInv, MoneyInv, [Next]_vars PROVE MoneyInv'
  OBVIOUS
<1>1. ASSUME UNCHANGED <<pnls, results>>, risk'.tracker = risk.tracker,
             broker'.cash = broker.cash, broker'.commission = broker.commission,
             results # None => UNCHANGED <<bar, todo, day>>
      PROVE  MoneyInv'
  BY <1>1 DEF MoneyInv, Results
<1>2. CASE NewTimestamp
  <2>1. /\ UNCHANGED <<pnls, results, broker>> /\ risk'.tracker = risk.tracker
        /\ day < Days /\ day \in Nat
    BY <1>2 DEF NewTimestamp, RiskOnNewDay, IInv, Typed
  <2>2. results = None
    BY <2>1, BarsAssumption DEF MoneyInv
  <2> QED
    BY <1>1, <2>1, <2>2
<1>3. CASE \E next \in Bars : OpenBar(next)
  <2>1. UNCHANGED <<pnls, results, broker, risk>> /\ todo # {}
    BY <1>3 DEF OpenBar, books
  <2>2. results = None
    BY <2>1 DEF MoneyInv
  <2> QED
    BY <1>1, <2>1, <2>2
<1>4. CASE FillOrder
  BY <1>4, FillMoney
<1>5. ASSUME NEW reading \in Readings, CloseBar(reading) PROVE MoneyInv'
  <2>1. /\ UNCHANGED <<pnls, results, risk>> /\ bar # None
        /\ broker' = Mark(Submitted(reading), bar)
        /\ broker.pending[bar.symbol] = <<>> /\ strategy' = OnBar(strategy, bar, day, reading)
    BY <1>5 DEF CloseBar
  <2>2. results = None /\ broker \in Brokers
    BY <2>1 DEF MoneyInv, IInv, Typed
  <2>3. /\ Submitted(reading).cash = broker.cash
        /\ Submitted(reading).commission = broker.commission
        /\ Submitted(reading) \in Brokers
    <3>1. CASE Submitted(reading) = broker
      BY <2>2, <3>1
    <3>2. ASSUME NEW order \in Orders, Submitted(reading) = SubmitOrder(broker, order)
          PROVE  <2>3!1 /\ <2>3!2 /\ <2>3!3
      <4>1. Submitted(reading) \in Brokers
        BY <2>2, <3>2, SubmitOrderType
      <4> QED
        BY <2>2, <3>2, <4>1 DEF SubmitOrder, Brokers
    <3> QED
      BY <2>1, <3>1, <3>2, SubmittedShape
  <2>4. broker'.cash = broker.cash /\ broker'.commission = broker.commission
    BY <2>1, <2>3 DEF Mark, Brokers
  <2> QED
    BY <1>1, <2>1, <2>2, <2>4
<1>6. CASE Finish
  <2>1. /\ bar = None /\ todo = {} /\ day = Days /\ results' = Results
        /\ UNCHANGED <<day, todo, bar, broker, risk, pnls>>
    BY <1>6 DEF Finish, books
  <2>2. Results' = Results
    BY <2>1 DEF Results
  <2> QED
    BY <2>1, <2>2 DEF MoneyInv
<1>7. CASE UNCHANGED vars
  BY <1>1, <1>7 DEF vars, books
<1> QED
  BY <1>2, <1>3, <1>4, <1>5, <1>6, <1>7 DEF Next

\* engine.py:90, manager.py:102-105: in every backtest, the tracker's equity accounts
\* for every tick of the broker's cash, and the reported results add up to it.
THEOREM MoneyAlwaysAccounted == Spec => []MoneyAccounted
<1>1. IInv /\ MoneyInv => MoneyAccounted
  <2> SUFFICES ASSUME IInv, MoneyInv PROVE MoneyAccounted
    OBVIOUS
  <2>1. /\ Results.nTrades = Results.nWins + Results.nLosses
        /\ SumFunction(pnls) = Results.grossWin - Results.grossLoss
        /\ Results.grossWin \in Int /\ Results.grossLoss \in Int
    BY TalliesAddUp DEF MoneyInv
  <2>2. SumFunction(pnls) \in Int /\ InitialCapital \in Int
    <3>1. \A seq \in Seq(Int \ {0}) : seq \in Seq(Int)
      OBVIOUS
    <3> QED
      BY <3>1, SumReported, CostAssumption DEF MoneyInv
  <2> QED
    BY <2>1, <2>2 DEF MoneyInv, MoneyAccounted, Basis, CostOf
<1> QED
  BY <1>1, IInvHolds, InitMoneyInv, NextMoneyInv, PTL DEF Spec

----------------------------------------------------------------------------
\* Every step of a backtest is a step of TradeLifecycle or none at all.

StageShape ==
    \A s \in Symbols :
        Stage(s) = IF broker.pending[s] = <<>>
                   THEN IF broker.positions[s].qty = 0 THEN "flat" ELSE "long"
                   ELSE IF broker.pending[s][1].side = "buy" THEN "entering" ELSE "leaving"

LEMMA StageValue == IInv => StageShape
<1> SUFFICES ASSUME IInv, NEW s \in Symbols
             PROVE  Stage(s) = IF broker.pending[s] = <<>>
                               THEN IF broker.positions[s].qty = 0 THEN "flat" ELSE "long"
                               ELSE IF broker.pending[s][1].side = "buy" THEN "entering"
                                    ELSE "leaving"
  BY DEF StageShape
<1>1. broker \in Brokers /\ broker.positions[s].qty >= 0 /\ Len(broker.pending[s]) <= 1
  BY DEF IInv, Typed, NeverShort, OrdersAreWholeTrades
<1>2. broker.positions[s].qty \in Int
  BY <1>1 DEF Brokers
<1>3. CASE broker.pending[s] = <<>>
  BY <1>1, <1>2, <1>3 DEF Stage
<1>4. CASE broker.pending[s] # <<>>
  <2>1. 1 \in DOMAIN broker.pending[s]
    BY <1>1, <1>4, SingletonQueue
  <2>2. ~(Len(broker.pending[s]) > 1)
    <3>1. Len(broker.pending[s]) \in Nat
      BY <1>1, PendingType, LenProperties
    <3> QED
      BY <1>1, <3>1
  <2>3. LET order == broker.pending[s][1]
            held  == broker.positions[s].qty
        IN  \/ order.side = "buy" /\ held = 0
            \/ order.side = "sell" /\ held > 0 /\ order.qty = held
    BY <2>1 DEF IInv, OrdersAreWholeTrades
  <2> QED
    BY <1>4, <2>2, <2>3 DEF Stage
<1> QED
  BY <1>3, <1>4

LEMMA LifecycleInit == Init => Lifecycle!Init
<1> SUFFICES ASSUME Init PROVE \A s \in Symbols : Stage(s) = "flat"
  BY DEF Lifecycle!Init
<1>1. \A s \in Symbols : broker.pending[s] = <<>> /\ broker.positions[s].qty = 0
  BY DEF Init, NewBroker
<1> QED
  BY <1>1 DEF Stage

\* A step that moves one symbol along an edge of the lifecycle.
LEMMA LifecycleEdge ==
    ASSUME NEW sym \in Symbols,
           \A s \in Symbols \ {sym} : Stage(s)' = Stage(s),
           \/ Stage(sym) = "flat" /\ Stage(sym)' = "entering"
           \/ Stage(sym) = "entering" /\ Stage(sym)' \in {"long", "flat"}
           \/ Stage(sym) = "long" /\ Stage(sym)' = "leaving"
           \/ Stage(sym) = "leaving" /\ Stage(sym)' = "flat"
    PROVE  Lifecycle!Next
<1> DEFINE stage == [s \in Symbols |-> Stage(s)]
<1>1. stage' = [stage EXCEPT ![sym] = Stage(sym)']
  OBVIOUS
<1>2. stage[sym] = Stage(sym)
  OBVIOUS
<1> HIDE DEF stage
<1>3. \/ stage[sym] = "flat" /\ stage' = [stage EXCEPT ![sym] = "entering"]
      \/ /\ stage[sym] = "entering"
         /\ \E next \in {"long", "flat"} : stage' = [stage EXCEPT ![sym] = next]
      \/ stage[sym] = "long" /\ stage' = [stage EXCEPT ![sym] = "leaving"]
      \/ stage[sym] = "leaving" /\ stage' = [stage EXCEPT ![sym] = "flat"]
  BY <1>1, <1>2
<1>4. \/ Lifecycle!Enter(sym) \/ Lifecycle!EntryFilled(sym)
      \/ Lifecycle!Leave(sym) \/ Lifecycle!ExitFilled(sym)
  BY <1>3 DEF Lifecycle!Enter, Lifecycle!EntryFilled, Lifecycle!Leave, Lifecycle!ExitFilled, stage
<1> QED
  BY <1>4 DEF Lifecycle!Next

LEMMA LifecycleStep ==
    IInv /\ [Next]_vars /\ StageShape /\ StageShape' =>
        Lifecycle!Next \/ [s \in Symbols |-> Stage(s)]' = [s \in Symbols |-> Stage(s)]
<1> SUFFICES ASSUME IInv, [Next]_vars, StageShape, StageShape'
             PROVE  \/ Lifecycle!Next
                    \/ [s \in Symbols |-> Stage(s)]' = [s \in Symbols |-> Stage(s)]
  OBVIOUS
<1> DEFINE Same(s) == Stage(s)' = Stage(s)
<1>1. ASSUME NEW s \in Symbols, broker'.pending[s] = broker.pending[s],
             broker'.positions[s].qty = broker.positions[s].qty
      PROVE  Same(s)
  BY <1>1 DEF Stage
<1>2. CASE UNCHANGED broker
  BY <1>1, <1>2
<1>3. CASE FillOrder
  <2>1. broker \in Brokers
    BY DEF IInv, Typed
  <2>2. PICK fill \in FillRecords :
          /\ bar \in Bars /\ fill.symbol = bar.symbol
          /\ fill.side = broker.pending[fill.symbol][1].side
          /\ broker' = FillAtOpen(broker, fill)
          /\ broker.pending[fill.symbol] # <<>>
          /\ Tail(broker.pending[fill.symbol]) = <<>>
          /\ fill.side = "sell" => broker.positions[fill.symbol].qty + Signed(fill) = 0
    BY <1>3, FillShape
  <2> DEFINE sym == fill.symbol
  <2>3. sym \in Symbols /\ fill.side \in {"buy", "sell"}
    BY DEF FillRecords, Sides
  <2>4. \A s \in Symbols :
          /\ broker'.pending[s] = IF s = sym THEN <<>> ELSE broker.pending[s]
          /\ broker'.positions[s].qty = IF s = sym THEN broker.positions[s].qty + Signed(fill)
                                        ELSE broker.positions[s].qty
    BY <2>1, <2>2, FillEffect
  <2>5. \A s \in Symbols \ {sym} : Same(s)
    BY <1>1, <2>4
  <2>6. Stage(sym)' = IF broker'.positions[sym].qty = 0 THEN "flat" ELSE "long"
    BY <2>3, <2>4 DEF StageShape
  <2>7. Stage(sym) = IF fill.side = "buy" THEN "entering" ELSE "leaving"
    BY <2>2, <2>3 DEF StageShape
  <2>8. fill.side = "sell" => broker'.positions[sym].qty = 0
    BY <2>2, <2>3, <2>4
  <2> HIDE DEF sym
  <2>9. \/ Stage(sym) = "entering" /\ Stage(sym)' \in {"long", "flat"}
        \/ Stage(sym) = "leaving" /\ Stage(sym)' = "flat"
    BY <2>3, <2>6, <2>7, <2>8
  <2> QED
    BY <2>3, <2>5, <2>9, LifecycleEdge
<1>4. ASSUME NEW reading \in Readings, CloseBar(reading)
      PROVE  \/ Lifecycle!Next
             \/ [s \in Symbols |-> Stage(s)]' = [s \in Symbols |-> Stage(s)]
  <2>1. PICK sym \in Symbols : sym = bar.symbol
    BY <1>4, BarType DEF IInv, Typed, CloseBar
  <2>2. broker'.positions = broker.positions /\ broker.pending[sym] = <<>>
    BY <1>4, <2>1, CloseShape DEF CloseBar
  <2>3. CASE broker'.pending = broker.pending
    BY <1>1, <2>2, <2>3
  <2>4. ASSUME NEW order \in Orders, broker'.pending[sym] = <<order>>,
               \A s \in Symbols \ {sym} : broker'.pending[s] = broker.pending[s],
               \/ order.side = "buy" /\ broker.positions[sym].qty = 0
               \/ order.side = "sell" /\ broker.positions[sym].qty > 0
        PROVE  Lifecycle!Next
    <3>1. \A s \in Symbols \ {sym} : Same(s)
      BY <1>1, <2>2, <2>4
    <3>2. <<order>> # <<>> /\ <<order>>[1] = order
      OBVIOUS
    <3>3. Stage(sym)' = IF order.side = "buy" THEN "entering" ELSE "leaving"
      <4>1. broker'.pending[sym] # <<>> /\ broker'.pending[sym][1] = order
        BY <2>4, <3>2, Zenon
      <4> QED
        BY <4>1 DEF StageShape
    <3>4. Stage(sym) = IF broker.positions[sym].qty = 0 THEN "flat" ELSE "long"
      BY <2>2 DEF StageShape
    <3>5. \/ Stage(sym) = "flat" /\ Stage(sym)' = "entering"
          \/ Stage(sym) = "long" /\ Stage(sym)' = "leaving"
      BY <2>4, <3>3, <3>4
    <3> QED
      BY <3>1, <3>5, LifecycleEdge
  <2> QED
    BY <1>4, <2>1, <2>3, <2>4, CloseShape
<1> QED
  BY <1>2, <1>3, <1>4 DEF Next, vars, books, NewTimestamp, OpenBar, Finish

\* momentum_lightgbm.py:1-10, engine.py:8-9: a backtest implements the lifecycle of
\* whole trades: flat, entering, long, leaving, flat.
THEOREM BacktestTradesWhole == Spec => TradesAreWhole
<1>1. IInv /\ [Next]_vars => [Lifecycle!Next]_[s \in Symbols |-> Stage(s)]
  <2>1. IInv /\ [Next]_vars => StageShape /\ StageShape'
    BY StageValue, NextIInv, PTL
  <2> QED
    BY <2>1, LifecycleStep
<1> QED
  BY <1>1, LifecycleInit, IInvHolds, PTL DEF Spec, TradesAreWhole, Lifecycle!Spec
=============================================================================
