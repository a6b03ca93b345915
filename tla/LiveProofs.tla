------------------------------- MODULE LiveProofs -------------------------------
(****************************************************************************)
(* Theorems about LiveSession for every universe, every account, any number *)
(* of bars, drops and starts of the program, and every interleaving.  The   *)
(* inductive invariant has three layers: what each variable holds, where    *)
(* the tasks may be at the same time, and what an answer in a resync's      *)
(* hands still says of the account.                                         *)
(****************************************************************************)
EXTENDS LiveSession, RiskTheorems, SequenceTheorems

----------------------------------------------------------------------------
\* Fills on the wire, and the first of them.

Move(fill, s) == IF fill.symbol = s THEN Signed(fill) ELSE 0
Moves(u, s) == [i \in DOMAIN u |-> Move(u[i], s)]
FirstMoves(u, s, n) == SumFunctionOnSet(Moves(u, s), 1..n)

LEMMA FillType ==
    ASSUME NEW fill \in Fills
    PROVE  fill \in FillRecords /\ \A s \in Symbols : Move(fill, s) \in Int
<1>1. Price \in Int
  BY SessionAssumption
<1>2. fill \in FillRecords
  BY <1>1 DEF Fills, FillRecords
<1> QED
  BY <1>2, SignedType DEF Move

LEMMA MovesType ==
    ASSUME NEW u \in Seq(Fills), NEW s \in Symbols
    PROVE  /\ Len(u) \in Nat
           /\ \A i \in 1..Len(u) : Moves(u, s)[i] = Move(u[i], s) /\ Moves(u, s)[i] \in Int
           /\ \A n \in 0..Len(u) : FirstMoves(u, s, n) \in Int
<1>1. Len(u) \in Nat /\ DOMAIN u = 1..Len(u) /\ \A i \in 1..Len(u) : u[i] \in Fills
  OBVIOUS
<1>2. \A i \in 1..Len(u) : Moves(u, s)[i] = Move(u[i], s) /\ Moves(u, s)[i] \in Int
  BY <1>1, FillType DEF Moves
<1>3. ASSUME NEW n \in 0..Len(u) PROVE FirstMoves(u, s, n) \in Int
  <2>1. IsFiniteSet(1..n)
    BY FS_Interval
  <2>2. \A i \in 1..n : Moves(u, s)[i] \in Int
    BY <1>1, <1>2
  <2> QED
    BY <2>1, <2>2, SumType DEF FirstMoves
<1> QED
  BY <1>1, <1>2, <1>3

LEMMA SumOfMoves ==
    ASSUME NEW u \in Seq(Fills), NEW s \in Symbols
    PROVE  SumFunction(Moves(u, s)) = FirstMoves(u, s, Len(u))
<1>1. DOMAIN Moves(u, s) = 1..Len(u)
  BY DEF Moves
<1>2. SumFunction(Moves(u, s)) = SumFunctionOnSet(Moves(u, s), DOMAIN Moves(u, s))
  BY DEF SumFunction, SumFunctionOnSet, FoldFunction
<1> QED
  BY <1>1, <1>2, Zenon DEF FirstMoves

LEMMA WireIsFirstMoves ==
    ASSUME NEW s \in Symbols, updates \in Seq(Fills)
    PROVE  OnTheWire(s) = FirstMoves(updates, s, Len(updates))
BY SumOfMoves DEF OnTheWire, Moves, Move

LEMMA NextWireIsFirstMoves ==
    ASSUME NEW s \in Symbols, updates' \in Seq(Fills)
    PROVE  OnTheWire(s)' = FirstMoves(updates', s, Len(updates'))
BY SumOfMoves DEF OnTheWire, Moves, Move

LEMMA NoMoves ==
    ASSUME NEW u, NEW s
    PROVE  FirstMoves(u, s, 0) = 0
<1>1. 1..0 = {}
  OBVIOUS
<1>2. FirstMoves(u, s, 0) = SumFunctionOnSet(Moves(u, s), {})
  BY <1>1, Zenon DEF FirstMoves
<1> QED
  BY <1>2, SumEmpty

\* A fill sent is the last one on the wire.
LEMMA MovesOfAppend ==
    ASSUME NEW u \in Seq(Fills), NEW fill \in Fills, NEW s \in Symbols
    PROVE  /\ Append(u, fill) \in Seq(Fills) /\ Len(Append(u, fill)) = Len(u) + 1
           /\ FirstMoves(Append(u, fill), s, Len(u) + 1) = FirstMoves(u, s, Len(u)) + Move(fill, s)
           /\ \A n \in 0..Len(u) : FirstMoves(Append(u, fill), s, n) = FirstMoves(u, s, n)
<1> DEFINE v == Append(u, fill)
           n == Len(u)
<1>1. /\ v \in Seq(Fills) /\ Len(v) = n + 1 /\ n \in Nat /\ v[n+1] = fill
      /\ \A i \in 1..n : v[i] = u[i]
  OBVIOUS
<1>2. /\ \A i \in 1..n+1 : Moves(v, s)[i] \in Int /\ Moves(v, s)[i] = Move(v[i], s)
      /\ \A i \in 1..n : Moves(u, s)[i] \in Int /\ Moves(u, s)[i] = Move(u[i], s)
  BY <1>1, MovesType
<1>3. ASSUME NEW m \in 0..n PROVE FirstMoves(v, s, m) = FirstMoves(u, s, m)
  <2>1. IsFiniteSet(1..m)
    BY FS_Interval
  <2>2. \A i \in 1..m : Moves(v, s)[i] = Moves(u, s)[i]
    BY <1>1, <1>2
  <2> QED
    BY <2>1, <2>2, SumCongruent DEF FirstMoves
<1>4. FirstMoves(v, s, n + 1) = FirstMoves(v, s, n) + Moves(v, s)[n+1]
  BY <1>1, <1>2, SumLast DEF FirstMoves
<1>5. Moves(v, s)[n+1] = Move(fill, s) /\ FirstMoves(v, s, n) = FirstMoves(u, s, n)
  BY <1>1, <1>2, <1>3
<1> QED
  BY <1>1, <1>3, <1>4, <1>5

\* A fill delivered is the first one on the wire.
LEMMA MovesOfTail ==
    ASSUME NEW u \in Seq(Fills), u # <<>>, NEW s \in Symbols
    PROVE  /\ Tail(u) \in Seq(Fills) /\ Len(Tail(u)) = Len(u) - 1
           /\ Head(u) \in Fills /\ Len(u) \in Nat \ {0}
           /\ \A n \in 1..Len(u) :
                FirstMoves(u, s, n) = Move(Head(u), s) + FirstMoves(Tail(u), s, n - 1)
<1>1. /\ Tail(u) \in Seq(Fills) /\ Len(Tail(u)) = Len(u) - 1 /\ Head(u) = u[1] /\ Head(u) \in Fills
      /\ Len(u) \in Nat \ {0} /\ \A i \in 1..Len(u)-1 : Tail(u)[i] = u[i+1]
  OBVIOUS
<1>2. /\ \A i \in 1..Len(u) : Moves(u, s)[i] \in Int /\ Moves(u, s)[i] = Move(u[i], s)
      /\ \A i \in 1..Len(u)-1 : Moves(Tail(u), s)[i] = Move(Tail(u)[i], s)
  BY <1>1, MovesType
<1>3. ASSUME NEW n \in 1..Len(u)
      PROVE  FirstMoves(u, s, n) = Move(Head(u), s) + FirstMoves(Tail(u), s, n - 1)
  <2> DEFINE m == n - 1
  <2>1. m \in Nat /\ n = m + 1
    BY <1>1
  <2>2. \A i \in 1..m+1 : Moves(u, s)[i] \in Int
    BY <1>1, <1>2
  <2>3. \A i \in 1..m : Moves(Tail(u), s)[i] = Moves(u, s)[i+1]
    BY <1>1, <1>2
  <2> HIDE DEF m
  <2>4. SumFunctionOnSet(Moves(u, s), 1..m+1)
          = Moves(u, s)[1] + SumFunctionOnSet(Moves(Tail(u), s), 1..m)
    BY <2>1, <2>2, <2>3, SumFirst
  <2>5. Moves(u, s)[1] = Move(Head(u), s)
    BY <1>1, <1>2
  <2>6. FirstMoves(u, s, m + 1) = Move(Head(u), s) + FirstMoves(Tail(u), s, m)
    BY <2>4, <2>5 DEF FirstMoves
  <2> QED
    BY <2>1, <2>6 DEF m
<1> QED
  BY <1>1, <1>3

----------------------------------------------------------------------------
\* What each variable holds.  Of the risk manager's two objects the session
\* depends on the tracker.

Consumers == [at : {"listen", "account", "submit"}, bar : FeedBars \union {None},
              order : OpenOrders \union {None}, day : 0..MaxDays]
Places == {"off", "positions", "account", "connecting", "up", "backoff", "done"}

Typed ==
    /\ shares \in [Symbols -> Int]
    /\ open \in [Symbols -> Seq(OpenOrders)]
    /\ executed \in Nat
    /\ updates \in Seq(Fills)
    /\ feed \in Seq(FeedBars)
    /\ task \in [Tasks -> Places]
    /\ answer \in [Tasks -> AnswersOf \union {None}]
    /\ \A t \in Tasks : task[t] = "account" => answer[t] \in AnswersOf
    /\ consumer \in Consumers
    /\ consumer.at = "account" => consumer.bar \in FeedBars
    /\ consumer.at = "submit" => consumer.order \in OpenOrders
    /\ risk.tracker \in Trackers
    /\ risk = [tracker |-> risk.tracker, breaker |-> risk.breaker]
    /\ strategy \in Strategies
    /\ published = [bars |-> published.bars, day |-> published.day, drops |-> published.drops]
    /\ session = [up |-> session.up, starts |-> session.starts, endedBy |-> session.endedBy]

LEMMA SyncedType ==
    ASSUME NEW a \in AnswersOf, NEW equity \in AccountEquities
    PROVE  /\ SyncFromApi(a.positions, equity) \in Trackers
           /\ SyncFromApi(a.positions, equity).equity = equity
           /\ \A s \in Symbols :
                SyncFromApi(a.positions, equity).positions[s].qty = a.positions[s].qty
<1> DEFINE next == SyncFromApi(a.positions, equity)
<1>1. equity \in Int
  BY SessionAssumption
<1>2. ASSUME NEW s \in Symbols
      PROVE  next.positions[s] \in Positions /\ next.positions[s].qty = a.positions[s].qty
  <2> DEFINE p == a.positions[s]
  <2>1. p \in [qty : Int, avgPrice : Int, marketValue : Int] /\ p.marketValue # None
    BY NoneAssumption DEF AnswersOf
  <2>2. next.positions[s] = IF p.qty = 0 THEN Flat
                            ELSE [qty |-> p.qty, avgPrice |-> p.avgPrice,
                                  lastPrice |-> Abs(p.marketValue) \div Abs(p.qty)]
    BY <2>1 DEF SyncFromApi
  <2>3. CASE p.qty = 0
    BY <2>2, <2>3 DEF Flat, Positions
  <2>4. CASE p.qty # 0
    <3>1. p.marketValue \in Int /\ p.qty \in Int
      BY <2>1
    <3>2. Abs(p.marketValue) \in Nat /\ Abs(p.qty) \in Nat \ {0}
      BY <2>4, <3>1, AbsType
    <3>3. Abs(p.marketValue) \div Abs(p.qty) \in Int
      BY <3>2, QuotientType
    <3> QED
      BY <2>1, <2>2, <2>4, <3>3 DEF Positions
  <2> QED
    BY <2>3, <2>4
<1>3. next.positions \in [Symbols -> Positions] /\ next.equity = equity
  BY <1>2 DEF SyncFromApi
<1>4. next = [positions |-> next.positions, equity |-> next.equity]
  BY DEF SyncFromApi
<1> QED
  BY <1>1, <1>2, <1>3, <1>4 DEF Trackers

LEMMA BufferType ==
    ASSUME NEW st \in Strategies, NEW bar \in FeedBars
    PROVE  BufferBar(st, bar) \in Strategies /\ BufferBar(st, bar).positions = st.positions
<1>1. bar.symbol \in Symbols /\ WarmupBars \in Nat
  BY StrategyAssumption DEF FeedBars
<1>2. CASE bar.symbol \notin Universe \/ st.buffered[bar.symbol] = WarmupBars
  BY <1>2 DEF BufferBar
<1>3. CASE ~(bar.symbol \notin Universe \/ st.buffered[bar.symbol] = WarmupBars)
  <2> DEFINE kept == [st.buffered EXCEPT ![bar.symbol] = @ + 1]
  <2>1. st.buffered \in [Symbols -> 0..WarmupBars]
    BY DEF Strategies
  <2>2. kept \in [Symbols -> 0..WarmupBars]
    BY <1>1, <1>3, <2>1
  <2>3. BufferBar(st, bar) = [st EXCEPT !.buffered = kept]
    BY <1>3 DEF BufferBar
  <2> QED
    BY <2>2, <2>3 DEF Strategies
<1> QED
  BY <1>2, <1>3

LEMMA TradeUpdateType ==
    ASSUME NEW st \in Strategies, NEW fill \in Fills
    PROVE  /\ OnTradeUpdate(st, fill) \in Strategies
           /\ \A s \in Symbols :
                OnTradeUpdate(st, fill).positions[s] = st.positions[s] + Move(fill, s)
<1> DEFINE next == [st.positions EXCEPT ![fill.symbol] = @ + Signed(fill)]
<1>1. fill.symbol \in Symbols /\ Signed(fill) \in Int /\ st.positions \in [Symbols -> Int]
  BY FillType, SignedType DEF Fills, Strategies
<1>2. next \in [Symbols -> Int]
  BY <1>1
<1>3. OnTradeUpdate(st, fill) = [st EXCEPT !.positions = next]
  BY DEF OnTradeUpdate
<1>4. OnTradeUpdate(st, fill) \in Strategies /\ OnTradeUpdate(st, fill).positions = next
  BY <1>2, <1>3 DEF Strategies
<1> QED
  BY <1>1, <1>4 DEF Move

\* momentum_lightgbm.py:88-117: a bar's intent is for its symbol at its close; an
\* entry is for one share of what is not held, an exit for all that is.
LEMMA IntentOfBar ==
    ASSUME NEW st \in Strategies, NEW bar \in FeedBars, NEW reading \in Readings,
           NEW intent, intent = Intent(st, bar, reading), intent # None
    PROVE  /\ intent.symbol = bar.symbol /\ intent.symbol \in Symbols
           /\ intent.side \in Sides /\ intent.qty \in Nat
           /\ intent.strength \in Int
           /\ intent.price = Price /\ intent.price \in Nat \ {0}
           /\ \/ intent.side = "buy" /\ st.positions[bar.symbol] = 0
              \/ /\ intent.side = "sell" /\ st.positions[bar.symbol] > 0
                 /\ intent.qty = st.positions[bar.symbol]
<1>1. /\ bar.symbol \in Symbols /\ bar.close = Price /\ Price \in Nat \ {0}
      /\ st.positions[bar.symbol] \in Int
  BY SessionAssumption DEF FeedBars, Strategies
<1>2. reading.signal \in Int
  <2>1. reading \in [complete : BOOLEAN, signal : -100..100, regime : Int \union {None}]
    BY SessionAssumption, Zenon
  <2>2. reading.signal \in -100..100
    BY <2>1, Zenon
  <2>3. \A x \in -100..100 : x \in Int
    OBVIOUS
  <2> QED
    BY <2>2, <2>3, Zenon
<1>3. intent = Decide(st, bar, reading)
  BY DEF Intent
<1>4. \/ /\ st.positions[bar.symbol] = 0
         /\ intent = EntryIntent(bar, reading.signal)
      \/ /\ st.positions[bar.symbol] > 0
         /\ intent = ExitIntent(bar, st.positions[bar.symbol], reading.signal)
  BY <1>3 DEF Decide
<1> QED
  BY <1>1, <1>2, <1>4 DEF EntryIntent, ExitIntent, Sides

\* The verdict on a bar: nothing, or an order that the gate found admissible.
LEMMA DecideShape ==
    ASSUME Typed, NEW bar \in FeedBars, NEW reading \in Readings, NEW breaker,
           NEW today \in 0..MaxDays, DecideBar(bar, reading, breaker, today)
    PROVE  /\ strategy' = BufferBar(strategy, bar)
           /\ \/ consumer' = [IdleConsumer EXCEPT !.day = today]
              \/ \E order \in OpenOrders :
                    /\ consumer' = [at |-> "submit", bar |-> bar, day |-> today, order |-> order]
                    /\ Admissible([tracker |-> risk.tracker, breaker |-> breaker],
                                  [symbol |-> order.symbol, side |-> order.side,
                                   qty |-> order.qty, price |-> Price], order.qty)
                    /\ \/ order.side = "buy" /\ strategy.positions[order.symbol] = 0
                       \/ /\ order.side = "sell" /\ strategy.positions[order.symbol] > 0
                          /\ risk.tracker.positions[order.symbol].qty = strategy.positions[order.symbol]
                                => order.qty = strategy.positions[order.symbol]
<1> DEFINE intent == Intent(strategy', bar, reading)
           books == [risk EXCEPT !.breaker = breaker]
           order == [symbol |-> intent.symbol, side |-> intent.side,
                     qty |-> Validate(books, intent).qty]
<1>1. strategy' = BufferBar(strategy, bar)
  BY DEF DecideBar
<1>2. strategy' \in Strategies /\ strategy'.positions = strategy.positions
  BY <1>1, BufferType DEF Typed
<1>3. books = [tracker |-> risk.tracker, breaker |-> breaker] /\ books.tracker \in Trackers
  <2>1. risk = [tracker |-> risk.tracker, breaker |-> risk.breaker] /\ risk.tracker \in Trackers
    BY DEF Typed
  <2> QED
    BY <2>1
<1>4. CASE intent = None \/ ~Validate(books, intent).approved
  <2>1. consumer' = [IdleConsumer EXCEPT !.day = today]
    BY <1>4 DEF DecideBar, Reject
  <2> QED
    BY <1>1, <2>1
<1>5. CASE intent # None /\ Validate(books, intent).approved
  <2>1. consumer' = [at |-> "submit", bar |-> bar, day |-> today, order |-> order]
    BY <1>5 DEF DecideBar
  <2>2. /\ intent.symbol = bar.symbol /\ intent.symbol \in Symbols
        /\ intent.side \in Sides /\ intent.qty \in Nat
        /\ intent.strength \in Int
        /\ intent.price = Price /\ intent.price \in Nat \ {0}
        /\ \/ intent.side = "buy" /\ strategy.positions[bar.symbol] = 0
           \/ /\ intent.side = "sell" /\ strategy.positions[bar.symbol] > 0
              /\ intent.qty = strategy.positions[bar.symbol]
    <3> HIDE DEF intent
    <3>1. intent = Intent(strategy', bar, reading)
      BY DEF intent
    <3> QED
      BY <1>2, <1>5, <3>1, IntentOfBar
  <2> HIDE DEF intent, books
  <2>3. /\ Validate(books, intent).qty \in Nat
        /\ Admissible(books, intent, Validate(books, intent).qty)
    BY <1>3, <1>5, <2>2, ApprovedIsAdmissible
  <2>4. order \in OpenOrders
    BY <2>2, <2>3 DEF OpenOrders
  <2>5. Admissible(books, [symbol |-> order.symbol, side |-> order.side,
                           qty |-> order.qty, price |-> Price], order.qty)
    BY <2>2, <2>3, AdmissibleIntents
  <2>6. ASSUME intent.side = "sell",
               risk.tracker.positions[intent.symbol].qty = strategy.positions[intent.symbol]
        PROVE  order.qty = strategy.positions[intent.symbol]
    <3>1. /\ intent.qty \in Int /\ intent.qty > 0
          /\ PositionQty(books.tracker, intent.symbol) = intent.qty
      BY <1>3, <2>2, <2>6 DEF PositionQty
    <3>2. Validate(books, intent).qty = intent.qty
      BY <1>5, <2>6, <3>1, ExitSize
    <3> QED
      BY <2>2, <2>6, <3>2
  <2> QED
    BY <1>1, <1>3, <2>1, <2>2, <2>4, <2>5, <2>6
<1> QED
  BY <1>4, <1>5

LEMMA NewTrackerType == NewTracker \in Trackers /\ \A s \in Symbols : NewTracker.positions[s].qty = 0
<1>1. Flat \in Positions /\ Flat.qty = 0
  BY DEF Flat, Positions
<1> QED
  BY <1>1 DEF NewTracker, Trackers

LEMMA NewStrategyType ==
    NewStrategy \in Strategies /\ \A s \in Symbols : NewStrategy.positions[s] = 0
<1>1. 0 \in 0..WarmupBars
  BY StrategyAssumption
<1> QED
  BY <1>1 DEF NewStrategy, Strategies

LEMMA NoneLeft ==
    /\ <<>> \in Seq(Fills) /\ <<>> \in Seq(FeedBars) /\ <<>> \in Seq(OpenOrders)
    /\ IdleConsumer \in Consumers
    /\ IdleConsumer.at = "listen"
    /\ \A day \in 0..MaxDays : /\ [IdleConsumer EXCEPT !.day = day] \in Consumers
                              /\ [IdleConsumer EXCEPT !.day = day].at = "listen"
<1>1. <<>> \in Seq(Fills) /\ <<>> \in Seq(FeedBars) /\ <<>> \in Seq(OpenOrders)
  OBVIOUS
<1>2. 0 \in 0..MaxDays
  BY SessionAssumption
<1>3. \A day \in 0..MaxDays :
        [at |-> "listen", bar |-> None, order |-> None, day |-> day] \in Consumers
  BY DEF Consumers
<1>4. \A day : [IdleConsumer EXCEPT !.day = day]
                 = [at |-> "listen", bar |-> None, order |-> None, day |-> day]
  BY DEF IdleConsumer
<1> QED
  BY <1>1, <1>2, <1>3, <1>4 DEF IdleConsumer

LEMMA InitTyped == Init => Typed
<1> SUFFICES ASSUME Init PROVE Typed
  OBVIOUS
<1>2. /\ shares \in [Symbols -> Int] /\ open \in [Symbols -> Seq(OpenOrders)] /\ executed \in Nat
      /\ updates \in Seq(Fills) /\ feed \in Seq(FeedBars)
  BY NoneLeft DEF Init
<1>3. task \in [Tasks -> Places] /\ answer \in [Tasks -> AnswersOf \union {None}]
  BY DEF Init, Places
<1>4. \A t \in Tasks : task[t] # "account"
  BY DEF Init
<1> QED
  BY <1>2, <1>3, <1>4, NoneLeft, NewTrackerType, NewStrategyType DEF Init, Typed, IdleConsumer

\* The consumer's decision keeps the types.
LEMMA DecideTyped ==
    ASSUME Typed, NEW bar \in FeedBars, NEW reading \in Readings, NEW breaker,
           NEW today \in 0..MaxDays, DecideBar(bar, reading, breaker, today)
    PROVE  /\ strategy' \in Strategies /\ strategy'.positions = strategy.positions
           /\ consumer' \in Consumers /\ consumer'.at # "account"
           /\ consumer'.at = "submit" => consumer'.order \in OpenOrders
<1>1. strategy' \in Strategies /\ strategy'.positions = strategy.positions
  BY DecideShape, BufferType, ZenonT(40) DEF Typed
<1>2. \/ consumer' = [IdleConsumer EXCEPT !.day = today]
      \/ \E order \in OpenOrders :
            consumer' = [at |-> "submit", bar |-> bar, day |-> today, order |-> order]
  BY DecideShape, ZenonT(40)
<1>3. CASE consumer' = [IdleConsumer EXCEPT !.day = today]
  <2>1. consumer' \in Consumers /\ consumer'.at = "listen"
    BY <1>3, NoneLeft DEF IdleConsumer
  <2> QED
    BY <1>1, <2>1
<1>4. ASSUME NEW order \in OpenOrders,
             consumer' = [at |-> "submit", bar |-> bar, day |-> today, order |-> order]
      PROVE  consumer' \in Consumers /\ consumer'.at = "submit" /\ consumer'.order \in OpenOrders
  BY <1>4 DEF Consumers
<1> QED
  BY <1>1, <1>2, <1>3, <1>4

LEMMA RemoveType ==
    ASSUME NEW queue \in Seq(OpenOrders), NEW i \in DOMAIN queue
    PROVE  RemoveAt(queue, i) \in Seq(OpenOrders)
<1>1. i \in 1..Len(queue) /\ Len(queue) \in Nat
  OBVIOUS
<1>2. SubSeq(queue, 1, i-1) \in Seq(OpenOrders) /\ SubSeq(queue, i+1, Len(queue)) \in Seq(OpenOrders)
  BY <1>1
<1> QED
  BY <1>2 DEF RemoveAt

LEMMA ExecuteType ==
    ASSUME Typed, NEW s \in Symbols, NEW i \in DOMAIN open[s],
           NEW qty \in 1..open[s][i].qty, Execute(s, i, qty)
    PROVE  \E fill \in Fills :
              /\ fill.symbol = s /\ fill.side = open[s][i].side /\ fill.qty = qty
              /\ shares' \in [Symbols -> Int] /\ executed' = executed + 1
              /\ \A t \in Symbols : shares'[t] = shares[t] + Move(fill, t)
              /\ updates' = IF task["trading"] = "up" THEN Append(updates, fill) ELSE updates
              /\ open' \in [Symbols -> Seq(OpenOrders)]
              /\ \A t \in Symbols \ {s} : open'[t] = open[t]
<1> DEFINE order == open[s][i]
           fill == [symbol |-> s, side |-> order.side, qty |-> qty, price |-> Price]
           left == [order EXCEPT !.qty = order.qty - qty]
           queue == IF qty = order.qty THEN RemoveAt(open[s], i)
                    ELSE [open[s] EXCEPT ![i].qty = order.qty - qty]
<1>1. open[s] \in Seq(OpenOrders) /\ order \in OpenOrders
  BY DEF Typed
<1>2. order.side \in Sides /\ order.qty \in Nat /\ qty \in Nat /\ order.qty - qty \in Nat
  BY <1>1 DEF OpenOrders, Execute
<1>3. fill \in Fills
  BY <1>2 DEF Fills
<1>4. queue \in Seq(OpenOrders)
  <2>1. left \in OpenOrders
    BY <1>1, <1>2 DEF OpenOrders
  <2>2. [open[s] EXCEPT ![i] = left] \in Seq(OpenOrders)
    BY <1>1, <2>1, ExceptSeq
  <2> QED
    BY <1>1, <2>2, RemoveType
<1>5. open' = [open EXCEPT ![s] = queue]
  BY DEF Execute
<1> HIDE DEF queue
<1>6. open' \in [Symbols -> Seq(OpenOrders)] /\ \A t \in Symbols \ {s} : open'[t] = open[t]
  BY <1>4, <1>5 DEF Typed
<1>7. shares' = [shares EXCEPT ![s] = @ + Signed(fill)] /\ executed' = executed + 1
      /\ updates' = IF task["trading"] = "up" THEN Append(updates, fill) ELSE updates
  BY DEF Execute
<1>8. fill.symbol = s /\ fill.side = open[s][i].side /\ fill.qty = qty
  OBVIOUS
<1> HIDE DEF fill
<1>9. Signed(fill) \in Int /\ shares \in [Symbols -> Int]
  BY <1>3, FillType, SignedType DEF Typed
<1>10. shares' \in [Symbols -> Int] /\ \A t \in Symbols : shares'[t] = shares[t] + Move(fill, t)
  BY <1>7, <1>8, <1>9 DEF Move
<1> QED
  BY <1>3, <1>6, <1>7, <1>8, <1>10

LEMMA StartTyped == Typed /\ Start => Typed'
<1> SUFFICES ASSUME Typed, Start PROVE Typed'
  OBVIOUS
<1>1. UNCHANGED <<account, published>> /\ updates' = <<>> /\ feed' = <<>>
  BY DEF Start
<1>2. /\ task' \in [Tasks -> Places] /\ answer' \in [Tasks -> AnswersOf \union {None}]
      /\ \A t \in Tasks : task'[t] # "account"
  BY DEF Start, Places
<1>3. consumer' = IdleConsumer /\ strategy' \in Strategies
  BY NewStrategyType DEF Start
<1>4. risk' = [tracker |-> NewTracker, breaker |-> NewBreaker]
      /\ session' = [up |-> TRUE, starts |-> session.starts + 1, endedBy |-> "nothing"]
  BY DEF Start
<1>5. risk'.tracker \in Trackers /\ risk' = [tracker |-> risk'.tracker, breaker |-> risk'.breaker]
      /\ session' = [up |-> session'.up, starts |-> session'.starts, endedBy |-> session'.endedBy]
  BY <1>4, NewTrackerType
<1> QED
  BY <1>1, <1>2, <1>3, <1>5, NoneLeft DEF Typed, account

LEMMA AppendOrderType ==
    ASSUME Typed, NEW order \in OpenOrders
    PROVE  LET next == [open EXCEPT ![order.symbol] = Append(@, order)]
           IN  /\ next \in [Symbols -> Seq(OpenOrders)]
               /\ order.symbol \in Symbols
               /\ \A s \in Symbols : next[s] = IF s = order.symbol THEN Append(open[s], order)
                                               ELSE open[s]
<1>1. order.symbol \in Symbols /\ open \in [Symbols -> Seq(OpenOrders)]
  BY DEF Typed, OpenOrders
<1>2. Append(open[order.symbol], order) \in Seq(OpenOrders)
  BY <1>1
<1> QED
  BY <1>1, <1>2

LEMMA EndSessionTyped ==
    ASSUME Typed, NEW why, NEW lands \in BOOLEAN, EndSession(why, lands)
    PROVE  Typed'
<1>1. UNCHANGED <<shares, executed, published, risk, strategy>> /\ updates' = <<>> /\ feed' = <<>>
      /\ consumer' = IdleConsumer
  BY DEF EndSession
<1>2. /\ task' \in [Tasks -> Places] /\ answer' \in [Tasks -> AnswersOf \union {None}]
      /\ \A t \in Tasks : task'[t] # "account"
  BY DEF EndSession, Places
<1>3. open' \in [Symbols -> Seq(OpenOrders)]
  <2>1. CASE open' = open
    BY <2>1 DEF Typed
  <2>2. CASE /\ consumer.at = "submit"
             /\ open' = [open EXCEPT ![consumer.order.symbol] = Append(@, consumer.order)]
    <3>1. consumer.order \in OpenOrders
      BY <2>2 DEF Typed
    <3> QED
      BY <2>2, <3>1, AppendOrderType
  <2> QED
    BY <2>1, <2>2 DEF EndSession
<1>4. session' = [session EXCEPT !.up = FALSE, !.endedBy = why]
  BY DEF EndSession
<1>5. session' = [up |-> session'.up, starts |-> session'.starts, endedBy |-> session'.endedBy]
  <2>1. session = [up |-> session.up, starts |-> session.starts, endedBy |-> session.endedBy]
    BY DEF Typed
  <2> QED
    BY <1>4, <2>1
<1> QED
  BY <1>1, <1>2, <1>3, <1>5, NoneLeft DEF Typed

\* What the broker answers is an answer.
LEMMA AnswerType ==
    ASSUME Typed
    PROVE  [positions |-> [s \in Symbols |-> [qty |-> shares[s], avgPrice |-> Price,
                                              marketValue |-> shares[s] * Price]],
            executed |-> executed] \in AnswersOf
<1>1. \A s \in Symbols : shares[s] \in Int /\ Price \in Int
  BY SessionAssumption DEF Typed
<1>2. \A s \in Symbols : shares[s] * Price \in Int
  BY <1>1
<1> QED
  BY <1>1, <1>2 DEF Typed, AnswersOf

\* The steps of a resync and of the reconnect loop.
LEMMA TaskTyped ==
    ASSUME Typed, NEW t \in Tasks,
           \/ GetPositions(t)
           \/ \E equity \in AccountEquities : SyncTracker(t, equity)
           \/ t \in Streams /\ (Connect(t) \/ Drop(t) \/ Reconnect(t))
    PROVE  Typed'
<1>1. CASE GetPositions(t)
  <2>1. UNCHANGED <<session, account, wires, consumer, risk, strategy>>
        /\ task' = [task EXCEPT ![t] = "account"]
    BY <1>1 DEF GetPositions
  <2>2. PICK a \in AnswersOf : answer' = [answer EXCEPT ![t] = a]
    BY <1>1, AnswerType DEF GetPositions
  <2>3. /\ task' \in [Tasks -> Places] /\ answer' \in [Tasks -> AnswersOf \union {None}]
        /\ \A u \in Tasks : task'[u] = "account" => answer'[u] \in AnswersOf
    BY <2>1, <2>2 DEF Typed, Places
  <2> QED
    BY <2>1, <2>3 DEF Typed, account, wires
<1>2. ASSUME NEW equity \in AccountEquities, SyncTracker(t, equity) PROVE Typed'
  <2>1. /\ UNCHANGED <<session, account, wires, consumer, strategy>>
        /\ answer' = [answer EXCEPT ![t] = None]
        /\ risk' = [risk EXCEPT !.tracker = SyncFromApi(answer[t].positions, equity)]
        /\ task' = IF t = "startup"
                   THEN [startup |-> "done", trading |-> "positions", data |-> "positions"]
                   ELSE [task EXCEPT ![t] = "connecting"]
        /\ answer[t] \in AnswersOf
    BY <1>2 DEF SyncTracker, Typed
  <2>2. risk'.tracker \in Trackers /\ risk' = [tracker |-> risk'.tracker, breaker |-> risk'.breaker]
    <3>1. risk = [tracker |-> risk.tracker, breaker |-> risk.breaker]
          /\ SyncFromApi(answer[t].positions, equity) \in Trackers
      BY <2>1, SyncedType DEF Typed
    <3> QED
      BY <2>1, <3>1
  <2>3. /\ task' \in [Tasks -> Places] /\ answer' \in [Tasks -> AnswersOf \union {None}]
        /\ \A u \in Tasks : task'[u] = "account" => answer'[u] \in AnswersOf
    BY <2>1 DEF Typed, Places, Tasks, Streams
  <2> QED
    BY <2>1, <2>2, <2>3 DEF Typed, account, wires
<1>3. ASSUME t \in Streams, Connect(t) \/ Drop(t) \/ Reconnect(t) PROVE Typed'
  <2>1. /\ UNCHANGED <<session, account, feed, consumer, risk, strategy>>
        /\ updates' = updates \/ updates' = <<>>
        /\ published' = published \/ published' = [published EXCEPT !.drops = @ + 1]
    BY <1>3 DEF Connect, Drop, Reconnect, wires
  <2>2. /\ \E place \in Places \ {"account"} : task' = [task EXCEPT ![t] = place]
        /\ answer' = answer \/ answer' = [answer EXCEPT ![t] = None]
    BY <1>3 DEF Connect, Drop, Reconnect, Places
  <2>3. /\ task' \in [Tasks -> Places] /\ answer' \in [Tasks -> AnswersOf \union {None}]
        /\ \A u \in Tasks : task'[u] = "account" => answer'[u] \in AnswersOf
    BY <2>2 DEF Typed
  <2>4. published' = [bars |-> published'.bars, day |-> published'.day, drops |-> published'.drops]
    <3>1. published = [bars |-> published.bars, day |-> published.day, drops |-> published.drops]
      BY DEF Typed
    <3> QED
      BY <2>1, <3>1
  <2>5. updates' \in Seq(Fills)
    BY <2>1, NoneLeft DEF Typed
  <2> QED
    BY <2>1, <2>3, <2>4, <2>5 DEF Typed, account
<1> QED
  BY <1>1, <1>2, <1>3

\* The steps of the streams' callbacks and of the consumer.
LEMMA EventTyped ==
    ASSUME Typed,
           \/ DeliverFill \/ ConsumeFirstBarOfDay \/ OrderAccepted
           \/ \E reading \in Readings :
                 ConsumeBar(reading) \/ \E equity \in AccountEquities : OpenDay(equity, reading)
    PROVE  Typed'
<1> USE DEF account, wires
<1>1. \A bar \in FeedBars : bar.day \in 0..MaxDays
  BY SessionAssumption DEF FeedBars
<1>2. feed # <<>> => Head(feed) \in FeedBars /\ Tail(feed) \in Seq(FeedBars)
  BY DEF Typed
<1>3. CASE DeliverFill
  <2>1. UNCHANGED <<session, account, feed, published, task, answer, consumer>>
        /\ updates # <<>> /\ updates' = Tail(updates)
        /\ strategy' = OnTradeUpdate(strategy, Head(updates))
        /\ risk' = RiskOnFill(risk, Head(updates))
    BY <1>3 DEF DeliverFill
  <2>2. updates' \in Seq(Fills) /\ Head(updates) \in Fills
    BY <2>1 DEF Typed
  <2>3. strategy' \in Strategies
    BY <2>1, <2>2, TradeUpdateType DEF Typed
  <2>4. risk'.tracker \in Trackers /\ risk' = [tracker |-> risk'.tracker, breaker |-> risk'.breaker]
    <3>1. TrackFill(risk.tracker, Head(updates)) \in Trackers
      BY <2>2, FillType, TrackFillType DEF Typed
    <3>2. PICK breaker : risk' = [tracker |-> TrackFill(risk.tracker, Head(updates)),
                                  breaker |-> breaker]
      BY <2>1 DEF RiskOnFill
    <3> QED
      BY <3>1, <3>2
  <2> QED
    BY <2>1, <2>2, <2>3, <2>4 DEF Typed
<1>4. CASE ConsumeFirstBarOfDay
  <2>1. UNCHANGED <<session, account, updates, published, task, answer, risk, strategy>>
        /\ feed # <<>> /\ feed' = Tail(feed)
        /\ consumer' = [consumer EXCEPT !.at = "account", !.bar = Head(feed), !.day = Head(feed).day]
    BY <1>4 DEF ConsumeFirstBarOfDay
  <2>2. consumer' \in Consumers /\ consumer'.at = "account" /\ consumer'.bar \in FeedBars
    <3>1. consumer \in Consumers /\ Head(feed) \in FeedBars /\ Head(feed).day \in 0..MaxDays
      BY <1>1, <1>2, <2>1 DEF Typed
    <3> QED
      BY <2>1, <3>1 DEF Consumers
  <2>3. feed' \in Seq(FeedBars)
    BY <1>2, <2>1
  <2> QED
    BY <2>1, <2>2, <2>3 DEF Typed
<1>5. CASE OrderAccepted
  <2>1. /\ UNCHANGED <<session, shares, executed, wires, task, answer, risk, strategy>>
        /\ consumer.at = "submit"
        /\ open' = [open EXCEPT ![consumer.order.symbol] = Append(@, consumer.order)]
        /\ consumer' = [IdleConsumer EXCEPT !.day = consumer.day]
    BY <1>5 DEF OrderAccepted
  <2>2. consumer.order \in OpenOrders /\ consumer.day \in 0..MaxDays
    BY <2>1 DEF Typed, Consumers
  <2>3. open' \in [Symbols -> Seq(OpenOrders)]
    BY <2>1, <2>2, AppendOrderType
  <2>4. consumer' \in Consumers /\ consumer'.at = "listen"
    BY <2>1, <2>2, NoneLeft
  <2> QED
    BY <2>1, <2>3, <2>4 DEF Typed
<1>6. ASSUME NEW reading \in Readings, ConsumeBar(reading) PROVE Typed'
  <2>1. UNCHANGED <<session, account, updates, published, task, answer, risk>>
        /\ feed # <<>> /\ feed' = Tail(feed)
        /\ DecideBar(Head(feed), reading, risk.breaker, consumer.day)
    BY <1>6 DEF ConsumeBar
  <2>2. Head(feed) \in FeedBars /\ consumer.day \in 0..MaxDays
    BY <1>2, <2>1 DEF Typed, Consumers
  <2>3. /\ strategy' \in Strategies
        /\ consumer' \in Consumers /\ consumer'.at # "account"
        /\ consumer'.at = "submit" => consumer'.order \in OpenOrders
    BY <2>1, <2>2, DecideTyped
  <2>4. feed' \in Seq(FeedBars)
    BY <1>2, <2>1
  <2> QED
    BY <2>1, <2>3, <2>4 DEF Typed
<1>7. ASSUME NEW reading \in Readings, NEW equity \in AccountEquities, OpenDay(equity, reading)
      PROVE  Typed'
  <2>1. UNCHANGED <<session, account, wires, task, answer>>
        /\ consumer.at = "account" /\ risk' = RiskOnNewDay(risk, equity)
        /\ DecideBar(consumer.bar, reading, risk'.breaker, consumer.day)
    BY <1>7 DEF OpenDay
  <2>2. consumer.bar \in FeedBars /\ consumer.day \in 0..MaxDays
    BY <2>1 DEF Typed, Consumers
  <2>3. /\ strategy' \in Strategies
        /\ consumer' \in Consumers /\ consumer'.at # "account"
        /\ consumer'.at = "submit" => consumer'.order \in OpenOrders
    BY <2>1, <2>2, DecideTyped
  <2>4. risk'.tracker = risk.tracker /\ risk' = [tracker |-> risk'.tracker, breaker |-> risk'.breaker]
    BY <2>1 DEF RiskOnNewDay
  <2> QED
    BY <2>1, <2>3, <2>4 DEF Typed
<1> QED
  BY <1>3, <1>4, <1>5, <1>6, <1>7

LEMMA NextTyped == Typed /\ [Next]_vars => Typed'
<1> SUFFICES ASSUME Typed, [Next]_vars PROVE Typed'
  OBVIOUS
<1>1. CASE Start
  BY <1>1, StartTyped
<1>2. CASE StopSignal \/ UncaughtFailure
  BY <1>2, EndSessionTyped DEF StopSignal, UncaughtFailure
<1>3. ASSUME NEW t \in Tasks,
             GetPositions(t) \/ \E equity \in AccountEquities : SyncTracker(t, equity)
      PROVE  Typed'
  BY <1>3, TaskTyped
<1>4. ASSUME NEW t \in Streams, Connect(t) \/ Drop(t) \/ Reconnect(t) PROVE Typed'
  BY <1>4, TaskTyped DEF Tasks
<1>5. CASE \/ DeliverFill \/ ConsumeFirstBarOfDay \/ OrderAccepted
           \/ \E reading \in Readings :
                 ConsumeBar(reading) \/ \E equity \in AccountEquities : OpenDay(equity, reading)
  BY <1>5, EventTyped
<1>6. CASE BrokerMoves
  <2>1. PICK s \in Symbols : \E i \in DOMAIN open[s] :
          Lapse(s, i) \/ \E qty \in 1..open[s][i].qty : Execute(s, i, qty)
    BY <1>6 DEF BrokerMoves
  <2>4. PICK i \in DOMAIN open[s] :
          Lapse(s, i) \/ \E qty \in 1..open[s][i].qty : Execute(s, i, qty)
    BY <2>1
  <2>2. CASE Lapse(s, i)
    <3>1. open' = [open EXCEPT ![s] = RemoveAt(@, i)] /\ open[s] \in Seq(OpenOrders)
      BY <2>2 DEF Lapse, Typed
    <3>2. open' \in [Symbols -> Seq(OpenOrders)]
      BY <3>1, RemoveType DEF Typed
    <3> QED
      BY <2>2, <3>2 DEF Lapse, Typed, wires, program
  <2>3. ASSUME NEW qty \in 1..open[s][i].qty, Execute(s, i, qty) PROVE Typed'
    <3>1. PICK fill \in Fills :
            /\ shares' \in [Symbols -> Int] /\ executed' = executed + 1
            /\ updates' = IF task["trading"] = "up" THEN Append(updates, fill) ELSE updates
            /\ open' \in [Symbols -> Seq(OpenOrders)]
      BY <2>3, ExecuteType
    <3>2. updates' \in Seq(Fills) /\ executed' \in Nat
      BY <3>1 DEF Typed
    <3> QED
      BY <2>3, <3>1, <3>2 DEF Execute, Typed, program
  <2> QED
    BY <2>2, <2>3, <2>4
<1>7. ASSUME NEW s \in Symbols, NEW day \in 1..MaxDays, PublishBar(s, day) PROVE Typed'
  <2>1. /\ UNCHANGED <<session, account, updates, program>>
        /\ published' = [published EXCEPT !.bars = @ + 1, !.day = day]
        /\ feed' = Append(feed, [symbol |-> s, close |-> Price, day |-> day])
    BY <1>7 DEF PublishBar
  <2>2. feed' \in Seq(FeedBars)
    BY <2>1 DEF Typed, FeedBars
  <2>3. published' = [bars |-> published'.bars, day |-> published'.day, drops |-> published'.drops]
    <3>1. published = [bars |-> published.bars, day |-> published.day, drops |-> published.drops]
      BY DEF Typed
    <3> QED
      BY <2>1, <3>1
  <2> QED
    BY <2>1, <2>2, <2>3 DEF Typed, account, program
<1>8. CASE UNCHANGED vars
  BY <1>8 DEF Typed, vars, account, wires, program
<1> QED
  BY <1>1, <1>2, <1>3, <1>4, <1>5, <1>6, <1>7, <1>8 DEF Next

----------------------------------------------------------------------------
\* Where the tasks may be at the same time, and at what prices shares are booked.

Life ==
    /\ \A t \in Tasks : task[t] # "off" => session.up
    /\ task["startup"] \in {"off", "positions", "account", "done"}
    /\ task["startup"] # "done" =>
          /\ \A t \in Streams : task[t] = "off"
          /\ updates = <<>> /\ feed = <<>> /\ consumer.at = "listen"
    /\ task["startup"] = "done" => risk.tracker.equity \in AccountEquities
    /\ task["trading"] # "up" => updates = <<>>

AtPriceIn(positions) ==
    \A s \in Symbols : positions[s].qty # 0 =>
        positions[s].avgPrice = Price /\ positions[s].lastPrice = Price

AtPrice ==
    /\ AtPriceIn(risk.tracker.positions)
    /\ \A t \in Tasks : task[t] = "account" =>
          \A s \in Symbols : LET p == answer[t].positions[s]
                             IN  p.avgPrice = Price /\ p.marketValue = p.qty * Price

LEMMA QuotientOfProduct ==
    ASSUME NEW n \in Nat \ {0}, NEW p \in Int
    PROVE  (n * p) \div n = p
OBVIOUS

LEMMA SumOfProducts ==
    ASSUME NEW m \in Int, NEW n \in Int, NEW p \in Int
    PROVE  m * p + n * p = (m + n) * p
OBVIOUS

LEMMA AbsOfProduct ==
    ASSUME NEW q \in Int, NEW p \in Nat
    PROVE  Abs(q * p) = Abs(q) * p
<1>1. q * p \in Int /\ (q >= 0 => q * p >= 0) /\ (q < 0 => q * p <= 0) /\ (-q) * p = -(q * p)
  OBVIOUS
<1> QED
  BY <1>1 DEF Abs

LEMMA NoGainTimes ==
    ASSUME NEW p \in Int, NEW n \in Int, NEW sign \in Int
    PROVE  (p - p) * n * sign = 0
OBVIOUS

\* At a price that does not move a fill realizes nothing.
LEMMA FillAtPrice ==
    ASSUME NEW pos \in Positions, NEW fill \in Fills, pos.qty # 0 => pos.avgPrice = Price
    PROVE  /\ Realized(pos, fill) = 0
           /\ LET next == FilledPosition(pos, fill)
              IN  next.qty # 0 => next.avgPrice = Price /\ next.lastPrice = Price
<1> DEFINE q == pos.qty
           f == fill.qty
           n == q + Signed(fill)
<1>1. /\ q \in Int /\ f \in Nat /\ fill.price = Price /\ Price \in Nat \ {0}
      /\ Signed(fill) \in Int /\ n \in Int
      /\ \/ Signed(fill) = f
         \/ Signed(fill) = -f
  BY FillType, SignedType, SessionAssumption DEF Positions, Fills, Sides
<1>2. CASE Increases(pos, fill)
  <2>1. Realized(pos, fill) = 0
    BY <1>2 DEF Realized
  <2>2. ASSUME n # 0 PROVE EntryPrice(pos, fill) = Price
    <3>1. (q >= 0 /\ Signed(fill) >= 0) \/ (q <= 0 /\ Signed(fill) <= 0)
      BY <1>1, <1>2, SameSign DEF Increases
    <3>2. Abs(n) = Abs(q) + f /\ Abs(n) \in Nat \ {0} /\ Abs(q) \in Nat
      BY <1>1, <2>2, <3>1 DEF Abs
    <3>3. Abs(q) * pos.avgPrice = Abs(q) * Price
      <4>1. CASE q = 0
        <5>1. Abs(q) = 0 /\ pos.avgPrice \in Int
          BY <4>1 DEF Abs, Positions
        <5> QED
          BY <1>1, <5>1
      <4> QED
        BY <4>1
    <3>4. EntryPrice(pos, fill) = (Abs(q) * pos.avgPrice + f * Price) \div Abs(n)
      BY <1>1, <1>2, <2>2 DEF EntryPrice
    <3>5. Abs(q) * Price + f * Price = Abs(n) * Price
      BY <1>1, <3>2, SumOfProducts
    <3>6. (Abs(n) * Price) \div Abs(n) = Price
      <4> DEFINE size == Abs(n)
      <4>1. size \in Nat \ {0} /\ Price \in Int
        BY <1>1, <3>2
      <4> HIDE DEF size
      <4>2. (size * Price) \div size = Price
        BY <4>1, QuotientOfProduct
      <4> QED
        BY <4>2 DEF size
    <3> HIDE DEF n, q, f
    <3> QED
      BY <3>3, <3>4, <3>5, <3>6
  <2> QED
    BY <1>1, <2>1, <2>2 DEF FilledPosition, Flat
<1>3. CASE ~Increases(pos, fill)
  <2>1. q # 0 /\ pos.avgPrice = Price
    BY <1>1, <1>3 DEF Increases
  <2>2. Realized(pos, fill) = 0
    <3> DEFINE closed == Least(f, Abs(q))
               sign == IF q > 0 THEN 1 ELSE -1
    <3>1. Realized(pos, fill) = (Price - Price) * closed * sign
      BY <1>1, <1>3, <2>1 DEF Realized
    <3>2. closed \in Int /\ sign \in Int
      BY <1>1 DEF Least, Abs
    <3> HIDE DEF closed, sign
    <3> QED
      BY <1>1, <3>1, <3>2, NoGainTimes
  <2>3. EntryPrice(pos, fill) = Price
    BY <1>1, <1>3, <2>1 DEF EntryPrice
  <2> QED
    BY <1>1, <2>2, <2>3 DEF FilledPosition, Flat
<1> QED
  BY <1>2, <1>3

LEMMA SyncAtPrice ==
    ASSUME NEW a \in AnswersOf, NEW equity \in AccountEquities,
           \A s \in Symbols : /\ a.positions[s].avgPrice = Price
                              /\ a.positions[s].marketValue = a.positions[s].qty * Price
    PROVE  AtPriceIn(SyncFromApi(a.positions, equity).positions)
<1> SUFFICES ASSUME NEW s \in Symbols, SyncFromApi(a.positions, equity).positions[s].qty # 0
             PROVE  /\ SyncFromApi(a.positions, equity).positions[s].avgPrice = Price
                    /\ SyncFromApi(a.positions, equity).positions[s].lastPrice = Price
  BY DEF AtPriceIn
<1> DEFINE p == a.positions[s]
           next == SyncFromApi(a.positions, equity).positions[s]
<1>1. p.qty \in Int /\ p.marketValue \in Int /\ p.marketValue # None /\ Price \in Nat \ {0}
  BY NoneAssumption, SessionAssumption DEF AnswersOf
<1>2. p.qty # 0
  BY SyncedType
<1>3. next.avgPrice = p.avgPrice /\ next.lastPrice = Abs(p.marketValue) \div Abs(p.qty)
  BY <1>1, <1>2 DEF SyncFromApi
<1>4. p.avgPrice = Price /\ p.marketValue = p.qty * Price
  OBVIOUS
<1>5. Abs(p.marketValue) = Abs(p.qty) * Price
  <2> HIDE DEF p
  <2> QED
    BY <1>1, <1>4, AbsOfProduct
<1>6. Abs(p.qty) \in Nat \ {0}
  BY <1>1, <1>2, AbsType
<1>7. (Abs(p.qty) * Price) \div Abs(p.qty) = Price
  <2> HIDE DEF p
  <2> QED
    BY <1>1, <1>6, QuotientOfProduct
<1> HIDE DEF p
<1> QED
  BY <1>3, <1>4, <1>5, <1>7

LEMMA TrackFillAtPrice ==
    ASSUME NEW tracker \in Trackers, NEW fill \in Fills, AtPriceIn(tracker.positions)
    PROVE  /\ AtPriceIn(TrackFill(tracker, fill).positions)
           /\ TrackFill(tracker, fill).equity = tracker.equity
           /\ \A s \in Symbols : TrackFill(tracker, fill).positions[s].qty =
                                    tracker.positions[s].qty + Move(fill, s)
<1> DEFINE pos == tracker.positions[fill.symbol]
           next == TrackFill(tracker, fill)
<1>1. fill \in FillRecords /\ fill.symbol \in Symbols
  BY FillType DEF Fills
<1>2. /\ tracker.positions \in [Symbols -> Positions] /\ pos \in Positions
      /\ tracker.equity \in Int
  BY <1>1 DEF Trackers
<1>3. next.positions = [tracker.positions EXCEPT ![fill.symbol] = FilledPosition(pos, fill)]
      /\ next.equity = tracker.equity + Realized(pos, fill)
  BY DEF TrackFill
<1>4. pos.qty # 0 => pos.avgPrice = Price
  BY <1>1 DEF AtPriceIn
<1>5. /\ Realized(pos, fill) = 0
      /\ LET after == FilledPosition(pos, fill)
         IN  after.qty # 0 => after.avgPrice = Price /\ after.lastPrice = Price
  BY <1>2, <1>4, FillAtPrice
<1>6. next.equity = tracker.equity
  BY <1>2, <1>3, <1>5
<1>7. AtPriceIn(next.positions)
  BY <1>1, <1>2, <1>3, <1>5 DEF AtPriceIn
<1>8. \A s \in Symbols : next.positions[s].qty = tracker.positions[s].qty + Move(fill, s)
  <2>1. \A s \in Symbols : tracker.positions[s].qty \in Int
    BY <1>2 DEF Positions
  <2> QED
    BY <1>1, <2>1, TrackFillType DEF Move
<1> QED
  BY <1>6, <1>7, <1>8

LEMMA InitLife == Init => Life /\ AtPrice
<1> SUFFICES ASSUME Init PROVE Life /\ AtPrice
  OBVIOUS
<1>1. \A t \in Tasks : task[t] = "off"
  BY DEF Init
<1>2. Life
  BY <1>1, NoneLeft DEF Init, Life, Tasks, Streams
<1>3. AtPrice
  BY <1>1, NewTrackerType DEF Init, AtPrice, AtPriceIn
<1> QED
  BY <1>2, <1>3

LEMMA NextLife == Typed /\ Life /\ AtPrice /\ [Next]_vars => Life' /\ AtPrice'
<1> SUFFICES ASSUME Typed, Life, AtPrice, [Next]_vars PROVE Life' /\ AtPrice'
  OBVIOUS
<1> USE DEF account, wires, program
<1>1. Streams \subseteq Tasks /\ {"startup", "trading", "data"} = Tasks
  BY DEF Tasks, Streams
<1>2. CASE Start
  <2>1. /\ session'.up /\ updates' = <<>> /\ feed' = <<>> /\ consumer'.at = "listen"
        /\ task' = [t \in Tasks |-> IF t = "startup" THEN "positions" ELSE "off"]
        /\ risk'.tracker = NewTracker
    BY <1>2, NoneLeft DEF Start
  <2>2. Life'
    BY <1>1, <2>1 DEF Life, Streams
  <2>3. AtPrice'
    BY <1>1, <2>1, NewTrackerType DEF AtPrice, AtPriceIn
  <2> QED
    BY <2>2, <2>3
<1>3. ASSUME NEW why, NEW lands \in BOOLEAN, EndSession(why, lands) PROVE Life' /\ AtPrice'
  <2>1. /\ updates' = <<>> /\ feed' = <<>> /\ consumer'.at = "listen"
        /\ \A t \in Tasks : task'[t] = "off"
        /\ risk' = risk
    BY <1>3, NoneLeft DEF EndSession
  <2> QED
    BY <1>1, <2>1 DEF Life, AtPrice
<1>4. ASSUME NEW t \in Tasks, GetPositions(t) PROVE Life' /\ AtPrice'
  <2>1. /\ UNCHANGED <<session, account, wires, consumer, risk>> /\ task[t] = "positions"
        /\ task' = [task EXCEPT ![t] = "account"]
    BY <1>4 DEF GetPositions
  <2>2. Life'
    BY <1>1, <2>1 DEF Life, Typed
  <2>3. /\ answer'[t].positions = [s \in Symbols |-> [qty |-> shares[s], avgPrice |-> Price,
                                                     marketValue |-> shares[s] * Price]]
        /\ \A u \in Tasks \ {t} : answer'[u] = answer[u]
    BY <1>4 DEF GetPositions, Typed
  <2>4. \A s \in Symbols : /\ answer'[t].positions[s].avgPrice = Price
                           /\ answer'[t].positions[s].marketValue
                                = answer'[t].positions[s].qty * Price
    BY <2>3
  <2>5. AtPrice'
    BY <2>1, <2>3, <2>4 DEF AtPrice, Typed
  <2> QED
    BY <2>2, <2>5
<1>5. ASSUME NEW t \in Tasks, NEW equity \in AccountEquities, SyncTracker(t, equity)
      PROVE  Life' /\ AtPrice'
  <2>1. /\ UNCHANGED <<session, account, wires, consumer>> /\ task[t] = "account"
        /\ risk' = [risk EXCEPT !.tracker = SyncFromApi(answer[t].positions, equity)]
        /\ answer' = [answer EXCEPT ![t] = None]
        /\ task' = IF t = "startup"
                   THEN [startup |-> "done", trading |-> "positions", data |-> "positions"]
                   ELSE [task EXCEPT ![t] = "connecting"]
    BY <1>5 DEF SyncTracker
  <2>2. answer[t] \in AnswersOf
    BY <2>1 DEF Typed
  <2>3. risk'.tracker = SyncFromApi(answer[t].positions, equity)
    <3>1. risk = [tracker |-> risk.tracker, breaker |-> risk.breaker]
      BY DEF Typed
    <3> QED
      BY <2>1, <3>1
  <2>4. risk'.tracker.equity \in AccountEquities
    BY <2>2, <2>3, SyncedType
  <2>5. CASE t = "startup"
    <3>1. /\ task'["startup"] = "done" /\ task'["trading"] = "positions"
          /\ task'["data"] = "positions" /\ session.up /\ updates = <<>>
      BY <1>1, <2>1, <2>5 DEF Life
    <3>2. Life'
      BY <1>1, <2>1, <2>4, <3>1 DEF Life
    <3> QED
      BY <1>1, <2>1, <3>1, <3>2, <2>2, <2>3, SyncAtPrice DEF AtPrice
  <2>6. CASE t # "startup"
    <3>1. /\ \A u \in Tasks : task'[u] = IF u = t THEN "connecting" ELSE task[u]
          /\ \A u \in Tasks \ {t} : answer'[u] = answer[u]
      BY <2>1, <2>6 DEF Typed
    <3>2. task["startup"] = "done" /\ t \in Streams
      BY <1>1, <2>1, <2>6 DEF Life, Streams
    <3>3. Life'
      BY <1>1, <2>1, <2>4, <3>1, <3>2 DEF Life, Streams
    <3>4. AtPriceIn(risk'.tracker.positions)
      BY <2>1, <2>2, <2>3, SyncAtPrice DEF AtPrice
    <3>5. AtPrice'
      BY <3>1, <3>4 DEF AtPrice
    <3> QED
      BY <3>3, <3>5
  <2> QED
    BY <2>5, <2>6
<1>6. ASSUME NEW t \in Streams, Connect(t) \/ Drop(t) \/ Reconnect(t) PROVE Life' /\ AtPrice'
  <2>1. /\ UNCHANGED <<session, account, feed, consumer, risk>>
        /\ \E place \in {"up", "backoff", "positions"} : task' = [task EXCEPT ![t] = place]
        /\ updates' = updates \/ updates' = <<>>
        /\ task[t] # "off"
        /\ task[t] = "up" => updates' = IF t = "trading" THEN <<>> ELSE updates
    BY <1>6 DEF Connect, Drop, Reconnect
  <2>2. /\ \A u \in Tasks \ {t} : task'[u] = task[u] /\ answer'[u] = answer[u]
        /\ task'[t] \in {"up", "backoff", "positions"}
    BY <1>1, <1>6 DEF Connect, Drop, Reconnect, Typed
  <2>3. task["startup"] = "done" /\ t # "startup"
    BY <2>1 DEF Life, Streams
  <2>4. task'["trading"] # "up" => updates' = <<>>
    BY <1>1, <2>1, <2>2 DEF Life
  <2>5. Life'
    BY <1>1, <2>1, <2>2, <2>3, <2>4 DEF Life, Streams
  <2>6. AtPrice'
    BY <1>1, <2>1, <2>2 DEF AtPrice
  <2> QED
    BY <2>5, <2>6
<1>7. CASE DeliverFill
  <2>1. UNCHANGED <<session, account, feed, published, task, answer, consumer>>
        /\ updates # <<>> /\ risk' = RiskOnFill(risk, Head(updates))
    BY <1>7 DEF DeliverFill
  <2>2. Head(updates) \in Fills /\ risk.tracker \in Trackers
    BY <2>1 DEF Typed
  <2>3. risk'.tracker = TrackFill(risk.tracker, Head(updates))
    BY <2>1 DEF RiskOnFill
  <2>4. risk'.tracker.equity = risk.tracker.equity /\ AtPriceIn(risk'.tracker.positions)
    BY <2>2, <2>3, TrackFillAtPrice DEF AtPrice
  <2>5. task["trading"] = "up" /\ task["startup"] = "done"
    BY <2>1 DEF Life
  <2> QED
    BY <2>1, <2>4, <2>5 DEF Life, AtPrice
<1>8. ASSUME NEW reading \in Readings,
             ConsumeBar(reading) \/ \E equity \in AccountEquities : OpenDay(equity, reading)
      PROVE  Life' /\ AtPrice'
  <2>1. UNCHANGED <<session, account, updates, published, task, answer>>
        /\ risk'.tracker = risk.tracker /\ (feed # <<>> \/ consumer.at = "account")
    BY <1>8 DEF ConsumeBar, OpenDay, RiskOnNewDay
  <2>2. task["startup"] = "done"
    BY <2>1 DEF Life
  <2> QED
    BY <2>1, <2>2 DEF Life, AtPrice
<1>9. CASE ConsumeFirstBarOfDay
  <2>1. UNCHANGED <<session, account, updates, published, task, answer, risk, strategy>>
        /\ feed # <<>>
    BY <1>9 DEF ConsumeFirstBarOfDay
  <2>2. task["startup"] = "done"
    BY <2>1 DEF Life
  <2> QED
    BY <2>1, <2>2 DEF Life, AtPrice
<1>10. CASE OrderAccepted
  <2>1. UNCHANGED <<session, wires, task, answer, risk>> /\ consumer.at = "submit"
    BY <1>10 DEF OrderAccepted
  <2>2. task["startup"] = "done"
    BY <2>1 DEF Life
  <2> QED
    BY <2>1, <2>2 DEF Life, AtPrice
<1>11. CASE BrokerMoves
  <2>1. UNCHANGED <<session, feed, task, answer, consumer, risk>>
        /\ (task["trading"] # "up" => updates' = updates)
    BY <1>11 DEF BrokerMoves, Lapse, Execute
  <2>2. task["trading"] = "up" => task["startup"] = "done"
    BY DEF Life, Streams
  <2> QED
    BY <2>1, <2>2 DEF Life, AtPrice
<1>12. ASSUME NEW s \in Symbols, NEW day \in 1..MaxDays, PublishBar(s, day)
       PROVE  Life' /\ AtPrice'
  <2>1. UNCHANGED <<session, account, updates, task, answer, consumer, risk>>
        /\ task["data"] = "up"
    BY <1>12 DEF PublishBar
  <2>2. task["startup"] = "done"
    BY <2>1 DEF Life, Streams
  <2> QED
    BY <2>1, <2>2 DEF Life, AtPrice
<1>13. CASE UNCHANGED vars
  BY <1>13 DEF vars, Life, AtPrice
<1> QED
  BY <1>1, <1>2, <1>3, <1>4, <1>5, <1>6, <1>7, <1>8, <1>9, <1>10, <1>11, <1>12, <1>13
  DEF Next, StopSignal, UncaughtFailure

----------------------------------------------------------------------------
\* What an answer in a resync's hands still says.  Since it was given there were
\* some executions; while their fills are all on the wire they are its last ones,
\* and the answer with them is the account.

Since(t) == executed - answer[t].executed

AnswersExact ==
    \A t \in Tasks : task[t] = "account" =>
        /\ Since(t) \in Nat
        /\ Since(t) <= Len(updates) =>
              \A s \in Symbols :
                  answer[t].positions[s].qty + OnTheWire(s)
                      - FirstMoves(updates, s, Len(updates) - Since(t)) = shares[s]

Books == AnswersExact /\ TrackerExactUnlessRaced

SessionInv == Typed /\ Life /\ AtPrice /\ Books

\* With nothing on the wire.
LEMMA EmptyWire ==
    ASSUME updates = <<>>
    PROVE  Len(updates) = 0 /\ \A s \in Symbols : OnTheWire(s) = 0
<1>1. updates \in Seq(Fills) /\ Len(updates) = 0
  OBVIOUS
<1> QED
  BY <1>1, WireIsFirstMoves, NoMoves

LEMMA WireType ==
    ASSUME Typed, NEW s \in Symbols
    PROVE  /\ Len(updates) \in Nat /\ OnTheWire(s) \in Int /\ shares[s] \in Int
           /\ risk.tracker.positions[s].qty \in Int
<1>1. /\ updates \in Seq(Fills) /\ shares \in [Symbols -> Int]
      /\ risk.tracker.positions[s] \in Positions
  BY DEF Typed, Trackers
<1>2. Len(updates) \in Nat /\ OnTheWire(s) = FirstMoves(updates, s, Len(updates))
  BY <1>1, WireIsFirstMoves
<1> QED
  BY <1>1, <1>2, MovesType DEF Positions

LEMMA AnswerQty ==
    ASSUME Typed, NEW t \in Tasks, task[t] = "account"
    PROVE  answer[t].executed \in Nat /\ \A s \in Symbols : answer[t].positions[s].qty \in Int
BY DEF Typed, AnswersOf

\* A fill delivered leaves the wire for the tracker.
LEMMA DeliverBooks ==
    ASSUME Typed, Life, AtPrice, Books, DeliverFill PROVE Books'
<1> DEFINE fill == Head(updates)
           rest == Tail(updates)
<1>1. /\ UNCHANGED <<shares, executed, task, answer, trusted>> /\ updates # <<>>
      /\ updates' = rest /\ risk' = RiskOnFill(risk, fill)
  BY DEF DeliverFill, account
<1>2. updates \in Seq(Fills) /\ fill \in Fills /\ rest \in Seq(Fills)
      /\ Len(rest) = Len(updates) - 1 /\ Len(updates) \in Nat \ {0}
  BY <1>1 DEF Typed
<1>3. ASSUME NEW s \in Symbols, NEW n \in 1..Len(updates)
      PROVE  FirstMoves(updates, s, n) = Move(fill, s) + FirstMoves(rest, s, n - 1)
  BY <1>1, <1>2, MovesOfTail
<1>4. ASSUME NEW s \in Symbols
      PROVE  /\ OnTheWire(s) = Move(fill, s) + OnTheWire(s)'
             /\ Move(fill, s) \in Int /\ OnTheWire(s)' \in Int /\ OnTheWire(s) \in Int
  <2>1. OnTheWire(s) = FirstMoves(updates, s, Len(updates))
    BY <1>2, WireIsFirstMoves
  <2>2. OnTheWire(s)' = FirstMoves(rest, s, Len(rest))
    <3>1. updates' = rest /\ updates' \in Seq(Fills)
      BY <1>1, <1>2
    <3>2. OnTheWire(s)' = FirstMoves(updates', s, Len(updates'))
      BY <3>1, NextWireIsFirstMoves
    <3> QED
      BY <3>1, <3>2
  <2>3. FirstMoves(updates, s, Len(updates)) = Move(fill, s) + FirstMoves(rest, s, Len(updates) - 1)
    BY <1>2, <1>3
  <2>4. Move(fill, s) \in Int /\ FirstMoves(rest, s, Len(rest)) \in Int
    <3> HIDE DEF fill, rest
    <3>1. Move(fill, s) \in Int
      BY <1>2, FillType
    <3>2. Len(rest) \in 0..Len(rest)
      BY <1>2
    <3> QED
      BY <1>2, <3>1, <3>2, MovesType
  <2> QED
    BY <1>2, <2>1, <2>2, <2>3, <2>4
<1> HIDE DEF fill, rest
<1>5. AnswersExact'
  <2> SUFFICES ASSUME NEW t \in Tasks, task'[t] = "account"
               PROVE  /\ Since(t)' \in Nat
                      /\ Since(t)' <= Len(rest) =>
                           \A s \in Symbols :
                               answer'[t].positions[s].qty + OnTheWire(s)'
                                   - FirstMoves(rest, s, Len(rest) - Since(t)') = shares'[s]
    BY <1>1 DEF AnswersExact, FirstMoves, Moves
  <2>1. Since(t)' = Since(t) /\ Since(t) \in Nat /\ task[t] = "account"
    BY <1>1 DEF Books, AnswersExact, Since
  <2>2. ASSUME Since(t) <= Len(rest), NEW s \in Symbols
        PROVE  answer[t].positions[s].qty + OnTheWire(s)'
                   - FirstMoves(rest, s, Len(rest) - Since(t)) = shares[s]
    <3> DEFINE n == Len(updates) - Since(t)
    <3>1. n \in 1..Len(updates) /\ n - 1 = Len(rest) - Since(t) /\ Since(t) <= Len(updates)
          /\ n - 1 \in 0..Len(rest)
      BY <1>2, <2>1, <2>2
    <3>2. answer[t].positions[s].qty + OnTheWire(s) - FirstMoves(updates, s, n) = shares[s]
      BY <2>1, <3>1 DEF Books, AnswersExact
    <3>3. FirstMoves(updates, s, n) = Move(fill, s) + FirstMoves(rest, s, n - 1)
      BY <1>3, <3>1
    <3>4. FirstMoves(rest, s, n - 1) \in Int
      BY <1>2, <3>1, MovesType
    <3>5. answer[t].positions[s].qty \in Int
      BY <2>1, AnswerQty
    <3> HIDE DEF n
    <3>6. answer[t].positions[s].qty + OnTheWire(s)' - FirstMoves(rest, s, n - 1) = shares[s]
      BY <1>4, <3>2, <3>3, <3>4, <3>5
    <3> QED
      BY <3>1, <3>6
  <2> QED
    BY <1>1, <2>1, <2>2
<1>6. TrackerExactUnlessRaced'
  <2> SUFFICES ASSUME trusted, NEW s \in Symbols
               PROVE  risk'.tracker.positions[s].qty + OnTheWire(s)' = shares[s]
    BY <1>1 DEF TrackerExactUnlessRaced
  <2>1. risk'.tracker = TrackFill(risk.tracker, fill)
    BY <1>1 DEF RiskOnFill
  <2>2. risk'.tracker.positions[s].qty = risk.tracker.positions[s].qty + Move(fill, s)
    BY <1>2, <2>1, TrackFillAtPrice DEF Typed, AtPrice
  <2>3. risk.tracker.positions[s].qty + OnTheWire(s) = shares[s]
    BY DEF Books, TrackerExactUnlessRaced
  <2>4. /\ OnTheWire(s) = Move(fill, s) + OnTheWire(s)'
        /\ Move(fill, s) \in Int /\ OnTheWire(s)' \in Int
    BY <1>4
  <2>5. risk.tracker.positions[s].qty \in Int /\ shares[s] \in Int
    BY WireType
  <2> QED
    BY <2>2, <2>3, <2>4, <2>5
<1> QED
  BY <1>5, <1>6 DEF Books

\* An execution goes to the account and, while the stream is up, to the wire.
LEMMA ExecuteBooks ==
    ASSUME Typed, Life, Books, NEW z \in Symbols, NEW i \in DOMAIN open[z],
           NEW qty \in 1..open[z][i].qty, Execute(z, i, qty)
    PROVE  Books'
<1>1. PICK fill \in Fills :
        /\ executed' = executed + 1
        /\ \A s \in Symbols : shares'[s] = shares[s] + Move(fill, s)
        /\ updates' = IF task["trading"] = "up" THEN Append(updates, fill) ELSE updates
  BY ExecuteType
<1>2. UNCHANGED <<task, answer, risk>> /\ trusted' = (trusted /\ task["trading"] = "up")
  BY DEF Execute, program
<1>3. updates \in Seq(Fills) /\ Len(updates) \in Nat /\ executed \in Nat
  BY DEF Typed
<1>4. \A t \in Tasks : task[t] = "account" =>
        Since(t) \in Nat /\ Since(t)' = Since(t) + 1
  <2>1. \A t \in Tasks : task[t] = "account" => Since(t) \in Nat /\ answer[t].executed \in Nat
    BY AnswerQty DEF Books, AnswersExact
  <2> QED
    BY <1>1, <1>2, <1>3, <2>1, SMTT(20) DEF Since
<1>5. CASE task["trading"] # "up"
  <2>1. updates' = <<>> /\ ~trusted' /\ Len(updates') = 0
    BY <1>1, <1>2, <1>5 DEF Life
  <2>2. \A t \in Tasks : task[t] = "account" => ~(Since(t)' <= Len(updates')) /\ Since(t)' \in Nat
    BY <1>4, <2>1
  <2> QED
    BY <1>2, <2>1, <2>2 DEF Books, AnswersExact, TrackerExactUnlessRaced
<1>6. CASE task["trading"] = "up"
  <2> DEFINE more == Append(updates, fill)
             n == Len(updates)
  <2>1. updates' = more /\ more \in Seq(Fills) /\ Len(more) = n + 1
    BY <1>1, <1>3, <1>6
  <2>2. ASSUME NEW s \in Symbols
        PROVE  /\ OnTheWire(s)' = OnTheWire(s) + Move(fill, s)
               /\ OnTheWire(s) \in Int /\ Move(fill, s) \in Int
               /\ \A m \in 0..n : FirstMoves(more, s, m) = FirstMoves(updates, s, m)
    <3>1. OnTheWire(s) = FirstMoves(updates, s, n)
      BY <1>3, WireIsFirstMoves
    <3>2. OnTheWire(s)' = FirstMoves(more, s, n + 1)
      <4>1. OnTheWire(s)' = FirstMoves(updates', s, Len(updates'))
        BY <2>1, NextWireIsFirstMoves
      <4> QED
        BY <2>1, <4>1
    <3>3. Move(fill, s) \in Int /\ FirstMoves(updates, s, n) \in Int
      BY <1>3, FillType, MovesType
    <3> QED
      BY <1>3, <3>1, <3>2, <3>3, MovesOfAppend
  <2> HIDE DEF more
  <2>3. AnswersExact'
    <3> SUFFICES ASSUME NEW t \in Tasks, task[t] = "account"
                 PROVE  /\ Since(t)' \in Nat
                        /\ Since(t)' <= n + 1 =>
                             \A s \in Symbols :
                                 answer[t].positions[s].qty + OnTheWire(s)'
                                     - FirstMoves(more, s, (n + 1) - Since(t)') = shares'[s]
      BY <1>2, <2>1 DEF AnswersExact, FirstMoves, Moves
    <3>1. Since(t) \in Nat /\ Since(t)' = Since(t) + 1
      BY <1>4
    <3>2. ASSUME Since(t)' <= n + 1, NEW s \in Symbols
          PROVE  answer[t].positions[s].qty + OnTheWire(s)'
                     - FirstMoves(more, s, (n + 1) - Since(t)') = shares'[s]
      <4> DEFINE m == n - Since(t)
      <4>1. m \in 0..n /\ (n + 1) - Since(t)' = m /\ Since(t) <= n
        BY <1>3, <3>1, <3>2
      <4>2. answer[t].positions[s].qty + OnTheWire(s) - FirstMoves(updates, s, m) = shares[s]
        BY <4>1 DEF Books, AnswersExact
      <4>3. FirstMoves(more, s, m) = FirstMoves(updates, s, m) /\ FirstMoves(updates, s, m) \in Int
        BY <1>3, <2>2, <4>1, MovesType
      <4>4. answer[t].positions[s].qty \in Int /\ shares'[s] = shares[s] + Move(fill, s)
        BY <1>1, AnswerQty
      <4> HIDE DEF m
      <4>5. answer[t].positions[s].qty + OnTheWire(s)' - FirstMoves(more, s, m) = shares'[s]
        BY <2>2, <4>2, <4>3, <4>4
      <4> QED
        BY <4>1, <4>5
    <3> QED
      BY <3>1, <3>2
  <2>4. TrackerExactUnlessRaced'
    <3> SUFFICES ASSUME trusted, NEW s \in Symbols
                 PROVE  risk.tracker.positions[s].qty + OnTheWire(s)' = shares'[s]
      BY <1>2 DEF TrackerExactUnlessRaced
    <3>1. risk.tracker.positions[s].qty + OnTheWire(s) = shares[s]
      BY DEF Books, TrackerExactUnlessRaced
    <3>2. /\ OnTheWire(s)' = OnTheWire(s) + Move(fill, s) /\ shares'[s] = shares[s] + Move(fill, s)
          /\ OnTheWire(s) \in Int /\ Move(fill, s) \in Int
      BY <1>1, <2>2
    <3>3. risk.tracker.positions[s].qty \in Int /\ shares[s] \in Int
      BY WireType
    <3> QED
      BY <3>1, <3>2, <3>3
  <2> QED
    BY <2>3, <2>4 DEF Books
<1> QED
  BY <1>5, <1>6

\* Where nothing is executed and the wire stays, answers stay exact.
LEMMA KeepsBooks ==
    ASSUME Books, UNCHANGED <<shares, executed, updates>>,
           risk'.tracker = risk.tracker, trusted' => trusted,
           \A t \in Tasks : task'[t] = "account" => task[t] = "account" /\ answer'[t] = answer[t]
    PROVE  Books'
<1>1. \A s \in Symbols : OnTheWire(s)' = OnTheWire(s)
  BY DEF OnTheWire
<1>2. TrackerExactUnlessRaced'
  BY <1>1 DEF Books, TrackerExactUnlessRaced
<1>3. ASSUME NEW t \in Tasks, task'[t] = "account"
      PROVE  /\ Since(t)' \in Nat
             /\ Since(t)' <= Len(updates) =>
                   \A s \in Symbols :
                       answer'[t].positions[s].qty + OnTheWire(s)'
                           - FirstMoves(updates, s, Len(updates) - Since(t)') = shares[s]
  <2>1. Since(t)' = Since(t) /\ answer'[t] = answer[t] /\ task[t] = "account"
    BY <1>3 DEF Since
  <2> QED
    BY <1>1, <2>1 DEF Books, AnswersExact
<1> QED
  BY <1>2, <1>3 DEF Books, AnswersExact, FirstMoves, Moves

LEMMA NextBooks == Typed /\ Life /\ AtPrice /\ Books /\ [Next]_vars => Books'
<1> SUFFICES ASSUME Typed, Life, AtPrice, Books, [Next]_vars PROVE Books'
  OBVIOUS
<1> USE DEF account, wires, program
<1>1. ASSUME ~trusted', \A t \in Tasks : task'[t] # "account" PROVE Books'
  BY <1>1 DEF Books, AnswersExact, TrackerExactUnlessRaced
<1>2. CASE Start
  BY <1>1, <1>2 DEF Start
<1>3. ASSUME NEW why, NEW lands \in BOOLEAN, EndSession(why, lands) PROVE Books'
  BY <1>1, <1>3 DEF EndSession
<1>4. ASSUME NEW t \in Tasks, GetPositions(t) PROVE Books'
  <2>1. /\ UNCHANGED <<shares, executed, updates, risk, trusted>>
        /\ task' = [task EXCEPT ![t] = "account"]
        /\ answer' = [answer EXCEPT ![t] =
             [positions |-> [s \in Symbols |-> [qty |-> shares[s], avgPrice |-> Price,
                                                marketValue |-> shares[s] * Price]],
              executed |-> executed]]
    BY <1>4 DEF GetPositions
  <2>2. /\ \A u \in Tasks \ {t} : task'[u] = task[u] /\ answer'[u] = answer[u]
        /\ answer'[t].executed = executed
        /\ \A s \in Symbols : answer'[t].positions[s].qty = shares[s]
    BY <2>1 DEF Typed
  <2>3. \A s \in Symbols : OnTheWire(s)' = OnTheWire(s)
    BY <2>1 DEF OnTheWire
  <2>4. TrackerExactUnlessRaced'
    BY <2>1, <2>3 DEF Books, TrackerExactUnlessRaced
  <2>5. ASSUME NEW u \in Tasks, task'[u] = "account"
        PROVE  /\ Since(u)' \in Nat
               /\ Since(u)' <= Len(updates) =>
                     \A s \in Symbols :
                         answer'[u].positions[s].qty + OnTheWire(s)'
                             - FirstMoves(updates, s, Len(updates) - Since(u)') = shares[s]
    <3>1. CASE u # t
      <4>1. Since(u)' = Since(u) /\ answer'[u] = answer[u] /\ task[u] = "account"
        BY <2>1, <2>2, <2>5, <3>1 DEF Since
      <4> QED
        BY <2>3, <4>1 DEF Books, AnswersExact
    <3>2. CASE u = t
      <4>1. Since(u)' = 0 /\ Len(updates) - Since(u)' = Len(updates) /\ updates \in Seq(Fills)
        BY <2>1, <2>2, <3>2 DEF Since, Typed
      <4>2. \A s \in Symbols : OnTheWire(s)' = FirstMoves(updates, s, Len(updates))
        BY <2>3, <4>1, WireIsFirstMoves
      <4>3. \A s \in Symbols : OnTheWire(s) \in Int /\ shares[s] \in Int
        BY WireType
      <4> QED
        BY <2>2, <2>3, <3>2, <4>1, <4>2, <4>3
    <3> QED
      BY <3>1, <3>2
  <2> QED
    BY <2>1, <2>4, <2>5 DEF Books, AnswersExact, FirstMoves, Moves
<1>5. ASSUME NEW t \in Tasks, NEW equity \in AccountEquities, SyncTracker(t, equity)
      PROVE  Books'
  <2>1. /\ UNCHANGED <<shares, executed, updates>> /\ task[t] = "account"
        /\ risk' = [risk EXCEPT !.tracker = SyncFromApi(answer[t].positions, equity)]
        /\ trusted' = (answer[t].executed = executed - Len(updates))
        /\ answer' = [answer EXCEPT ![t] = None]
        /\ task' = IF t = "startup"
                   THEN [startup |-> "done", trading |-> "positions", data |-> "positions"]
                   ELSE [task EXCEPT ![t] = "connecting"]
    BY <1>5 DEF SyncTracker
  <2>2. answer[t] \in AnswersOf
    BY <2>1 DEF Typed
  <2>3. risk'.tracker = SyncFromApi(answer[t].positions, equity)
    <3>1. risk = [tracker |-> risk.tracker, breaker |-> risk.breaker]
      BY DEF Typed
    <3> QED
      BY <2>1, <3>1
  <2>4. \A u \in Tasks : task'[u] = "account" => task[u] = "account" /\ answer'[u] = answer[u]
    BY <2>1 DEF Typed, Tasks, Streams
  <2>5. \A s \in Symbols : OnTheWire(s)' = OnTheWire(s)
    BY <2>1 DEF OnTheWire
  <2>6. TrackerExactUnlessRaced'
    <3> SUFFICES ASSUME trusted', NEW s \in Symbols
                 PROVE  risk'.tracker.positions[s].qty + OnTheWire(s) = shares[s]
      BY <2>1, <2>5 DEF TrackerExactUnlessRaced
    <3>1. Len(updates) \in Nat /\ executed \in Nat /\ answer[t].executed \in Nat
      BY <2>2 DEF Typed, AnswersOf
    <3>2. answer[t].executed = executed - Len(updates)
      BY <2>1
    <3>3. Since(t) = Len(updates) /\ Len(updates) - Since(t) = 0 /\ Since(t) <= Len(updates)
      BY <3>1, <3>2 DEF Since
    <3>4. answer[t].positions[s].qty + OnTheWire(s) - FirstMoves(updates, s, 0) = shares[s]
      BY <2>1, <3>3 DEF Books, AnswersExact
    <3>5. risk'.tracker.positions[s].qty = answer[t].positions[s].qty
      BY <2>2, <2>3, SyncedType
    <3>6. FirstMoves(updates, s, 0) = 0 /\ answer[t].positions[s].qty \in Int /\ OnTheWire(s) \in Int
      BY <2>1, NoMoves, AnswerQty, WireType
    <3> QED
      BY <3>4, <3>5, <3>6
  <2>7. ASSUME NEW u \in Tasks, task'[u] = "account"
        PROVE  /\ Since(u)' \in Nat
               /\ Since(u)' <= Len(updates) =>
                     \A s \in Symbols :
                         answer'[u].positions[s].qty + OnTheWire(s)'
                             - FirstMoves(updates, s, Len(updates) - Since(u)') = shares[s]
    <3>1. Since(u)' = Since(u) /\ answer'[u] = answer[u] /\ task[u] = "account"
      BY <2>1, <2>4, <2>7 DEF Since
    <3> QED
      BY <2>5, <3>1 DEF Books, AnswersExact
  <2> QED
    BY <2>1, <2>6, <2>7 DEF Books, AnswersExact, FirstMoves, Moves
<1>6. ASSUME NEW t \in Streams, Connect(t) \/ Drop(t) \/ Reconnect(t) PROVE Books'
  <2>1. /\ UNCHANGED <<shares, executed, risk>> /\ t \in Tasks
        /\ \A u \in Tasks : task'[u] = "account" => task[u] = "account" /\ answer'[u] = answer[u]
    BY <1>6 DEF Connect, Drop, Reconnect, Typed, Tasks
  <2>2. CASE updates' = updates
    <3>1. trusted' => trusted
      BY <1>6 DEF Connect, Drop, Reconnect
    <3> QED
      BY <2>1, <2>2, <3>1, KeepsBooks
  <2>3. CASE updates' # updates
    <3>1. updates' = <<>> /\ updates # <<>> /\ ~trusted'
      BY <1>6, <2>3 DEF Connect, Drop, Reconnect
    <3>2. TrackerExactUnlessRaced'
      BY <3>1 DEF TrackerExactUnlessRaced
    <3>3. /\ Len(updates') = 0 /\ \A s \in Symbols : OnTheWire(s)' = 0
          /\ \A s \in Symbols, n \in Int : n = 0 => FirstMoves(updates', s, n) = 0
      <4>1. Len(updates') = 0 /\ updates' \in Seq(Fills)
        BY <3>1
      <4> QED
        BY <4>1, NextWireIsFirstMoves, NoMoves
    <3>4. ASSUME NEW u \in Tasks, task'[u] = "account"
          PROVE  /\ Since(u)' \in Nat
                 /\ Since(u)' <= 0 =>
                       \A s \in Symbols :
                           answer'[u].positions[s].qty + OnTheWire(s)'
                               - FirstMoves(updates', s, 0 - Since(u)') = shares[s]
      <4>1. Since(u)' = Since(u) /\ answer'[u] = answer[u] /\ task[u] = "account"
            /\ Since(u) \in Nat
        BY <2>1, <3>4 DEF Since, Books, AnswersExact
      <4>2. ASSUME Since(u) <= 0, NEW s \in Symbols
            PROVE  answer[u].positions[s].qty = shares[s]
        <5>1. Since(u) = 0 /\ updates \in Seq(Fills) /\ Len(updates) \in Nat
              /\ Since(u) <= Len(updates) /\ Len(updates) - Since(u) = Len(updates)
          BY <4>1, <4>2 DEF Typed
        <5>2. answer[u].positions[s].qty + OnTheWire(s) - FirstMoves(updates, s, Len(updates))
                = shares[s]
          BY <4>1, <5>1 DEF Books, AnswersExact
        <5>3. OnTheWire(s) = FirstMoves(updates, s, Len(updates)) /\ OnTheWire(s) \in Int
              /\ answer[u].positions[s].qty \in Int
          BY <4>1, <5>1, WireIsFirstMoves, WireType, AnswerQty
        <5> QED
          BY <5>2, <5>3
      <4>3. \A s \in Symbols : shares[s] \in Int
        BY WireType
      <4>4. Since(u) <= 0 => 0 - Since(u) = 0
        BY <4>1
      <4> QED
        BY <3>3, <4>1, <4>2, <4>3, <4>4
    <3> QED
      BY <2>1, <3>2, <3>3, <3>4 DEF Books, AnswersExact, FirstMoves, Moves
  <2> QED
    BY <2>2, <2>3
<1>7. CASE DeliverFill
  BY <1>7, DeliverBooks
<1>8. ASSUME NEW reading \in Readings,
             ConsumeBar(reading) \/ \E equity \in AccountEquities : OpenDay(equity, reading)
      PROVE  Books'
  <2>1. UNCHANGED <<shares, executed, updates, task, answer, trusted>>
        /\ risk'.tracker = risk.tracker
    BY <1>8 DEF ConsumeBar, OpenDay, RiskOnNewDay
  <2> QED
    BY <2>1, KeepsBooks
<1>9. CASE ConsumeFirstBarOfDay \/ OrderAccepted \/ UNCHANGED vars
  <2>1. UNCHANGED <<shares, executed, updates, task, answer, risk, trusted>>
    BY <1>9 DEF ConsumeFirstBarOfDay, OrderAccepted, vars
  <2> QED
    BY <2>1, KeepsBooks
<1>10. CASE BrokerMoves
  <2>1. PICK s \in Symbols : \E i \in DOMAIN open[s] :
          Lapse(s, i) \/ \E qty \in 1..open[s][i].qty : Execute(s, i, qty)
    BY <1>10 DEF BrokerMoves
  <2>2. PICK i \in DOMAIN open[s] :
          Lapse(s, i) \/ \E qty \in 1..open[s][i].qty : Execute(s, i, qty)
    BY <2>1
  <2>3. CASE Lapse(s, i)
    <3>1. UNCHANGED <<shares, executed, updates, task, answer, risk, trusted>>
      BY <2>3 DEF Lapse
    <3> QED
      BY <3>1, KeepsBooks
  <2>4. ASSUME NEW qty \in 1..open[s][i].qty, Execute(s, i, qty) PROVE Books'
    BY <2>4, ExecuteBooks
  <2> QED
    BY <2>2, <2>3, <2>4
<1>11. ASSUME NEW s \in Symbols, NEW day \in 1..MaxDays, PublishBar(s, day) PROVE Books'
  <2>1. UNCHANGED <<shares, executed, updates, task, answer, risk, trusted>>
    BY <1>11 DEF PublishBar
  <2> QED
    BY <2>1, KeepsBooks
<1> QED
  BY <1>2, <1>3, <1>4, <1>5, <1>6, <1>7, <1>8, <1>9, <1>10, <1>11
  DEF Next, StopSignal, UncaughtFailure

LEMMA SessionInvHolds == Spec => []SessionInv
<1>1. Init => SessionInv
  <2>1. Init => \A t \in Tasks : task[t] # "account"
    BY DEF Init
  <2>2. Init => Books
    BY <2>1 DEF Init, Books, AnswersExact, TrackerExactUnlessRaced
  <2> QED
    BY <2>2, InitTyped, InitLife DEF SessionInv
<1>2. SessionInv /\ [Next]_vars => SessionInv'
  BY NextTyped, NextLife, NextBooks DEF SessionInv
<1> QED
  BY <1>1, <1>2, PTL DEF Spec

\* exposure_tracker.py:3-6: in every session, through any interleaving of fills, bars,
\* drops, resyncs and restarts, a tracker whose last sync was not raced shows the
\* account once the fills on the wire are counted.
THEOREM TrackerAlwaysExactUnlessRaced == Spec => []TrackerExactUnlessRaced
<1>1. SessionInv => TrackerExactUnlessRaced
  BY DEF SessionInv, Books
<1> QED
  BY <1>1, SessionInvHolds, PTL

\* run_paper.py:137: in every session, no event is waiting or being handled before
\* the positions are synced, and the books stay those of an answer of the account.
THEOREM AlwaysSyncedFirst == Spec => []SyncedBeforeFirstEvent
<1>1. SessionInv => SyncedBeforeFirstEvent
  BY DEF SessionInv, Life, SyncedBeforeFirstEvent
<1> QED
  BY <1>1, SessionInvHolds, PTL

\* Admissible() reads the tracker and whether trading is halted.
LEMMA AdmissibleBooks ==
    ASSUME NEW r, NEW q, NEW intent, NEW qty, Admissible(r, intent, qty),
           r.tracker = q.tracker, r.breaker.halted = q.breaker.halted
    PROVE  Admissible(q, intent, qty)
BY DEF Admissible

\* An order goes to the broker only when a bar has just been decided, on the
\* tracker as it is.
LEMMA SentIsDecided ==
    ASSUME SessionInv, [Next]_vars, consumer.at # "submit", consumer'.at = "submit"
    PROVE  \E bar \in FeedBars, reading \in Readings, today \in 0..MaxDays :
              /\ DecideBar(bar, reading, risk'.breaker, today)
              /\ risk'.tracker = risk.tracker /\ (feed # <<>> \/ consumer.at # "listen")
<1> USE DEF account, wires, program
<1>1. \/ \E reading \in Readings :
           ConsumeBar(reading) \/ \E equity \in AccountEquities : OpenDay(equity, reading)
      \/ consumer' = consumer \/ consumer'.at # "submit"
  <2>1. IdleConsumer.at # "submit" /\ \A day : [IdleConsumer EXCEPT !.day = day].at # "submit"
    BY DEF IdleConsumer
  <2>2. (StopSignal \/ UncaughtFailure \/ Start) => consumer'.at # "submit"
    BY <2>1 DEF StopSignal, UncaughtFailure, EndSession, Start
  <2>3. ConsumeFirstBarOfDay => consumer'.at # "submit"
    <3>1. consumer \in Consumers
      BY DEF SessionInv, Typed
    <3> QED
      BY <3>1 DEF ConsumeFirstBarOfDay, Consumers
  <2>4. OrderAccepted => consumer'.at # "submit"
    BY <2>1 DEF OrderAccepted
  <2>5. BrokerMoves => consumer' = consumer
    BY DEF BrokerMoves, Lapse, Execute
  <2> QED
    BY <2>2, <2>3, <2>4, <2>5 DEF Next, vars, GetPositions, SyncTracker, Connect, Drop,
       Reconnect, DeliverFill, PublishBar
<1>2. PICK reading \in Readings :
        ConsumeBar(reading) \/ \E equity \in AccountEquities : OpenDay(equity, reading)
  BY <1>1
<1>3. \E bar \in FeedBars, today \in 0..MaxDays :
        /\ DecideBar(bar, reading, risk'.breaker, today)
        /\ risk'.tracker = risk.tracker /\ (feed # <<>> \/ consumer.at # "listen")
  <2>1. CASE ConsumeBar(reading)
    <3>1. /\ feed # <<>> /\ risk' = risk
          /\ DecideBar(Head(feed), reading, risk.breaker, consumer.day)
      BY <2>1 DEF ConsumeBar
    <3>2. Head(feed) \in FeedBars /\ consumer.day \in 0..MaxDays
      BY <3>1 DEF SessionInv, Typed, Consumers
    <3> QED
      BY <3>1, <3>2
  <2>2. ASSUME NEW equity \in AccountEquities, OpenDay(equity, reading)
        PROVE  \E bar \in FeedBars, today \in 0..MaxDays :
                  /\ DecideBar(bar, reading, risk'.breaker, today)
                  /\ risk'.tracker = risk.tracker /\ (feed # <<>> \/ consumer.at # "listen")
    <3>1. /\ consumer.at = "account" /\ risk' = RiskOnNewDay(risk, equity)
          /\ DecideBar(consumer.bar, reading, risk'.breaker, consumer.day)
      BY <2>2 DEF OpenDay
    <3>2. consumer.bar \in FeedBars /\ consumer.day \in 0..MaxDays
      BY <3>1 DEF SessionInv, Typed, Consumers
    <3> QED
      BY <3>1, <3>2 DEF RiskOnNewDay
  <2> QED
    BY <1>2, <2>1, <2>2
<1> QED
  BY <1>3

\* broker.py:59, 63-66: in every session, what goes to submit_order is admissible on
\* the books as they are when the await begins.
THEOREM SessionOrdersAdmissible == Spec => OrdersAdmissible
<1> DEFINE Sent == consumer.at # "submit" /\ consumer'.at = "submit"
           AsIntent(order) == [symbol |-> order.symbol, side |-> order.side,
                               qty |-> order.qty, price |-> Price]
<1>1. ASSUME SessionInv, [Next]_vars, Sent
      PROVE  Admissible(risk', AsIntent(consumer'.order), consumer'.order.qty)
  <2>4. PICK bar \in FeedBars, reading \in Readings, today \in 0..MaxDays :
          DecideBar(bar, reading, risk'.breaker, today) /\ risk'.tracker = risk.tracker
    BY <1>1, SentIsDecided
  <2>5. PICK order \in OpenOrders :
          /\ consumer' = [at |-> "submit", bar |-> bar, day |-> today, order |-> order]
          /\ Admissible([tracker |-> risk.tracker, breaker |-> risk'.breaker],
                        AsIntent(order), order.qty)
    <3>1. Typed /\ [IdleConsumer EXCEPT !.day = today].at # "submit"
      BY <1>1 DEF SessionInv, IdleConsumer
    <3>2. consumer' # [IdleConsumer EXCEPT !.day = today]
      BY <1>1, <3>1
    <3>3. \E order \in OpenOrders :
            /\ consumer' = [at |-> "submit", bar |-> bar, day |-> today, order |-> order]
            /\ Admissible([tracker |-> risk.tracker, breaker |-> risk'.breaker],
                          [symbol |-> order.symbol, side |-> order.side,
                           qty |-> order.qty, price |-> Price], order.qty)
      <4> HIDE DEF Sent
      <4> DEFINE books == risk'.breaker
      <4>1. DecideBar(bar, reading, books, today)
        BY <2>4
      <4> HIDE DEF books
      <4>2. \/ consumer' = [IdleConsumer EXCEPT !.day = today]
            \/ \E order \in OpenOrders :
                  /\ consumer' = [at |-> "submit", bar |-> bar, day |-> today, order |-> order]
                  /\ Admissible([tracker |-> risk.tracker, breaker |-> books],
                                [symbol |-> order.symbol, side |-> order.side,
                                 qty |-> order.qty, price |-> Price], order.qty)
        BY <3>1, <4>1, DecideShape
      <4> QED
        BY <3>2, <4>2 DEF books
    <3> QED
      BY <3>3
  <2>6. consumer'.order = order
    BY <2>5
  <2>7. Admissible(risk', AsIntent(order), order.qty)
    <3> HIDE DEF AsIntent
    <3> QED
      BY <2>4, <2>5, AdmissibleBooks
  <2> QED
    BY <2>6, <2>7
<1>2. SessionInv /\ [Next]_vars =>
        [Sent => Admissible(risk', AsIntent(consumer'.order), consumer'.order.qty)]_vars
  BY <1>1
<1> QED
  BY <1>2, SessionInvHolds, PTL DEF Spec, OrdersAdmissible

----------------------------------------------------------------------------
\* A calm session: one start of the program, no drop, and a bar only when nothing
\* is under way.  What it takes for the strategy to stay long only: without it a
\* bar can find an order of the same symbol still open.

Calm == MaxDrops = 0 /\ MaxSessions = 1 /\ OnlyWhenSettled

AllUp == \A t \in Streams : task[t] = "up"
NothingOpen == \A s \in Symbols : open[s] = <<>>

Untouched ==
    /\ executed = 0 /\ updates = <<>> /\ feed = <<>> /\ consumer.at = "listen" /\ NothingOpen
    /\ \A s \in Symbols : shares[s] = 0 /\ strategy.positions[s] = 0
                          /\ risk.tracker.positions[s].qty = 0

CalmLife ==
    /\ published.drops \in Nat /\ session.starts \in Nat
    /\ \A t \in Tasks : task[t] # "backoff"
    /\ session.starts = 0 => ~session.up
    /\ session.starts = 0 \/ (session.up /\ ~AllUp) => Untouched
    /\ task["startup"] = "done" => trusted

Aligned ==
    session.up => \A s \in Symbols : strategy.positions[s] = risk.tracker.positions[s].qty

OneAtATime ==
    /\ feed # <<>> => Len(feed) = 1 /\ updates = <<>> /\ NothingOpen /\ consumer.at = "listen"
    /\ consumer.at # "listen" => updates = <<>> /\ NothingOpen
    /\ \A s \in Symbols : open[s] # <<>> =>
          Len(open[s]) = 1 /\ \A other \in Symbols \ {s} : open[other] = <<>>

\* n shares stay inside the cap of an equity that the account has shown.
Fits(n) == n > 0 => \E equity \in AccountEquities : 100 * n * Price <= equity * MaxPositionPct

\* An order leads, filled in full or in part, to a holding that fits.
Leads(order, held) ==
    /\ order.side = "sell" => order.qty <= held
    /\ order.side = "buy" => Fits(held + order.qty)

Covered ==
    /\ \A s \in Symbols : shares[s] >= 0 /\ Fits(shares[s])
    /\ \A s \in Symbols : \A i \in DOMAIN open[s] : Leads(open[s][i], shares[s])
    /\ consumer.at = "submit" => Leads(consumer.order, shares[consumer.order.symbol])

CalmInv == CalmLife /\ Aligned /\ OneAtATime /\ Covered

LEMMA FewerFit ==
    ASSUME NEW n \in Nat, NEW m \in Nat, m <= n, Fits(n)
    PROVE  Fits(m)
<1> SUFFICES ASSUME m > 0
             PROVE  \E equity \in AccountEquities : 100 * m * Price <= equity * MaxPositionPct
  BY DEF Fits
<1>1. PICK equity \in AccountEquities : 100 * n * Price <= equity * MaxPositionPct
  BY DEF Fits
<1>2. Price \in Nat /\ equity \in Int /\ MaxPositionPct \in Int
  BY SessionAssumption, CapsAssumption
<1>3. m * Price <= n * Price /\ m * Price \in Int /\ n * Price \in Int
  BY <1>2
<1>4. 100 * m * Price = 100 * (m * Price) /\ 100 * n * Price = 100 * (n * Price)
  BY <1>2
<1>5. equity * MaxPositionPct \in Int
  BY <1>2
<1>6. 100 * m * Price <= equity * MaxPositionPct
  BY <1>1, <1>3, <1>4, <1>5
<1> QED
  BY <1>6

LEMMA SingleOrder ==
    ASSUME NEW queue \in Seq(OpenOrders), Len(queue) = 1, NEW i \in DOMAIN queue
    PROVE  i = 1 /\ RemoveAt(queue, i) = <<>>
<1>1. i = 1
  OBVIOUS
<1>2. SubSeq(queue, 1, 0) = <<>> /\ SubSeq(queue, 2, 1) = <<>>
  OBVIOUS
<1>3. RemoveAt(queue, 1) = SubSeq(queue, 1, 0) \o SubSeq(queue, 2, 1)
  BY DEF RemoveAt
<1> QED
  BY <1>1, <1>2, <1>3

\* With nothing on the wire all three agree.
LEMMA BooksMeet ==
    ASSUME SessionInv, CalmLife, Aligned, task["startup"] = "done", updates = <<>>,
           NEW s \in Symbols
    PROVE  /\ risk.tracker.positions[s].qty = shares[s]
           /\ strategy.positions[s] = shares[s]
<1>1. trusted /\ session.up
  BY DEF CalmLife, SessionInv, Life, Tasks
<1>2. OnTheWire(s) = 0 /\ risk.tracker.positions[s].qty \in Int
  BY EmptyWire, WireType DEF SessionInv
<1>3. risk.tracker.positions[s].qty + OnTheWire(s) = shares[s]
  BY <1>1 DEF SessionInv, Books, TrackerExactUnlessRaced
<1> QED
  BY <1>1, <1>2, <1>3 DEF Aligned

LEMMA InitCalm == Init => CalmInv
<1> SUFFICES ASSUME Init PROVE CalmInv
  OBVIOUS
<1>1. /\ \A t \in Tasks : task[t] = "off"
      /\ published.drops = 0 /\ session.starts = 0 /\ ~session.up
      /\ \A s \in Symbols : open[s] = <<>> /\ shares[s] = 0
      /\ executed = 0 /\ updates = <<>> /\ feed = <<>> /\ consumer.at = "listen"
  BY NoneLeft DEF Init
<1>2. "startup" \in Tasks
  BY DEF Tasks
<1>3. \A s \in Symbols : strategy.positions[s] = 0 /\ risk.tracker.positions[s].qty = 0
  BY NewTrackerType, NewStrategyType DEF Init
<1>4. Covered
  BY <1>1 DEF Covered, Fits
<1> QED
  BY <1>1, <1>2, <1>3, <1>4 DEF CalmInv, CalmLife, Untouched, NothingOpen, Aligned, OneAtATime

LEMMA NextCalmLife ==
    ASSUME Calm, SessionInv, SessionInv', CalmInv, [Next]_vars
    PROVE  CalmLife' /\ Aligned'
<1> USE DEF account, wires, program
<1>1. /\ MaxDrops = 0 /\ MaxSessions = 1 /\ OnlyWhenSettled
      /\ Typed /\ Life /\ Books /\ CalmLife /\ Aligned
      /\ session = [up |-> session.up, starts |-> session.starts, endedBy |-> session.endedBy]
      /\ published.drops \in Nat /\ session.starts \in Nat
      /\ task \in [Tasks -> Places]
  BY DEF Calm, SessionInv, CalmInv, CalmLife, Typed
<1>2. Streams \subseteq Tasks /\ "startup" \in Tasks /\ "startup" \notin Streams
  BY DEF Tasks, Streams
<1>3. session.up => session.starts # 0
  BY DEF CalmInv, CalmLife
\* Something was touched: the program is on, and while it runs both streams are up.
<1>4. ASSUME ~Untouched PROVE session.starts # 0 /\ (session.up => AllUp)
  BY <1>1, <1>4 DEF CalmLife
<1>5. CASE Start
  <2>1. ~session.up /\ session.starts = 0 /\ Untouched
    BY <1>1, <1>5 DEF Start, CalmLife
  <2>2. /\ UNCHANGED <<account, published>> /\ session'.up /\ session'.starts = session.starts + 1
        /\ task' = [t \in Tasks |-> IF t = "startup" THEN "positions" ELSE "off"]
        /\ consumer'.at = "listen" /\ updates' = <<>> /\ feed' = <<>>
        /\ risk'.tracker = NewTracker /\ strategy' = NewStrategy
    BY <1>5, NoneLeft DEF Start
  <2>3. Untouched'
    BY <2>1, <2>2, NewTrackerType, NewStrategyType DEF Untouched, NothingOpen
  <2> QED
    BY <1>1, <1>2, <2>1, <2>2, <2>3, NewTrackerType, NewStrategyType DEF CalmLife, Aligned
<1>6. ASSUME NEW why, NEW lands \in BOOLEAN, EndSession(why, lands) PROVE CalmLife' /\ Aligned'
  <2>1. /\ session.up /\ session' = [session EXCEPT !.up = FALSE, !.endedBy = why]
        /\ \A t \in Tasks : task'[t] = "off"
        /\ published' = published
    BY <1>6 DEF EndSession
  <2>2. ~session'.up /\ session'.starts = session.starts
    BY <1>1, <2>1
  <2> QED
    BY <1>1, <1>2, <1>3, <2>1, <2>2 DEF CalmLife, Aligned
<1>7. ASSUME NEW t \in Tasks,
             \/ GetPositions(t)
             \/ \E equity \in AccountEquities : SyncTracker(t, equity)
             \/ t \in Streams /\ (Connect(t) \/ Drop(t) \/ Reconnect(t))
      PROVE  CalmLife' /\ Aligned'
  <2>1. task[t] \in {"positions", "account", "connecting"} /\ ~(\E u \in Streams : Drop(u))
    <3>1. ~(published.drops < MaxDrops) /\ task[t] # "backoff"
      BY <1>1 DEF CalmLife
    <3> QED
      BY <1>7, <3>1 DEF GetPositions, SyncTracker, Connect, Drop, Reconnect
  <2>2. session.up /\ ~AllUp
    <3>1. session.up
      BY <1>1, <2>1 DEF Life
    <3>2. CASE t \in Streams
      <4>1. task[t] # "up"
        BY <2>1
      <4> QED
        BY <3>1, <3>2, <4>1 DEF AllUp
    <3>3. CASE t = "startup"
      <4>1. \A u \in Streams : task[u] = "off"
        BY <1>1, <2>1, <3>3 DEF Life
      <4> QED
        BY <3>1, <4>1 DEF AllUp, Streams
    <3> QED
      BY <3>1, <3>2, <3>3 DEF Tasks
  <2>3. Untouched
    BY <1>1, <2>2 DEF CalmLife
  <2>4. /\ UNCHANGED <<session, account, updates, feed, published, consumer, strategy>>
        /\ \A u \in Tasks : task'[u] # "backoff"
    <3>1. GetPositions(t) \/ Connect(t) =>
            /\ UNCHANGED <<session, account, updates, feed, published, consumer, strategy>>
            /\ \A u \in Tasks : task'[u] # "backoff"
      BY <1>1 DEF GetPositions, Connect, CalmLife
    <3>2. ASSUME NEW equity \in AccountEquities, SyncTracker(t, equity)
          PROVE  /\ UNCHANGED <<session, account, updates, feed, published, consumer, strategy>>
                 /\ \A u \in Tasks : task'[u] # "backoff"
      BY <1>1, <3>2 DEF SyncTracker, CalmLife, Tasks, Streams
    <3> QED
      BY <1>7, <2>1, <3>1, <3>2 DEF Reconnect
  <2>5. CASE \E equity \in AccountEquities : SyncTracker(t, equity)
    <3>1. PICK equity \in AccountEquities : SyncTracker(t, equity)
      BY <2>5
    <3>2. /\ task[t] = "account" /\ trusted' = (answer[t].executed = executed - Len(updates))
          /\ risk' = [risk EXCEPT !.tracker = SyncFromApi(answer[t].positions, equity)]
      BY <3>1 DEF SyncTracker
    <3>3. /\ answer[t] \in AnswersOf /\ answer[t].executed \in Nat
          /\ risk'.tracker = SyncFromApi(answer[t].positions, equity)
      <4>1. risk = [tracker |-> risk.tracker, breaker |-> risk.breaker] /\ answer[t] \in AnswersOf
        BY <1>1, <3>2 DEF Typed
      <4> QED
        BY <3>2, <4>1 DEF AnswersOf
    <3>4. executed = 0 /\ Len(updates) = 0 /\ Since(t) \in Nat
      BY <1>1, <2>3, <3>2, EmptyWire DEF Untouched, Books, AnswersExact
    <3>5. answer[t].executed = executed - Len(updates) /\ Since(t) = 0
      BY <3>3, <3>4 DEF Since
    <3>6. trusted'
      BY <3>2, <3>5
    <3>7. \A s \in Symbols : answer[t].positions[s].qty = 0
      <4> SUFFICES ASSUME NEW s \in Symbols PROVE answer[t].positions[s].qty = 0
        OBVIOUS
      <4>1. answer[t].positions[s].qty + OnTheWire(s) - FirstMoves(updates, s, 0) = shares[s]
        <5>1. Since(t) <= Len(updates) /\ Len(updates) - Since(t) = 0
          BY <3>4, <3>5
        <5> QED
          BY <1>1, <3>2, <5>1 DEF Books, AnswersExact
      <4>2. OnTheWire(s) = 0 /\ FirstMoves(updates, s, 0) = 0 /\ shares[s] = 0
            /\ answer[t].positions[s].qty \in Int
        BY <1>1, <2>3, <3>2, EmptyWire, NoMoves, AnswerQty DEF Untouched
      <4> QED
        BY <4>1, <4>2
    <3>8. \A s \in Symbols : risk'.tracker.positions[s].qty = 0
      BY <3>3, <3>7, SyncedType
    <3>9. Untouched'
      BY <2>3, <2>4, <3>8 DEF Untouched, NothingOpen
    <3>10. Aligned'
      BY <2>3, <2>4, <3>8 DEF Untouched, Aligned
    <3> QED
      BY <1>1, <1>3, <2>4, <3>6, <3>9, <3>10 DEF CalmLife
  <2>6. CASE GetPositions(t) \/ Connect(t)
    <3>1. /\ UNCHANGED <<risk, trusted>> /\ t \in Tasks
          /\ task'["startup"] = "done" => task["startup"] = "done"
      <4>1. GetPositions(t) =>
              UNCHANGED <<risk, trusted>> /\ (task'["startup"] = "done" => task["startup"] = "done")
        BY <1>1, <1>2 DEF GetPositions
      <4>2. Connect(t) =>
              UNCHANGED <<risk, trusted>> /\ (task'["startup"] = "done" => task["startup"] = "done")
        BY <1>1, <1>2 DEF Connect
      <4> QED
        BY <2>6, <4>1, <4>2
    <3>2. Untouched'
      BY <2>3, <2>4, <3>1 DEF Untouched, NothingOpen
    <3> QED
      BY <1>1, <2>4, <3>1, <3>2 DEF CalmLife, Aligned
  <2>7. ~Drop(t) /\ ~Reconnect(t)
    BY <1>1, <2>1 DEF Drop, Reconnect
  <2> QED
    BY <1>7, <2>5, <2>6, <2>7
\* Nothing else moves a task or can happen to an untouched session.
<1>8. ASSUME UNCHANGED <<session, task>>, published'.drops = published.drops,
             trusted /\ AllUp => trusted',
             session.starts # 0, session.up => AllUp
      PROVE  CalmLife'
  <2>1. task["startup"] = "done" => session.up
    BY <1>1, <1>2 DEF Life
  <2>2. task["startup"] = "done" => trusted'
    BY <1>1, <1>8, <2>1 DEF CalmLife
  <2> QED
    BY <1>1, <1>8, <2>2 DEF CalmLife, AllUp
<1>9. CASE DeliverFill
  <2>1. UNCHANGED <<session, published, task, trusted>> /\ ~Untouched
        /\ updates # <<>> /\ strategy' = OnTradeUpdate(strategy, Head(updates))
        /\ risk'.tracker = TrackFill(risk.tracker, Head(updates))
    BY <1>9 DEF DeliverFill, Untouched, RiskOnFill
  <2>2. Head(updates) \in Fills
    BY <1>1, <2>1 DEF Typed
  <2>3. Aligned'
    <3>1. /\ strategy \in Strategies /\ risk.tracker \in Trackers
          /\ AtPriceIn(risk.tracker.positions)
      BY DEF SessionInv, Typed, AtPrice
    <3>2. \A s \in Symbols :
            /\ strategy'.positions[s] = strategy.positions[s] + Move(Head(updates), s)
            /\ risk'.tracker.positions[s].qty = risk.tracker.positions[s].qty + Move(Head(updates), s)
      BY <2>1, <2>2, <3>1, TradeUpdateType, TrackFillAtPrice
    <3> QED
      BY <1>1, <2>1, <3>2 DEF Aligned
  <2> QED
    BY <1>4, <1>8, <2>1, <2>3
<1>10. ASSUME NEW reading \in Readings,
              ConsumeBar(reading) \/ \E equity \in AccountEquities : OpenDay(equity, reading)
       PROVE  CalmLife' /\ Aligned'
  <2>1. UNCHANGED <<session, published, task, trusted>> /\ ~Untouched
        /\ risk'.tracker = risk.tracker
    BY <1>10 DEF ConsumeBar, OpenDay, RiskOnNewDay, Untouched
  <2>2. strategy'.positions = strategy.positions
    <3>1. CASE ConsumeBar(reading)
      <4>1. feed # <<>> /\ strategy' = BufferBar(strategy, Head(feed))
        BY <3>1 DEF ConsumeBar, DecideBar
      <4>2. Head(feed) \in FeedBars /\ strategy \in Strategies
        BY <1>1, <4>1 DEF Typed
      <4> QED
        BY <4>1, <4>2, BufferType
    <3>2. CASE \E equity \in AccountEquities : OpenDay(equity, reading)
      <4>1. consumer.at = "account" /\ strategy' = BufferBar(strategy, consumer.bar)
        BY <3>2 DEF OpenDay, DecideBar
      <4>2. consumer.bar \in FeedBars /\ strategy \in Strategies
        BY <1>1, <4>1 DEF Typed
      <4> QED
        BY <4>1, <4>2, BufferType
    <3> QED
      BY <1>10, <3>1, <3>2
  <2>3. Aligned'
    BY <1>1, <2>1, <2>2 DEF Aligned
  <2> QED
    BY <1>4, <1>8, <2>1, <2>3
<1>11. CASE ConsumeFirstBarOfDay \/ OrderAccepted
  <2>1. UNCHANGED <<session, published, task, trusted, risk, strategy>> /\ ~Untouched
    BY <1>11 DEF ConsumeFirstBarOfDay, OrderAccepted, Untouched
  <2> QED
    BY <1>1, <1>4, <1>8, <2>1 DEF Aligned
<1>12. CASE BrokerMoves
  <2>1. PICK s \in Symbols : \E i \in DOMAIN open[s] :
          Lapse(s, i) \/ \E qty \in 1..open[s][i].qty : Execute(s, i, qty)
    BY <1>12 DEF BrokerMoves
  <2>2. open[s] # <<>> /\ ~Untouched
    BY <2>1 DEF Untouched, NothingOpen
  <2>3. UNCHANGED <<session, published, task, risk, strategy>>
        /\ (trusted' = trusted \/ trusted' = (trusted /\ task["trading"] = "up"))
    BY <2>1 DEF Lapse, Execute
  <2>4. trusted /\ AllUp => trusted'
    BY <2>3 DEF AllUp, Streams
  <2> QED
    BY <1>1, <1>4, <1>8, <2>2, <2>3, <2>4 DEF Aligned
<1>13. ASSUME NEW s \in Symbols, NEW day \in 1..MaxDays, PublishBar(s, day)
       PROVE  CalmLife' /\ Aligned'
  <2>1. /\ UNCHANGED <<session, task, trusted, risk, strategy>>
        /\ published' = [published EXCEPT !.bars = @ + 1, !.day = day] /\ task["data"] = "up"
        /\ Settled
    BY <1>1, <1>13 DEF PublishBar
  <2>2. session.up /\ AllUp
    BY <1>1, <1>2, <2>1 DEF Life, AllUp, Settled, Streams
  <2>3. published'.drops = published.drops
    <3>1. published = [bars |-> published.bars, day |-> published.day, drops |-> published.drops]
      BY <1>1 DEF Typed
    <3> QED
      BY <2>1, <3>1
  <2> QED
    BY <1>1, <1>3, <1>8, <2>1, <2>2, <2>3 DEF Aligned
<1>14. CASE UNCHANGED vars
  BY <1>1, <1>14 DEF vars, CalmLife, Aligned, AllUp, Untouched, NothingOpen
<1> QED
  BY <1>2, <1>5, <1>6, <1>7, <1>9, <1>10, <1>11, <1>12, <1>13, <1>14
  DEF Next, StopSignal, UncaughtFailure

\* What a bar's consumer finds: nothing open, nothing on the wire, and books that agree.
LEMMA QuietConsumer ==
    ASSUME SessionInv, CalmInv, feed # <<>> \/ consumer.at # "listen"
    PROVE  /\ updates = <<>> /\ NothingOpen /\ task["startup"] = "done"
           /\ feed # <<>> => consumer.at = "listen" /\ Len(feed) = 1 /\ Tail(feed) = <<>>
           /\ \A s \in Symbols : /\ risk.tracker.positions[s].qty = shares[s]
                                 /\ strategy.positions[s] = shares[s]
<1>1. updates = <<>> /\ NothingOpen
  BY DEF CalmInv, OneAtATime
<1>2. task["startup"] = "done"
  BY DEF SessionInv, Life
<1>3. \A s \in Symbols : /\ risk.tracker.positions[s].qty = shares[s]
                         /\ strategy.positions[s] = shares[s]
  BY <1>1, <1>2, BooksMeet DEF CalmInv
<1>4. feed # <<>> => consumer.at = "listen" /\ Len(feed) = 1
  BY DEF CalmInv, OneAtATime
<1>5. feed \in Seq(FeedBars)
  BY DEF SessionInv, Typed
<1>6. Len(feed) = 1 => Tail(feed) = <<>>
  <2>1. Len(feed) = 1 => Tail(feed) \in Seq(FeedBars) /\ Len(Tail(feed)) = 0
    BY <1>5, HeadTailProperties, EmptySeq
  <2> QED
    BY <2>1, EmptySeq
<1> QED
  BY <1>1, <1>2, <1>3, <1>4, <1>6

\* What happens to an order that is open alone.
LEMMA MovesLoneOrder ==
    ASSUME SessionInv, CalmInv, NEW z \in Symbols, NEW i \in DOMAIN open[z],
           Lapse(z, i) \/ \E qty \in 1..open[z][i].qty : Execute(z, i, qty)
    PROVE  /\ \A s \in Symbols \ {z} : open'[s] = <<>> /\ shares'[s] = shares[s]
           /\ feed' = <<>> /\ consumer'.at = "listen"
           /\ \/ open'[z] = <<>> /\ shares'[z] >= 0 /\ Fits(shares'[z])
              \/ /\ Len(open'[z]) = 1 /\ shares'[z] >= 0 /\ Fits(shares'[z])
                 /\ \A j \in DOMAIN open'[z] : Leads(open'[z][j], shares'[z])
<1> DEFINE order == open[z][i]
<1>1. open[z] \in Seq(OpenOrders) /\ open[z] # <<>> /\ order \in OpenOrders
      /\ open \in [Symbols -> Seq(OpenOrders)] /\ shares[z] \in Int
  BY DEF SessionInv, Typed
<1>2. Len(open[z]) = 1 /\ \A s \in Symbols \ {z} : open[s] = <<>>
  BY <1>1 DEF CalmInv, OneAtATime
<1>3. i = 1 /\ RemoveAt(open[z], i) = <<>>
  BY <1>1, <1>2, SingleOrder
<1>4. feed = <<>> /\ consumer.at = "listen"
  BY <1>1 DEF CalmInv, OneAtATime, NothingOpen
<1>5. /\ Leads(order, shares[z]) /\ shares[z] >= 0 /\ Fits(shares[z])
      /\ order.side \in Sides /\ order.qty \in Nat
  BY <1>1 DEF CalmInv, Covered, OpenOrders
<1>6. CASE Lapse(z, i)
  <2>1. open' = [open EXCEPT ![z] = RemoveAt(@, i)] /\ UNCHANGED <<shares, feed, consumer>>
    BY <1>6 DEF Lapse, wires, program
  <2> QED
    BY <1>1, <1>2, <1>3, <1>4, <1>5, <2>1
<1>7. ASSUME NEW qty \in 1..open[z][i].qty, Execute(z, i, qty)
      PROVE  /\ \A s \in Symbols \ {z} : open'[s] = <<>> /\ shares'[s] = shares[s]
             /\ feed' = <<>> /\ consumer'.at = "listen"
             /\ \/ open'[z] = <<>> /\ shares'[z] >= 0 /\ Fits(shares'[z])
                \/ /\ Len(open'[z]) = 1 /\ shares'[z] >= 0 /\ Fits(shares'[z])
                   /\ \A j \in DOMAIN open'[z] : Leads(open'[z][j], shares'[z])
  <2>1. qty \in Nat \ {0} /\ qty <= order.qty
    BY <1>5 DEF Execute
  <2>2. PICK fill \in Fills :
          /\ fill.symbol = z /\ fill.side = order.side /\ fill.qty = qty
          /\ \A s \in Symbols : shares'[s] = shares[s] + Move(fill, s)
          /\ open' \in [Symbols -> Seq(OpenOrders)]
          /\ \A s \in Symbols \ {z} : open'[s] = open[s]
    BY <1>7, ExecuteType, SMTT(30) DEF SessionInv
  <2>3. /\ shares'[z] = shares[z] + Signed(fill)
        /\ \A s \in Symbols \ {z} : shares'[s] = shares[s]
    <3>1. \A s \in Symbols : shares[s] \in Int
      BY DEF SessionInv, Typed
    <3> QED
      BY <2>2, <3>1 DEF Move
  <2>4. /\ order.side = "buy" => shares'[z] = shares[z] + qty
        /\ order.side = "sell" => shares'[z] = shares[z] - qty
    BY <1>1, <2>1, <2>2, <2>3 DEF Signed
  <2>5. shares'[z] \in Nat /\ Fits(shares'[z])
    <3>1. CASE order.side = "buy"
      <4>1. Fits(shares[z] + order.qty) /\ shares[z] + order.qty \in Nat
            /\ shares'[z] \in Nat /\ shares'[z] <= shares[z] + order.qty
        BY <1>1, <1>5, <2>1, <2>4, <3>1 DEF Leads
      <4> QED
        BY <4>1, FewerFit
    <3>2. CASE order.side = "sell"
      <4>1. shares[z] \in Nat /\ shares'[z] \in Nat /\ shares'[z] <= shares[z]
        BY <1>1, <1>5, <2>1, <2>4, <3>2 DEF Leads
      <4> QED
        BY <1>5, <4>1, FewerFit
    <3> QED
      BY <1>5, <3>1, <3>2 DEF Sides
  <2>6. feed' = <<>> /\ consumer'.at = "listen"
    BY <1>4, <1>7 DEF Execute, program
  <2>9. shares'[z] >= 0 /\ \A s \in Symbols \ {z} : open'[s] = <<>>
    BY <1>2, <2>2, <2>5
  <2>7. CASE qty = order.qty
    <3>1. open' = [open EXCEPT ![z] = RemoveAt(@, i)]
      BY <1>7, <2>7 DEF Execute
    <3>2. open'[z] = <<>>
      BY <1>1, <1>3, <3>1
    <3> QED
      BY <2>3, <2>5, <2>6, <2>9, <3>2
  <2>8. CASE qty # order.qty
    <3> DEFINE left == order.qty - qty
    <3>1. open' = [open EXCEPT ![z] = [@ EXCEPT ![i].qty = left]]
      BY <1>7, <2>8 DEF Execute
    <3>2. open'[z] = [open[z] EXCEPT ![i].qty = left]
      BY <1>1, <3>1
    <3>3. /\ Len(open'[z]) = 1 /\ DOMAIN open'[z] = {1}
          /\ open'[z][1] = [order EXCEPT !.qty = left]
      BY <1>1, <1>2, <1>3, <3>2
    <3>4. open'[z][1].side = order.side /\ open'[z][1].qty = left
      BY <1>1, <3>3 DEF OpenOrders
    <3>5. /\ order.side = "sell" => left <= shares'[z]
          /\ order.side = "buy" => shares'[z] + left = shares[z] + order.qty
      BY <1>1, <1>5, <2>1, <2>4 DEF Leads
    <3>6. Leads(open'[z][1], shares'[z])
      BY <1>5, <3>4, <3>5 DEF Leads
    <3>7. Len(open'[z]) = 1 /\ \A j \in DOMAIN open'[z] : Leads(open'[z][j], shares'[z])
      BY <3>3, <3>6
    <3> QED
      BY <2>3, <2>5, <2>6, <2>9, <3>7
  <2> QED
    BY <2>7, <2>8
<1> QED
  BY <1>6, <1>7

\* An order the consumer sends leads to a holding that fits.
LEMMA DecidedLeads ==
    ASSUME SessionInv, CalmInv, feed # <<>> \/ consumer.at # "listen",
           NEW bar \in FeedBars, NEW reading \in Readings, NEW breaker,
           NEW today \in 0..MaxDays, DecideBar(bar, reading, breaker, today),
           consumer'.at = "submit"
    PROVE  /\ Leads(consumer'.order, shares[consumer'.order.symbol])
           /\ consumer'.order.side = "sell" =>
                consumer'.order.qty = strategy.positions[consumer'.order.symbol]
<1>1. Typed /\ task["startup"] = "done" /\ risk.tracker.equity \in AccountEquities
      /\ \A s \in Symbols : /\ risk.tracker.positions[s].qty = shares[s]
                            /\ strategy.positions[s] = shares[s]
                            /\ shares[s] \in Int
  BY QuietConsumer DEF SessionInv, Life, Typed
<1>2. consumer' # [IdleConsumer EXCEPT !.day = today]
  BY DEF IdleConsumer
<1>3. PICK order \in OpenOrders :
        /\ consumer' = [at |-> "submit", bar |-> bar, day |-> today, order |-> order]
        /\ Admissible([tracker |-> risk.tracker, breaker |-> breaker],
                      [symbol |-> order.symbol, side |-> order.side,
                       qty |-> order.qty, price |-> Price], order.qty)
        /\ \/ order.side = "buy" /\ strategy.positions[order.symbol] = 0
           \/ /\ order.side = "sell" /\ strategy.positions[order.symbol] > 0
              /\ risk.tracker.positions[order.symbol].qty = strategy.positions[order.symbol]
                    => order.qty = strategy.positions[order.symbol]
  BY <1>1, <1>2, DecideShape
<1>4. order.symbol \in Symbols /\ order.qty \in Nat /\ consumer'.order = order
  BY <1>3 DEF OpenOrders
<1>5. CASE order.side = "sell"
  <2>1. order.qty = strategy.positions[order.symbol] /\ order.qty = shares[order.symbol]
    BY <1>1, <1>3, <1>4, <1>5
  <2> QED
    BY <1>4, <1>5, <2>1 DEF Leads
<1>6. CASE order.side = "buy"
  <2>1. shares[order.symbol] = 0 /\ risk.tracker.positions[order.symbol].qty = 0
    BY <1>1, <1>3, <1>4, <1>6
  <2>2. 100 * (PositionValue(risk.tracker, order.symbol) + order.qty * Price)
          <= risk.tracker.equity * MaxPositionPct
    <3> DEFINE intent == [symbol |-> order.symbol, side |-> order.side,
                          qty |-> order.qty, price |-> Price]
               books == [tracker |-> risk.tracker, breaker |-> breaker]
    <3>1. /\ Admissible(books, intent, order.qty) /\ books.tracker = risk.tracker
          /\ intent.symbol = order.symbol /\ intent.side = "buy" /\ intent.price = Price
          /\ PositionQty(books.tracker, intent.symbol) = 0
      BY <1>3, <1>6, <2>1 DEF PositionQty
    <3> HIDE DEF books, intent
    <3> QED
      BY <3>1 DEF Admissible
  <2>3. PositionValue(risk.tracker, order.symbol) = 0
    <3>1. risk.tracker.positions[order.symbol].lastPrice \in Int
      BY <1>1, <1>4 DEF Typed, Trackers, Positions
    <3>2. Abs(risk.tracker.positions[order.symbol].qty) = 0
      BY <2>1 DEF Abs
    <3> QED
      BY <3>1, <3>2 DEF PositionValue
  <2>4. 100 * (0 + order.qty * Price) = 100 * order.qty * Price
    <3>1. Price \in Nat
      BY SessionAssumption
    <3> QED
      BY <1>4, <3>1
  <2>5. Fits(shares[order.symbol] + order.qty)
    <3>1. shares[order.symbol] + order.qty = order.qty
      BY <1>4, <2>1
    <3> QED
      BY <1>1, <2>2, <2>3, <2>4, <3>1 DEF Fits
  <2> QED
    BY <1>4, <1>6, <2>5 DEF Leads
<1> QED
  BY <1>3, <1>5, <1>6

\* Steps that leave the account and the orders as they are.
LEMMA NothingSent ==
    ASSUME CalmInv, UNCHANGED <<shares, open>>,
           consumer' = consumer \/ consumer'.at # "submit"
    PROVE  /\ Covered'
           /\ \A s \in Symbols : open'[s] # <<>> =>
                Len(open'[s]) = 1 /\ \A other \in Symbols \ {s} : open'[other] = <<>>
BY DEF CalmInv, Covered, OneAtATime

LEMMA OrderLands ==
    ASSUME SessionInv, CalmInv, consumer.at = "submit", shares' = shares, feed' = <<>>,
           consumer'.at = "listen",
           open' = [open EXCEPT ![consumer.order.symbol] = Append(@, consumer.order)]
    PROVE  OneAtATime' /\ Covered'
<1> DEFINE order == consumer.order
           z == order.symbol
<1>1. Typed /\ order \in OpenOrders /\ NothingOpen
  BY QuietConsumer DEF SessionInv, Typed
<1>2. z \in Symbols /\ open[z] = <<>>
  BY <1>1 DEF OpenOrders, NothingOpen
<1>3. /\ open'[z] = Append(open[z], order)
      /\ \A s \in Symbols \ {z} : open'[s] = open[s]
  BY <1>1, AppendOrderType
<1>4. Append(<<>>, order) = <<order>> /\ Len(<<order>>) = 1 /\ DOMAIN <<order>> = {1}
      /\ <<order>>[1] = order
  OBVIOUS
<1>5. open'[z] = <<order>> /\ \A s \in Symbols \ {z} : open'[s] = <<>>
  BY <1>1, <1>2, <1>3, <1>4 DEF NothingOpen
<1>6. /\ Leads(order, shares[z])
      /\ \A s \in Symbols : shares[s] >= 0 /\ Fits(shares[s])
  BY DEF CalmInv, Covered
<1> HIDE DEF order, z
<1>7. OneAtATime'
  <2>1. \A s \in Symbols : open'[s] # <<>> =>
           Len(open'[s]) = 1 /\ \A other \in Symbols \ {s} : open'[other] = <<>>
    BY <1>4, <1>5
  <2> QED
    BY <2>1 DEF OneAtATime
<1>8. Covered'
  <2>1. \A s \in Symbols : \A i \in DOMAIN open'[s] : Leads(open'[s][i], shares'[s])
    <3> SUFFICES ASSUME NEW s \in Symbols, NEW i \in DOMAIN open'[s]
                 PROVE  Leads(open'[s][i], shares'[s])
      OBVIOUS
    <3>1. CASE s = z
      BY <1>4, <1>5, <1>6, <3>1
    <3>2. CASE s # z
      <4>1. open'[s] = <<>>
        BY <1>5, <3>2
      <4> QED
        BY <4>1
    <3> QED
      BY <3>1, <3>2
  <2>2. (\A s \in Symbols : \A i \in DOMAIN open[s] : Leads(open[s][i], shares[s]))'
    BY <2>1
  <2>3. (\A s \in Symbols : shares[s] >= 0 /\ Fits(shares[s]))'
    BY <1>6 DEF Fits
  <2> QED
    BY <2>2, <2>3 DEF Covered
<1> QED
  BY <1>7, <1>8

\* What the consumer decides on a bar.
LEMMA NextDecided ==
    ASSUME SessionInv, CalmInv, feed # <<>> \/ consumer.at # "listen",
           NEW bar \in FeedBars, NEW reading \in Readings, NEW breaker,
           NEW today \in 0..MaxDays, DecideBar(bar, reading, breaker, today),
           feed' = <<>>, UNCHANGED <<updates, shares, open>>
    PROVE  OneAtATime' /\ Covered'
<1>1. updates' = <<>> /\ \A s \in Symbols : open'[s] = <<>>
  BY QuietConsumer DEF NothingOpen
<1>2. OneAtATime'
  BY <1>1 DEF OneAtATime, NothingOpen
<1>3. consumer'.at = "submit" => Leads(consumer'.order, shares'[consumer'.order.symbol])
  BY DecidedLeads
<1>4. \A s \in Symbols : shares'[s] >= 0 /\ Fits(shares'[s])
  BY DEF CalmInv, Covered
<1>5. \A s \in Symbols : \A i \in DOMAIN open'[s] : Leads(open'[s][i], shares'[s])
  BY <1>1
<1>6. Covered'
  <2>1. (\A s \in Symbols : shares[s] >= 0 /\ Fits(shares[s]))'
    BY <1>4 DEF Fits
  <2>2. (\A s \in Symbols : \A i \in DOMAIN open[s] : Leads(open[s][i], shares[s]))'
    BY <1>5
  <2>3. (consumer.at = "submit" => Leads(consumer.order, shares[consumer.order.symbol]))'
    BY <1>3
  <2> QED
    BY <2>1, <2>2, <2>3 DEF Covered
<1> QED
  BY <1>2, <1>6

LEMMA NextCovered ==
    ASSUME Calm, SessionInv, CalmInv, [Next]_vars
    PROVE  OneAtATime' /\ Covered'
<1> USE DEF account, wires, program
<1>1. /\ Typed /\ Life /\ CalmLife /\ OneAtATime /\ Covered
      /\ MaxDrops = 0 /\ MaxSessions = 1 /\ OnlyWhenSettled
      /\ published.drops \in Nat /\ session.starts \in Nat
  BY DEF SessionInv, CalmInv, Calm, CalmLife
<1>2. /\ IdleConsumer.at = "listen"
      /\ \A day : [IdleConsumer EXCEPT !.day = day].at = "listen"
  BY DEF IdleConsumer
<1>3. CASE Start
  <2>1. /\ UNCHANGED <<shares, open>> /\ updates' = <<>> /\ feed' = <<>>
        /\ consumer'.at = "listen"
    BY <1>2, <1>3 DEF Start
  <2> QED
    BY <2>1, NothingSent DEF OneAtATime
<1>4. ASSUME NEW why, NEW lands \in BOOLEAN, EndSession(why, lands)
      PROVE  OneAtATime' /\ Covered'
  <2>1. /\ shares' = shares /\ updates' = <<>> /\ feed' = <<>> /\ consumer'.at = "listen"
        /\ \/ open' = open
           \/ /\ consumer.at = "submit"
              /\ open' = [open EXCEPT ![consumer.order.symbol] = Append(@, consumer.order)]
    BY <1>2, <1>4 DEF EndSession
  <2>2. CASE open' = open
    BY <2>1, <2>2, NothingSent DEF OneAtATime
  <2> QED
    BY <2>1, <2>2, OrderLands
<1>5. ASSUME UNCHANGED <<shares, open, feed, consumer, updates>>
      PROVE  OneAtATime' /\ Covered'
  BY <1>1, <1>5, NothingSent DEF OneAtATime, NothingOpen
<1>6. ASSUME NEW t \in Tasks,
             GetPositions(t) \/ \E equity \in AccountEquities : SyncTracker(t, equity)
      PROVE  OneAtATime' /\ Covered'
  BY <1>5, <1>6 DEF GetPositions, SyncTracker
<1>7. ASSUME NEW t \in Streams, Connect(t) \/ Drop(t) \/ Reconnect(t)
      PROVE  OneAtATime' /\ Covered'
  <2>1. ~Drop(t)
    BY <1>1 DEF Drop
  <2> QED
    BY <1>5, <1>7, <2>1 DEF Connect, Reconnect
<1>8. CASE DeliverFill
  <2>1. UNCHANGED <<shares, open, feed, consumer>> /\ updates # <<>>
    BY <1>8 DEF DeliverFill
  <2>2. feed = <<>> /\ consumer.at = "listen"
    BY <1>1, <2>1 DEF OneAtATime
  <2> QED
    BY <2>1, <2>2, NothingSent DEF OneAtATime
<1>9. ASSUME NEW reading \in Readings,
             ConsumeBar(reading) \/ \E equity \in AccountEquities : OpenDay(equity, reading)
      PROVE  OneAtATime' /\ Covered'
  <2>1. CASE ConsumeBar(reading)
    <3>1. /\ feed # <<>> /\ feed' = Tail(feed) /\ UNCHANGED <<updates, shares, open>>
          /\ DecideBar(Head(feed), reading, risk.breaker, consumer.day)
      BY <2>1 DEF ConsumeBar
    <3>2. Head(feed) \in FeedBars /\ consumer.day \in 0..MaxDays
      BY <1>1, <3>1 DEF Typed, Consumers
    <3>3. feed' = <<>>
      BY <3>1, QuietConsumer
    <3> QED
      BY <3>1, <3>2, <3>3, NextDecided
  <2>2. ASSUME NEW equity \in AccountEquities, OpenDay(equity, reading)
        PROVE  OneAtATime' /\ Covered'
    <3>1. /\ consumer.at = "account" /\ UNCHANGED <<feed, updates, shares, open>>
          /\ DecideBar(consumer.bar, reading, risk'.breaker, consumer.day)
      BY <2>2 DEF OpenDay
    <3>2. consumer.bar \in FeedBars /\ consumer.day \in 0..MaxDays
      BY <1>1, <3>1 DEF Typed, Consumers
    <3>3. feed' = <<>>
      BY <1>1, <3>1 DEF OneAtATime
    <3> QED
      BY <3>1, <3>2, <3>3, NextDecided
  <2> QED
    BY <1>9, <2>1, <2>2
<1>10. CASE ConsumeFirstBarOfDay
  <2>1. feed # <<>> /\ feed' = Tail(feed) /\ UNCHANGED <<updates, shares, open>>
    BY <1>10 DEF ConsumeFirstBarOfDay
  <2>2. consumer'.at = "account"
    BY <1>1, <1>10 DEF ConsumeFirstBarOfDay, Typed, Consumers
  <2>3. feed' = <<>> /\ updates' = <<>> /\ NothingOpen'
    BY <2>1, QuietConsumer DEF NothingOpen
  <2> QED
    BY <2>1, <2>2, <2>3, NothingSent DEF OneAtATime
<1>11. CASE OrderAccepted
  <2>1. /\ consumer.at = "submit" /\ UNCHANGED <<shares, feed>> /\ consumer'.at = "listen"
        /\ open' = [open EXCEPT ![consumer.order.symbol] = Append(@, consumer.order)]
    BY <1>2, <1>11 DEF OrderAccepted
  <2>2. feed' = <<>>
    BY <1>1, <2>1 DEF OneAtATime
  <2> QED
    BY <2>1, <2>2, OrderLands
<1>12. CASE BrokerMoves
  <2>1. PICK z \in Symbols : \E i \in DOMAIN open[z] :
           Lapse(z, i) \/ \E qty \in 1..open[z][i].qty : Execute(z, i, qty)
    BY <1>12 DEF BrokerMoves
  <2>2. /\ \A s \in Symbols \ {z} : open'[s] = <<>> /\ shares'[s] = shares[s]
        /\ feed' = <<>> /\ consumer'.at = "listen"
        /\ \/ open'[z] = <<>> /\ shares'[z] >= 0 /\ Fits(shares'[z])
           \/ /\ Len(open'[z]) = 1 /\ shares'[z] >= 0 /\ Fits(shares'[z])
              /\ \A j \in DOMAIN open'[z] : Leads(open'[z][j], shares'[z])
    BY <2>1, MovesLoneOrder
  <2>3. OneAtATime'
    <3>1. \A s \in Symbols : open'[s] # <<>> =>
             Len(open'[s]) = 1 /\ \A other \in Symbols \ {s} : open'[other] = <<>>
      BY <2>2
    <3> QED
      BY <2>2, <3>1 DEF OneAtATime
  <2>4. Covered'
    <3>1. \A s \in Symbols : shares[s] >= 0 /\ Fits(shares[s])
      BY <1>1 DEF Covered
    <3>2. (\A s \in Symbols : shares[s] >= 0 /\ Fits(shares[s]))'
      <4>1. \A s \in Symbols : shares'[s] >= 0 /\ Fits(shares'[s])
        <5> SUFFICES ASSUME NEW s \in Symbols PROVE shares'[s] >= 0 /\ Fits(shares'[s])
          OBVIOUS
        <5>1. CASE s = z
          BY <2>2, <5>1
        <5>2. CASE s # z
          <6>1. shares'[s] = shares[s]
            BY <2>2, <5>2
          <6> QED
            BY <3>1, <6>1
        <5> QED
          BY <5>1, <5>2
      <4> QED
        BY <4>1 DEF Fits
    <3>3. (\A s \in Symbols : \A i \in DOMAIN open[s] : Leads(open[s][i], shares[s]))'
      <4>1. \A s \in Symbols : \A i \in DOMAIN open'[s] : Leads(open'[s][i], shares'[s])
        BY <2>2
      <4> QED
        BY <4>1
    <3> QED
      BY <2>2, <3>2, <3>3 DEF Covered
  <2> QED
    BY <2>3, <2>4
<1>13. ASSUME NEW s \in Symbols, NEW day \in 1..MaxDays, PublishBar(s, day)
       PROVE  OneAtATime' /\ Covered'
  <2> DEFINE bar == [symbol |-> s, close |-> Price, day |-> day]
  <2>1. /\ Settled /\ UNCHANGED <<shares, open, updates, consumer>>
        /\ feed' = Append(feed, bar)
    BY <1>1, <1>13 DEF PublishBar
  <2> HIDE DEF bar
  <2>2. updates = <<>> /\ NothingOpen /\ consumer.at = "listen" /\ feed = <<>>
    BY <2>1 DEF Settled, NothingOpen
  <2>3. Len(feed') = 1
    <3>1. feed' = <<bar>> /\ Len(<<bar>>) = 1
      BY <2>1, <2>2
    <3> QED
      BY <3>1
  <2>4. Covered'
    BY <2>1, NothingSent
  <2>5. OneAtATime'
    BY <2>1, <2>2, <2>3 DEF OneAtATime, NothingOpen
  <2> QED
    BY <2>4, <2>5
<1>14. CASE UNCHANGED vars
  BY <1>5, <1>14 DEF vars
<1> QED
  <2>1. (StopSignal \/ UncaughtFailure) => \E why, lands : lands \in BOOLEAN /\ EndSession(why, lands)
    BY DEF StopSignal, UncaughtFailure
  <2> QED
    BY <1>3, <1>4, <1>6, <1>7, <1>8, <1>9, <1>10, <1>11, <1>12, <1>13, <1>14, <2>1 DEF Next

LEMMA CalmInvHolds ==
    ASSUME Calm
    PROVE  Spec => [](SessionInv /\ CalmInv)
<1>1. SessionInv /\ SessionInv' /\ CalmInv /\ [Next]_vars => CalmInv'
  <2> SUFFICES ASSUME SessionInv, SessionInv', CalmInv, [Next]_vars PROVE CalmInv'
    OBVIOUS
  <2>1. CalmLife' /\ Aligned'
    BY NextCalmLife
  <2>2. OneAtATime' /\ Covered'
    BY NextCovered
  <2> QED
    BY <2>1, <2>2 DEF CalmInv
<1> QED
  BY <1>1, InitCalm, SessionInvHolds, PTL DEF Spec

----------------------------------------------------------------------------
\* What holds of every calm session.

\* exposure_tracker.py:3-6: once nothing is under way, the tracker is the account.
THEOREM TrackerIsCurrent ==
    ASSUME Calm
    PROVE  Spec => []TrackerCurrentWhenSettled
<1>1. SessionInv /\ CalmInv => TrackerCurrentWhenSettled
  <2> SUFFICES ASSUME SessionInv, CalmInv, Settled, NEW s \in Symbols
               PROVE  risk.tracker.positions[s].qty = shares[s]
    BY DEF TrackerCurrentWhenSettled
  <2>1. task["data"] # "off" /\ updates = <<>>
    BY DEF Settled, Streams
  <2>2. task["startup"] = "done"
    BY <2>1 DEF SessionInv, Life, Streams
  <2> QED
    BY <2>1, <2>2, BooksMeet DEF CalmInv
<1> QED
  BY <1>1, CalmInvHolds, PTL

\* momentum_lightgbm.py:1, "long-only": the account never sells what it does not
\* hold, however orders are filled or lapse and resyncs interleave.
THEOREM CalmIsNeverShort ==
    ASSUME Calm
    PROVE  Spec => []NeverShort
<1>1. CalmInv => NeverShort
  BY DEF CalmInv, Covered, NeverShort
<1> QED
  BY <1>1, CalmInvHolds, PTL

\* config/base.yaml:17: no position outgrows its share of an equity that the
\* account has shown, unless the account has only ever shown debts.
THEOREM CalmStaysWithinCap ==
    ASSUME Calm, \E equity \in AccountEquities : equity >= 0
    PROVE  Spec => []PositionWithinCap
<1>1. SessionInv /\ CalmInv => PositionWithinCap
  <2> SUFFICES ASSUME SessionInv, CalmInv, NEW s \in Symbols
               PROVE  \E equity \in AccountEquities :
                         100 * Abs(shares[s]) * Price <= equity * MaxPositionPct
    BY DEF PositionWithinCap
  <2>1. shares[s] \in Nat /\ Fits(shares[s])
    BY DEF SessionInv, Typed, CalmInv, Covered
  <2>2. Abs(shares[s]) = shares[s]
    BY <2>1 DEF Abs
  <2>3. CASE shares[s] > 0
    BY <2>1, <2>2, <2>3 DEF Fits
  <2>4. CASE shares[s] = 0
    <3>1. PICK equity \in AccountEquities : equity >= 0
      OBVIOUS
    <3>2. equity \in Nat /\ MaxPositionPct \in Nat /\ Price \in Nat
      BY <3>1, SessionAssumption, CapsAssumption
    <3>3. equity * MaxPositionPct >= 0 /\ 100 * 0 * Price = 0
      BY <3>2
    <3> QED
      BY <2>2, <2>4, <3>3
  <2> QED
    BY <2>1, <2>3, <2>4
<1> QED
  BY <1>1, CalmInvHolds, PTL

\* momentum_lightgbm.py:8-10: an exit is sent for the full held quantity; the gate
\* takes nothing off it.
THEOREM ExitsAreWhole ==
    ASSUME Calm
    PROVE  Spec => ExitsPassUnchanged
<1> DEFINE Sold == /\ consumer.at # "submit" /\ consumer'.at = "submit"
                   /\ consumer'.order.side = "sell"
           Whole == consumer'.order.qty = strategy.positions[consumer'.order.symbol]
<1>1. SessionInv /\ CalmInv /\ [Next]_vars => [Sold => Whole]_vars
  <2> SUFFICES ASSUME SessionInv, CalmInv, [Next]_vars, Sold PROVE Whole
    OBVIOUS
  <2>1. PICK bar \in FeedBars, reading \in Readings, today \in 0..MaxDays :
          /\ DecideBar(bar, reading, risk'.breaker, today)
          /\ risk'.tracker = risk.tracker /\ (feed # <<>> \/ consumer.at # "listen")
    BY SentIsDecided
  <2> DEFINE books == risk'.breaker
  <2>2. DecideBar(bar, reading, books, today) /\ (feed # <<>> \/ consumer.at # "listen")
    BY <2>1
  <2> HIDE DEF books
  <2> QED
    BY <2>2, DecidedLeads
<1> QED
  BY <1>1, CalmInvHolds, PTL DEF Spec, ExitsPassUnchanged

=============================================================================
