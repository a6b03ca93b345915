----------------------------- MODULE SimulatedBroker -----------------------------
(****************************************************************************)
(* The broker of src/backtest/engine.py.  A broker record holds the cash,   *)
(* the positions it settled, the last close of every symbol it has seen,    *)
(* the commission paid, and the pending orders.  The code keeps one pending *)
(* list and picks a symbol's orders out of it; no order of one symbol is    *)
(* ever compared with another's, so here each symbol has its own queue.     *)
(****************************************************************************)
EXTENDS Market, Sequences, FiniteSetsExt

CONSTANTS
    InitialCapital, SlippageBps, CommissionPerShare

ASSUME CostAssumption ==
    /\ InitialCapital \in Nat
    /\ SlippageBps \in 0..10000
    /\ CommissionPerShare \in Nat

\* `day` is the timestamp the engine's order list keeps for the order.
Orders == [symbol : Symbols, side : Sides, qty : Nat, day : Nat]

Brokers ==
    [cash       : Int,
     positions  : [Symbols -> [qty : Int, avgPrice : Int]],
     lastPrice  : [Symbols -> Int \union {None}],
     pending    : [Symbols -> Seq(Orders)],
     commission : Int]

NewBroker ==
    [cash       |-> InitialCapital,
     positions  |-> [s \in Symbols |-> [qty |-> 0, avgPrice |-> 0]],
     lastPrice  |-> [s \in Symbols |-> None],
     pending    |-> [s \in Symbols |-> <<>>],
     commission |-> 0]

----------------------------------------------------------------------------

SubmitOrder(broker, order) ==
    [broker EXCEPT !.pending[order.symbol] = Append(@, order)]

\* Slippage always hurts.
FillOf(order, open) ==
    [symbol |-> order.symbol, side |-> order.side, qty |-> order.qty,
     price |-> (open * (IF order.side = "buy" THEN 10000 + SlippageBps
                        ELSE 10000 - SlippageBps)) \div 10000]

\* _settle: unlike the tracker, the average survives a close, and a crossing of
\* zero keeps the old one.
Settled(pos, fill) ==
    LET newQty == pos.qty + Signed(fill)
    IN  [qty |-> newQty,
         avgPrice |-> IF pos.qty * Signed(fill) >= 0 /\ newQty # 0
                      THEN (Abs(pos.qty) * pos.avgPrice + fill.qty * fill.price)
                                \div Abs(newQty)
                      ELSE pos.avgPrice]

\* Wrong on purpose: the commission is charged but not reported.
FillAtOpenUnreported(broker, fill) ==
    [broker EXCEPT
        !.cash = @ - Signed(fill) * fill.price - fill.qty * CommissionPerShare,
        !.positions[fill.symbol] = Settled(@, fill),
        !.pending[fill.symbol] = Tail(@)]

\* fill_at_open for the oldest pending order of the bar's symbol.
FillAtOpen(broker, fill) ==
    LET commission == fill.qty * CommissionPerShare
    IN  [broker EXCEPT
            !.cash = @ - Signed(fill) * fill.price - commission,
            !.commission = @ + commission,
            !.positions[fill.symbol] = Settled(@, fill),
            !.pending[fill.symbol] = Tail(@)]

Mark(broker, bar) == [broker EXCEPT !.lastPrice[bar.symbol] = bar.close]

MarketPrice(broker, s) ==
    IF broker.lastPrice[s] = None THEN broker.positions[s].avgPrice ELSE broker.lastPrice[s]

BrokerEquity(broker) ==
    broker.cash
      + MapThenSumSet(LAMBDA s : broker.positions[s].qty * MarketPrice(broker, s), Symbols)

\* get_positions
PositionsReport(broker) ==
    [s \in Symbols |->
        [qty |-> broker.positions[s].qty, avgPrice |-> broker.positions[s].avgPrice,
         marketValue |-> broker.positions[s].qty * MarketPrice(broker, s)]]
=============================================================================
