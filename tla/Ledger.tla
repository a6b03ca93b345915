--------------------------------- MODULE Ledger ---------------------------------
(****************************************************************************)
(* What keeping books promises, with no entry prices, averages or realized  *)
(* P&L: a holding per symbol and the cash left after paying for them.  A    *)
(* fill moves both by its signed quantity and its cost, and nothing else    *)
(* does but a statement of the broker, which replaces everything.           *)
(****************************************************************************)
EXTENDS Integers

CONSTANTS
    Symbols, Qtys, Prices,
    Statements   \* what the broker's REST answers may say: [holdings, cash]

VARIABLES holdings, cash

Init == \E st \in Statements : holdings = st.holdings /\ cash = st.cash

Buy(s, qty, price) ==
    /\ holdings' = [holdings EXCEPT ![s] = @ + qty]
    /\ cash' = cash - qty * price

Sell(s, qty, price) ==
    /\ holdings' = [holdings EXCEPT ![s] = @ - qty]
    /\ cash' = cash + qty * price

Reconcile ==
    \E st \in Statements : holdings' = st.holdings /\ cash' = st.cash

Next ==
    \/ \E s \in Symbols, qty \in Qtys, price \in Prices :
            Buy(s, qty, price) \/ Sell(s, qty, price)
    \/ Reconcile

Spec == Init /\ [][Next]_<<holdings, cash>>
=============================================================================
