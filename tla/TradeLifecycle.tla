----------------------------- MODULE TradeLifecycle -----------------------------
(****************************************************************************)
(* What a long-only strategy behind the risk gate promises of every symbol: *)
(* flat, then one entry order, then long, then one exit order for all of    *)
(* it, then flat again.  There is never a second order beside an open one,  *)
(* an exit without shares to sell, or a sale beyond them.                   *)
(****************************************************************************)
CONSTANT Symbols

VARIABLE stage

Stages == {"flat", "entering", "long", "leaving"}

Init == stage = [s \in Symbols |-> "flat"]

Enter(s) ==
    /\ stage[s] = "flat"
    /\ stage' = [stage EXCEPT ![s] = "entering"]

\* An order too small for one whole share leaves the symbol flat.
EntryFilled(s) ==
    /\ stage[s] = "entering"
    /\ \E next \in {"long", "flat"} : stage' = [stage EXCEPT ![s] = next]

Leave(s) ==
    /\ stage[s] = "long"
    /\ stage' = [stage EXCEPT ![s] = "leaving"]

ExitFilled(s) ==
    /\ stage[s] = "leaving"
    /\ stage' = [stage EXCEPT ![s] = "flat"]

Next == \E s \in Symbols : Enter(s) \/ EntryFilled(s) \/ Leave(s) \/ ExitFilled(s)

Spec == Init /\ [][Next]_stage
=============================================================================
