---------------------------- MODULE MCTrackerLife ----------------------------
(* The tick makes every average of up to four fills a whole number. *)
EXTENDS TrackerLife

CONSTANTS s1, s2

Tick == 151200
MCPrices == {Tick, 3 * Tick}
NoPosition == [qty |-> 0, avgPrice |-> 0, marketValue |-> 0]
MCSnapshots ==
    {[positions |-> [s \in Symbols |-> NoPosition], equity |-> 10 * Tick],
     [positions |-> [s \in Symbols |->
        IF s = s1 THEN [qty |-> -2, avgPrice |-> 2 * Tick, marketValue |-> -2 * Tick]
        ELSE [qty |-> 1, avgPrice |-> 2 * Tick, marketValue |-> None]], equity |-> 5 * Tick]}
=============================================================================
