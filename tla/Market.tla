--------------------------------- MODULE Market ---------------------------------
(* The vocabulary of orders and fills: a fill is [symbol, side, qty, price]. *)
EXTENDS Common

CONSTANT Symbols

Sides == {"buy", "sell"}

Signed(fill) == IF fill.side = "buy" THEN fill.qty ELSE -fill.qty
=============================================================================
