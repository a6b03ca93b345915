-------------------------------- MODULE MCBreaker --------------------------------
(* Equities around both floors, a falsy and a negative one; red and green trades. *)
EXTENDS BreakerLife

MCEquities == {-10, 0, 99, 110}
MCPnls == {-2, 1}
=============================================================================
