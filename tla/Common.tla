--------------------------------- MODULE Common ---------------------------------
(* What several components share: Python's None, and integer helpers. *)
EXTENDS Integers

CONSTANT None

ASSUME NoneAssumption == None \notin Int

Abs(x) == IF x < 0 THEN -x ELSE x
Least(x, y) == IF x < y THEN x ELSE y

\* x < (1 - pct/100) * reference, exactly.
Below(x, pct, reference) == 100 * x < (100 - pct) * reference

\* The amount that is pct percent of x, whole ticks.
Percent(x, pct) == (x * pct) \div 100
=============================================================================
