------------------------------- MODULE MCFloat --------------------------------
(* FloatPosition on small instances. *)
EXTENDS FloatPosition

CONSTANTS usd, eur

\* Three fills, the second in a currency of its own; two together exceed the maximum.
MCFill == 1..3
MCRowId == MCFill
MCFiatOf == [f \in MCFill |-> IF f = 2 THEN eur ELSE usd]
MCOverMax == {S \in SUBSET MCFill : Cardinality(S) >= 2}
===============================================================================
