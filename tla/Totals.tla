------------------------------- MODULE Totals -------------------------------
(* Totals of counts that are kept for the members of a set.                 *)
EXTENDS Integers, FiniteSets

\* The units that the members of S hold; a negative count holds none.
Units(S, f) == UNION {{x} \X (1 .. f[x]) : x \in S}

SumOver(S, f) == Cardinality(Units(S, f))
=============================================================================
