------------------------------- MODULE Totals -------------------------------
(***************************************************************************)
(* Totals of amounts, counted in whole rupiah: the amount f[x] of x is the *)
(* set of its rupiah <<x, 1>> .. <<x, f[x]>>, and a total is how many      *)
(* rupiah there are.                                                       *)
(***************************************************************************)
EXTENDS Integers, FiniteSets

Units(f, S) == UNION {{x} \X (1 .. f[x]) : x \in S}

SumOver(f, S) == Cardinality(Units(f, S))
=============================================================================
