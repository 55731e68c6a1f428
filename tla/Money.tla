------------------------------- MODULE Money --------------------------------
(***************************************************************************)
(* Sums of money.  An amount is a number of minor units; the total of the  *)
(* amounts of a set is the number of units there are in it, which is what  *)
(* SQL's SUM and a loop over the rows compute, in whatever order.          *)
(***************************************************************************)
EXTENDS Naturals, FiniteSets

Units(amount, S) == UNION {{x} \X (1..amount[x]) : x \in S}

TotalOf(amount, S) == Cardinality(Units(amount, S))
=============================================================================
