------------------------------- MODULE Orders -------------------------------
(***************************************************************************)
(* The elements of a finite set of numbers in their order, and the rows of *)
(* a table at a set of places.                                             *)
(***************************************************************************)
EXTENDS Integers, FiniteSets

(* sorted                                                                  *)
InOrder(S) ==
    [i \in 1..Cardinality(S) |-> CHOOSE x \in S : Cardinality({y \in S : y <= x}) = i]

(* The rows of a table at some places, in their order.                     *)
RowsAt(table, places) ==
    LET order == InOrder(places) IN [k \in 1..Cardinality(places) |-> table[order[k]]]
=============================================================================
