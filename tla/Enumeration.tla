------------------------------ MODULE Enumeration ------------------------------
(* The numbers of a finite set in their order, and what a sequence has at them.
   SetToSortSeq and SelectSeq say the same by a choice among permutations and by
   recursion; here a number's place is counted, which the proofs can follow.    *)
EXTENDS Naturals, FiniteSets

CountTo(set, i) == Cardinality({j \in set : j <= i})

InOrder(set) ==
  [n \in 1 .. Cardinality(set) |-> CHOOSE i \in set : CountTo(set, i) = n]

Picked(list, set) ==
  LET order == InOrder(set) IN [n \in DOMAIN order |-> list[order[n]]]
================================================================================
