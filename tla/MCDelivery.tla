------------------------------- MODULE MCDelivery -------------------------------
(* Delivery on small sets for TLC.  Workers, consumers and aggregates are      *)
(* interchangeable in every property the symmetric runs check.                 *)
EXTENDS Delivery, TLC

Symmetry ==
  Permutations(Workers) \cup Permutations(Consumers) \cup Permutations(Aggregates)
================================================================================
