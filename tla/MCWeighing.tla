----------------------------- MODULE MCWeighing -----------------------------
(***************************************************************************)
(* Weighing on a small instance.  Batches, operations and goods are        *)
(* interchangeable; one of the two label codes is kept from the direct     *)
(* print.                                                                  *)
(***************************************************************************)
EXTENDS Weighing, TLC

Symmetry == Permutations(Batches) \cup Permutations(Operations) \cup Permutations(Goods)

=============================================================================
