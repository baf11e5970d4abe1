--------------------------- MODULE MCSequenceMove ---------------------------
(***************************************************************************)
(* SequenceMove on a small instance: an apparatus with one order at first. *)
(* Administrators are interchangeable.                                     *)
(***************************************************************************)
EXTENDS SequenceMove

CONSTANTS o1

OneOrder == <<o1>>

Symmetric == Permutations(Admins)

=============================================================================
