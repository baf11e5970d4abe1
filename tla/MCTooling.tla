------------------------------- MODULE MCTooling -------------------------------
(* Two printing orders: o1 needs molds a and b, o2 needs a.                 *)
EXTENDS Tooling, TLC

CONSTANTS o1, o2, a, b

MCNeeds == o1 :> {a, b} @@ o2 :> {a}

\* The warehouse received both molds.
MCStock == a :> 1 @@ b :> 1

Symmetric == Permutations(Workers)

=============================================================================
