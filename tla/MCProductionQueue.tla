--------------------------- MODULE MCProductionQueue ---------------------------
(***************************************************************************)
(* Plants and servers for model-checking ProductionQueue.  Requests are    *)
(* interchangeable, all on one process or each on its own, and so are the  *)
(* identities of colour-trial holds; orders are not: they have an arrival. *)
(***************************************************************************)
EXTENDS ProductionQueue

CONSTANTS o1, o2, r1, r2, s1, s2

OneOrder == <<o1>>
TwoOrders == <<o1, o2>>

OneServer == [r \in Requests |-> s1]
TwoServers == [r \in Requests |-> IF r = r1 THEN s1 ELSE s2]

Symmetric == Permutations(Requests) \union Permutations(HoldIds)

=============================================================================
