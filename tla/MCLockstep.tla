----------------------------- MODULE MCLockstep -----------------------------
(***************************************************************************)
(* Instances of Lockstep for TLC: who may give how many orders.            *)
(***************************************************************************)
EXTENDS LockstepProperties, TLC

CONSTANT c1  \* a model value among Clients

NoOrders       == [c \in Clients |-> 0]
OneOrderOfOne  == [c \in Clients |-> IF c = c1 THEN 1 ELSE 0]
TwoOrdersOfOne == [c \in Clients |-> IF c = c1 THEN 2 ELSE 0]

Symmetry == Permutations(Clients)
=============================================================================
