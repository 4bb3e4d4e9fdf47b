--------------------------- MODULE MCOrderSettlement ---------------------------
(* Small instances of OrderSettlement for TLC.                             *)
EXTENDS OrderSettlement, TLC

CONSTANTS o1, o2, alice, bob

(* Both orders belong to one user: a checkout may release the other order. *)
SameOwner == [o \in Orders |-> alice]
(* Two customers: the orders meet only in the stock and the discount code. *)
TwoOwners == [o \in Orders |-> IF o = o1 THEN alice ELSE bob]

OnlyFirst == {o1}
Symmetry == Permutations(Requests) \cup Permutations(Sweepers)
================================================================================
