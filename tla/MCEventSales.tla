----------------------------- MODULE MCEventSales ------------------------------
(* Small instances of EventSales for TLC.                                  *)
EXTENDS EventSales, TLC

CONSTANTS v1, v2

\* nothing, one of a variant, and one of another with two of the first
MCBaskets == {NoItems, (v1 :> 1) @@ (v2 :> 0), (v1 :> 2) @@ (v2 :> 1)}

Symmetry == Permutations(Requests) \cup Permutations(Admins) \cup Permutations(Sales)
================================================================================
