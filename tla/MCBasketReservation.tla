------------------------- MODULE MCBasketReservation ---------------------------
(* Small instances of BasketReservation for TLC.                           *)
EXTENDS BasketReservation, TLC

Symmetry == Permutations(Users)
================================================================================
