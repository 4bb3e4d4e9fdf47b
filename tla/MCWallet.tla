-------------------------------- MODULE MCWallet --------------------------------
(* Small instances of Wallet for TLC.                                      *)
EXTENDS Wallet, TLC

CONSTANTS alice, bob

(* Everything belongs to one customer, but for the referral code.          *)
OneCustomer == [i \in Rows |-> alice]
OtherReferrer == [o \in Orders |-> bob]
Symmetry == Permutations(Requests \ Admins)
================================================================================
