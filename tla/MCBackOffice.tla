------------------------------ MODULE MCBackOffice ------------------------------
(* Small instances of BackOffice and Reports for TLC.                      *)
EXTENDS Reports

MCPlaced == [qty |-> 1, price |-> 4, discount |-> 4, shipping |-> 2, packaging |-> 2,
             wallet |-> 2, code |-> TRUE]

(* One of one variant, or two of another with one of the first.            *)
CONSTANTS v1, v2
MCBaskets == {[v \in {v1, v2} |-> [qty |-> IF v = v1 THEN 1 ELSE n, price |-> 4 - n]] : n \in {0, 2}}

MCChanges == {[discount |-> 6, packaging |-> 0], [discount |-> 0, shipping |-> 6], [shipping |-> 0]}
================================================================================
