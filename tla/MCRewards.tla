------------------------------- MODULE MCRewards --------------------------------
(* Small instances of Rewards for TLC.                                     *)
EXTENDS Rewards

CONSTANTS ann, bea, o1, o2, o3, i1, i2, dress

Symmetry == Permutations(Requests)

ThreeOwners == (o1 :> ann) @@ (o2 :> bea) @@ (o3 :> bea)
ThreeAmounts == (o1 :> 40) @@ (o2 :> 20) @@ (o3 :> 10)
Earlier == (o3 :> -1)
Rows == (ann :> <<>>) @@ (bea :> <<[segment |-> "new", frequency |-> 1]>>)
ThreeCategories == (o1 :> {dress}) @@ (o2 :> {}) @@ (o3 :> {dress})

Cashback(type, value, target, min, days) ==
    [kind |-> "CASHBACK", trigger |-> "PAID", active |-> TRUE, from |-> 0, to |-> 1, target |-> target,
     type |-> type, value |-> value, min |-> min, expiresAfter |-> days]
Coupon(trigger, type, value, min, category) ==
    [kind |-> "COUPON", trigger |-> trigger, active |-> TRUE, from |-> 0, to |-> 2, target |-> None,
     type |-> type, value |-> value, config |-> [min |-> min, category |-> category]]

Share == Cashback("PERCENTAGE", 50, None, None, 1)
Flat == Cashback("FIXED_AMOUNT", 15, "vip", 10, None)
First == Coupon("FIRST_PURCHASE", "FIXED_AMOUNT", 15, None, None)
Dresses == Coupon("CATEGORY_PURCHASE", "FIXED_AMOUNT", 2, None, dress)
Invite == Coupon("REFERRAL", "FIXED_AMOUNT", 3, None, None)

Tables == {(i1 :> a) @@ (i2 :> b) : <<a, b>> \in
              {<<Share, First>>, <<Flat, NoRow>>}}
Referred == {<<ann, o2>>, <<ann, None>>}
OneGiven == {[id |-> 0, incentive |-> i1, customer |-> bea, order |-> o3, trigger |-> "PAID",
              on |-> -1, amount |-> 10, expires |-> 1]}
TwoUses == {<<10, None>>, <<20, 1>>}
NewForms == {[Share EXCEPT !.value = 150], Share, Invite, Dresses}
NewChanges == {[type |-> "PERCENTAGE", value |-> 120],
               [trigger |-> "PURCHASE_ABOVE_AMOUNT", config |-> [min |-> 15, category |-> None]],
               [from |-> 1, to |-> 2, target |-> "new"]}
================================================================================
