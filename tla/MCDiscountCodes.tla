---------------------------- MODULE MCDiscountCodes -----------------------------
(* Small instances of DiscountCodes for TLC.                               *)
EXTENDS DiscountCodes, TLC

CONSTANTS ann, bea, k1, k2, vip

Symmetry == Permutations(Requests)

BeasCode == [i \in Referrals |-> bea]
Tiers == <<10, 15, 20>>

ShopForm == [code |-> k1, scope |-> "ALL_USERS", user |-> None, group |-> None, eligible |-> {},
             type |-> "FIXED", value |-> 3, min |-> None, from |-> -1, to |-> 0,
             max |-> 1, active |-> TRUE]
OneOff == {ShopForm, [ShopForm EXCEPT !.scope = "MULTIPLE_USERS", !.eligible = {ann},
                                      !.type = "PERCENT", !.value = 50, !.max = None,
                                      !.from = 1, !.to = 2]}
ShopChanges == {[max |-> 2, value |-> 1], [scope |-> "SINGLE_USER", user |-> bea, max |-> None],
                [eligible |-> {}], [code |-> k2], [min |-> 3, type |-> "PERCENT", value |-> 120]}

ClubForm == [code |-> k2, type |-> "PERCENT", value |-> 20, tier |-> "FLAT", tiers |-> {},
             usage |-> "SINGLE_USE", min |-> None, segment |-> None, from |-> 0, to |-> 1,
             active |-> TRUE]
Step(kind, at, value) == [kind |-> kind, at |-> at, value |-> value]
ClubsForms == {ClubForm,
    [ClubForm EXCEPT !.tier = "STEPPED", !.tiers = {Step("STEPPED", 2, 10), Step("STEPPED", 3, 30)},
                     !.usage = "MULTI_USE", !.segment = vip],
    [ClubForm EXCEPT !.tier = "USAGE_STEPPED", !.usage = "MULTI_USE", !.type = "FIXED",
                     !.tiers = {Step("USAGE_STEPPED", 1, 1), Step("USAGE_STEPPED", 2, 5)}]}
ClubsChanges == {[tier |-> "FLAT"], [tier |-> "USAGE_STEPPED", tiers |-> {Step("USAGE_STEPPED", 1, 50)}],
                 [usage |-> "MULTI_USE", code |-> k1, segment |-> None], [to |-> 0], [from |-> -1, to |-> 0]}

RefForms == {[code |-> k2, discount |-> 10, cashback |-> 10]}
RefChanges == {[discount |-> 15], [cashback |-> 5, active |-> FALSE]}
================================================================================
