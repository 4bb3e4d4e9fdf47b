----------------------------- MODULE DiscountCodes ------------------------------
(* What a customer pays less, and by which code: the shop's own codes      *)
(* (DiscountCode), the codes of the customer club (Incentive with          *)
(* DiscountCodeDetail), referral codes, and the welcome tiers of customers *)
(* without a code.  Checkout and its preview price a basket, the till      *)
(* redeems club codes, administrators and owners write the rows.           *)
(*                                                                         *)
(* A checkout is one transaction under the lock checkout:<user>; a till's  *)
(* redemption one under redeem:<code>:<customer>.  Each reads in one step  *)
(* and writes and commits in another.  An update loads the row in one step *)
(* and writes in another.  A code's text is a model value.  Amounts are    *)
(* cents of a basket and whole units in the rows.                          *)
EXTENDS Integers, FiniteSetsExt, Functions

CONSTANTS
    Buyers, Requests, Admins, Orders,
    Codes,            \* texts of codes
    Discounts, Clubs, Referrals,    \* ids of rows of the three tables
    Owner,            \* ReferralCode.ownerId
    DiscountForms, ClubForms, ReferralForms,        \* bodies of create
    DiscountChanges, ClubChanges, ReferralChanges,  \* bodies of update
    Subtotals,        \* sums of a basket, in cents
    Segments, Groups, \* CustomerSegment, CustomerGroup
    ShippingPrice,    \* of the shipping method, in cents
    FreeFrom,         \* the free shipping threshold, in cents; 0 is none
    MaxReferralUses,  \* MAX_REFERRAL_USES_PER_BUYER, 3 in the code
    WelcomeTiers,     \* percents of the first purchases: <<10, 15, 20>>
    AtTill,           \* the customers who also shop at the till
    MaxTime, MaxActs, MaxEdits  \* bounds: requests of customers, all else

CONSTANT None         \* null
ASSUME NoneAssumption == None \notin Buyers \cup Codes \cup Segments \cup Groups \cup Nat
ASSUME AmountsAssumption ==
    /\ Subtotals \subseteq Nat /\ {ShippingPrice, FreeFrom, MaxReferralUses} \subseteq Nat
    /\ {MaxTime, MaxActs, MaxEdits} \subseteq Nat /\ AtTill \subseteq Buyers
    /\ Orders \subseteq Nat /\ IsFiniteSet(Orders)
    /\ \A n \in DOMAIN WelcomeTiers : WelcomeTiers[n] \in 0..100

(* What the validation of a body lets through, field by field.             *)
DiscountFields ==
    [code |-> Codes, scope |-> {"ALL_USERS", "SINGLE_USER", "MULTIPLE_USERS", "USER_GROUP"},
     user |-> Buyers \cup {None}, group |-> Groups \cup {None}, eligible |-> SUBSET Buyers,
     type |-> {"PERCENT", "FIXED"}, value |-> Int, min |-> Nat \cup {None},
     from |-> Int, to |-> Int, max |-> Nat \cup {None}, active |-> BOOLEAN]
Tier == [kind : {"STEPPED", "USAGE_STEPPED"}, at : Nat, value : Int]
ClubFields ==
    [code |-> Codes, type |-> {"PERCENT", "FIXED"}, value |-> Int,
     tier |-> {"FLAT", "STEPPED", "USAGE_STEPPED"}, tiers |-> {T \in SUBSET Tier : IsFiniteSet(T)},
     usage |-> {"SINGLE_USE", "MULTI_USE"}, min |-> Nat \cup {None},
     segment |-> Segments \cup {None}, from |-> Int, to |-> Int, active |-> BOOLEAN]
ReferralFields == [code |-> Codes, discount |-> Int, cashback |-> Int, active |-> BOOLEAN]

Typed(f, fields) == \A x \in DOMAIN fields : f[x] \in fields[x]
Body(f, fields) == DOMAIN f = DOMAIN fields /\ Typed(f, fields)
Change(f, fields) == DOMAIN f \subseteq DOMAIN fields /\ \A x \in DOMAIN f : f[x] \in fields[x]

ASSUME BodiesAssumption ==
    /\ \A f \in DiscountForms : Body(f, DiscountFields)
    /\ \A f \in ClubForms : Body(f, ClubFields)
    /\ \A f \in ReferralForms : Change(f, ReferralFields) /\ DOMAIN f = {"code", "discount", "cashback"}
    /\ \A f \in DiscountChanges : Change(f, DiscountFields)
    /\ \A f \in ClubChanges : Change(f, ClubFields)
    /\ \A f \in ReferralChanges : Change(f, ReferralFields) /\ "code" \notin DOMAIN f

VARIABLES
    now,
    discount, club, referral,    \* the rows of the three tables
    order,                       \* rows of Order, as far as discounts go
    till,                        \* redemptions of a club code at the till
    member,                      \* a customer's latest segment
    grant,                       \* free shippings a customer has left
    shopSales,                   \* OfflineSale rows of a customer
    job,                         \* what a request or an administrator is doing
    peak,                        \* ghost: the highest limit a code has had
    acts, edits

rowVars == <<discount, club, referral>>
vars == <<now, rowVars, order, till, member, grant, shopSales, job, peak, acts, edits>>

Idle == [kind |-> "idle"]
NoRow == [live |-> FALSE]
(* The fields of f, and those of g that f does not give.                   *)
Over(f, g) == [x \in DOMAIN f \cup DOMAIN g |-> IF x \in DOMAIN f THEN f[x] ELSE g[x]]
Live(table) == {i \in DOMAIN table : table[i].live}
WithCode(table, c) == {i \in Live(table) : table[i].code = c}

--------------------------------------------------------------------------------
(* Amounts.                                                                *)

\* Math.round of n / d
Rounded(n, d) == (2 * n + d) \div (2 * d)
\* Mutant: a discount may exceed its basket
ClampedBelow(x, top) == Max({0, x})
Clamped(x, top) == Max({0, Min({x, top})})
Share(percent, cents) == Rounded(cents * percent, 100)

(* computeDiscountAmountCents.                                             *)
DiscountCents(row, cents) ==
    Clamped(IF row.type = "PERCENT" THEN Share(row.value, cents) ELSE 100 * row.value, cents)

(* calculateDiscountAmount: the rate of the step that applies, 0 if none.  *)
Rate(row, cents, uses) ==
    LET reached == {t \in row.tiers : 100 * t.at <= cents}
        steps == IF row.tier = "USAGE_STEPPED" THEN {t \in row.tiers : t.at = uses + 1}
                 ELSE {t \in reached : \A u \in reached : u.at <= t.at}
    IN  IF row.tier = "FLAT" THEN row.value ELSE Max({t.value : t \in steps} \cup {0})

ClubCents(row, cents, uses) ==
    LET rate == Rate(row, cents, uses)
    IN  Clamped(IF row.type = "PERCENT" THEN Share(rate, cents) ELSE 100 * rate, cents)

--------------------------------------------------------------------------------
(* What the database knows of a customer.                                  *)

OrdersOf(b) == {o \in Orders : order[o].buyer = b}
ReferralUses(i, b) ==
    Cardinality({o \in OrdersOf(b) : order[o].by = "referral" /\ order[o].id = i})
OnlineUses(i, b) ==
    Cardinality({o \in OrdersOf(b) : order[o].by = "club" /\ order[o].id = i})
ClubUses(i, b) == OnlineUses(i, b) + till[i][b]

(* countWelcomeTierPurchases.                                              *)
Purchases(b) == Cardinality({o \in OrdersOf(b) : order[o].pay = "PAID"}) + shopSales[b]

--------------------------------------------------------------------------------
(* Pricing.  A result says whether the code is accepted, the discount, and *)
(* which row gives it.                                                     *)

Refused == [ok |-> FALSE]
Result(cents, by, id) == [ok |-> TRUE, cents |-> cents, by |-> by, id |-> id]

Open(row) == row.active /\ row.from <= now /\ now <= row.to

(* A shop code may be used by b for this subtotal.                         *)
Admits(row, b, cents) ==
    /\ ~row.deleted /\ Open(row)
    /\ row.max # None => row.used < row.max
    /\ row.scope # "USER_GROUP"
    /\ row.scope = "MULTIPLE_USERS" => b \in row.eligible
    /\ row.scope = "SINGLE_USER" /\ row.user # None => row.user = b
    /\ row.min # None => cents >= 100 * row.min

(* validateRedemption.                                                     *)
Redeemable(row, b, cents, uses) ==
    /\ Open(row)
    /\ row.segment # None => member[b] = row.segment
    /\ row.usage = "SINGLE_USE" => uses = 0
    /\ row.tier = "USAGE_STEPPED" => uses < Cardinality(row.tiers)
    /\ row.min # None => cents >= 100 * row.min

(* lookupLoyaltyDiscount.                                                  *)
ByClub(i, b, cents) ==
    LET uses == ClubUses(i, b)
    IN  IF Redeemable(club[i], b, cents, uses)
        THEN Result(ClubCents(club[i], cents, uses), "club", i) ELSE Refused

(* lookupForCheckout of the referral service.                              *)
ByReferral(i, b, cents) ==
    IF /\ referral[i].active /\ ~referral[i].deleted
       /\ Owner[i] # b /\ ReferralUses(i, b) < MaxReferralUses
    THEN Result(Share(referral[i].discount, cents), "referral", i) ELSE Refused

(* Not in the shop's table: the club's, then the referrals', are searched. *)
Elsewhere(b, c, cents) ==
    LET clubs == WithCode(club, c)
        refs == WithCode(referral, c)
    IN  CASE clubs # {} -> ByClub(CHOOSE i \in clubs : TRUE, b, cents)
          [] clubs = {} /\ refs # {} -> ByReferral(CHOOSE i \in refs : TRUE, b, cents)
          [] OTHER -> Refused

(* computeAutoWelcomeDiscount.                                             *)
Welcome(b, cents) ==
    LET n == Purchases(b) + 1
    IN  IF n \in DOMAIN WelcomeTiers
        THEN Result(Share(WelcomeTiers[n], cents), "welcome", n) ELSE Result(0, "none", None)

(* The discount of a checkout.                                             *)
Priced(b, c, cents) ==
    LET rows == WithCode(discount, c)
        i == CHOOSE i \in rows : TRUE
    IN  CASE c = None -> Welcome(b, cents)
          [] c # None /\ rows # {} ->
                IF Admits(discount[i], b, cents)
                THEN Result(DiscountCents(discount[i], cents), "shop", i) ELSE Refused
          [] OTHER -> Elsewhere(b, c, cents)

(* Shipping of a checkout: the threshold is tried first, so that a free    *)
(* shipping of the customer is not used up for nothing.                    *)
FreeByThreshold(cents) == FreeFrom > 0 /\ cents >= FreeFrom
UsesGrant(b, cents) == ShippingPrice > 0 /\ ~FreeByThreshold(cents) /\ grant[b] > 0
Shipping(b, cents) ==
    IF FreeByThreshold(cents) \/ UsesGrant(b, cents) THEN 0 ELSE ShippingPrice

(* Mutant: the preview lets through one use more than the checkout.        *)
PreviewBarsLate(row, b, cents) ==
    \/ row.deleted \/ ~row.active \/ now < row.from \/ now > row.to
    \/ row.max # None /\ row.used > row.max

(* checkoutPreview has its own copy of the conditions on a shop code.      *)
PreviewBars(row, b, cents) ==
    \/ row.deleted \/ ~row.active \/ now < row.from \/ now > row.to
    \/ row.max # None /\ row.used >= row.max
    \/ row.scope = "USER_GROUP"
    \/ row.scope = "MULTIPLE_USERS" /\ b \notin row.eligible
    \/ row.scope = "SINGLE_USER" /\ row.user \notin {None, b}
    \/ row.min # None /\ cents < 100 * row.min

(* checkoutPreview: what checkout would charge, without any effect.        *)
Preview(b, c, cents) ==
    LET shop == {discount[i] : i \in WithCode(discount, c)}
        other == IF c = None THEN Welcome(b, cents) ELSE Elsewhere(b, c, cents)
        ok == IF shop = {} THEN other.ok ELSE \A row \in shop : ~PreviewBars(row, b, cents)
        free == (FreeFrom > 0 /\ cents >= FreeFrom) \/ grant[b] > 0
    IN  IF ~ok THEN Refused
        ELSE [ok |-> TRUE, shipping |-> IF free THEN 0 ELSE ShippingPrice,
              cents |-> IF shop = {} THEN other.cents
                        ELSE Max({DiscountCents(row, cents) : row \in shop})]

--------------------------------------------------------------------------------
(* Checkout and the till.                                                  *)

(* Mutant: checkout does not take its customer's lock.                     *)
CheckoutLockFreeAlways(b) == TRUE

CheckoutLockFree(b) ==
    \A r \in Requests : job[r].kind = "checkout" => job[r].buyer # b

RedeemLockFree(b, c) ==
    \A r \in Requests : job[r].kind = "till" => job[r].buyer # b \/ job[r].code # c

Act == acts < MaxActs /\ acts' = acts + 1 /\ UNCHANGED edits
Edit == edits < MaxEdits /\ edits' = edits + 1 /\ UNCHANGED acts
Free == {o \in Orders : order[o].buyer = None}
SeenUses(p, b) ==
    CASE p.by = "referral" -> ReferralUses(p.id, b)
      [] p.by = "club" -> OnlineUses(p.id, b)
      [] OTHER -> 0

(* Begin a checkout: take the lock, look up code and shipping, price.      *)
BeginCheckout(r, b, c, cents) ==
    /\ job[r] = Idle /\ Free # {} /\ CheckoutLockFree(b) /\ Act
    /\ LET p == Priced(b, c, cents)
       IN  /\ p.ok
           /\ job' = [job EXCEPT ![r] =
                [kind |-> "checkout", buyer |-> b, code |-> c, cents |-> cents, price |-> p,
                 max |-> IF p.by = "shop" THEN discount[p.id].max ELSE None,
                 grant |-> UsesGrant(b, cents), shipping |-> Shipping(b, cents),
                 seen |-> SeenUses(p, b)]]
    /\ UNCHANGED <<now, rowVars, order, till, member, grant, shopSales, peak>>

(* Mutant: the use is counted without the condition on the limit.          *)
TakesUseAlways(j) == j.price.by = "shop" => discount[j.price.id].code = j.code

(* The conditional count of a use of a shop code, with the limit as read.  *)
TakesUse(j) ==
    LET row == discount[j.price.id]
    IN  j.price.by = "shop" =>
            /\ row.code = j.code
            /\ j.max # None => ~row.deleted /\ row.active /\ row.used < j.max

(* Count the use, create the order and its redemption, commit.             *)
FinishCheckout(r) ==
    /\ job[r].kind = "checkout" /\ Free # {}
    /\ LET j == job[r]
           o == Min(Free)
       IN  IF TakesUse(j)
           THEN /\ order' = [order EXCEPT ![o] =
                        [buyer |-> j.buyer, code |-> j.code, by |-> j.price.by, id |-> j.price.id,
                         cents |-> j.cents, discount |-> j.price.cents, pay |-> "PENDING",
                         payable |-> j.cents - j.price.cents + j.shipping, revived |-> FALSE]]
                /\ discount' = IF j.price.by = "shop"
                               THEN [discount EXCEPT ![j.price.id].used = @ + 1] ELSE discount
                /\ grant' = IF j.grant THEN [grant EXCEPT ![j.buyer] = @ - 1] ELSE grant
           ELSE UNCHANGED <<order, discount, grant>>
    /\ job' = [job EXCEPT ![r] = Idle]
    /\ UNCHANGED <<now, club, referral, till, member, shopSales, peak, acts, edits>>

(* redeem: the lock, then the row, the segment and the count are read.     *)
BeginRedeem(r, b, c, cents) ==
    /\ job[r] = Idle /\ RedeemLockFree(b, c) /\ Act
    /\ \E i \in WithCode(club, c) :
        /\ ByClub(i, b, cents).ok
        /\ job' = [job EXCEPT ![r] =
                [kind |-> "till", buyer |-> b, code |-> c, id |-> i, seen |-> till[i][b]]]
    /\ UNCHANGED <<now, rowVars, order, till, member, grant, shopSales, peak>>

FinishRedeem(r) ==
    /\ job[r].kind = "till"
    /\ till' = [till EXCEPT ![job[r].id][job[r].buyer] = @ + 1]
    /\ job' = [job EXCEPT ![r] = Idle]
    /\ UNCHANGED <<now, rowVars, order, member, grant, shopSales, peak, acts, edits>>

--------------------------------------------------------------------------------
(* The order is settled; its code is found by its text.                    *)

Counted(o, by) ==
    [i \in Discounts |->
        IF i \in WithCode(discount, order[o].code) /\ ~discount[i].deleted
        THEN [discount[i] EXCEPT !.used = Max({0, @ + by})] ELSE discount[i]]

Pay(o) ==
    /\ order[o].pay = "PENDING"
    /\ order' = [order EXCEPT ![o].pay = "PAID"]
    /\ UNCHANGED <<now, rowVars, till, member, grant, shopSales, job, peak, acts, edits>>

Release(o) ==
    /\ order[o].pay = "PENDING"
    /\ order' = [order EXCEPT ![o].pay = "FAILED"]
    /\ discount' = Counted(o, -1)
    /\ UNCHANGED <<now, club, referral, till, member, grant, shopSales, job, peak, acts, edits>>

Revive(o) ==
    /\ order[o].pay = "FAILED"
    /\ order' = [order EXCEPT ![o].pay = "PAID", ![o].revived = TRUE]
    /\ discount' = Counted(o, 1)
    /\ UNCHANGED <<now, club, referral, till, member, grant, shopSales, job, peak, acts, edits>>

--------------------------------------------------------------------------------
(* Creating and changing rows.                                             *)

ValueFits(type, value) == value > 0 /\ (type = "PERCENT" => value <= 100)

(* assertScopePayload.                                                     *)
ScopeFits(scope, user, group, users) ==
    /\ (user # None) = (scope = "SINGLE_USER")
    /\ (group # None) = (scope = "USER_GROUP")
    /\ (users # {}) = (scope = "MULTIPLE_USERS")

(* assertTierRules; a tier's "at" is its amount or the index of the use.   *)
TiersFit(tier, type, tiers, usage) ==
    /\ (tiers = {}) = (tier = "FLAT")
    /\ \A t \in tiers : t.kind = tier /\ ValueFits(type, t.value)
    /\ \A t, u \in tiers : t.at = u.at => t = u
    /\ tier = "USAGE_STEPPED" =>
            usage = "MULTI_USE" /\ {t.at : t \in tiers} = 1..Cardinality(tiers)

\* assertPercentRules, MAX_COMBINED_REFERRAL_PERCENT
PercentsFit(d, k) == d >= 0 /\ k >= 0 /\ d + k <= 20

CodeFree(table, i, c) == WithCode(table, c) \subseteq {i}
\* the unique index of a table
Unique(table) == \A i \in Live(table) : CodeFree(table, i, table[i].code)

DiscountRow(f) == Over([live |-> TRUE, used |-> 0, deleted |-> FALSE], f)
ClubRow(f) == Over([live |-> TRUE, renamed |-> FALSE], f)
ReferralRow(f) == Over([live |-> TRUE, deleted |-> FALSE, active |-> TRUE], f)

DiscountFormFits(f) ==
    /\ ScopeFits(f.scope, f.user, f.group, f.eligible)
    /\ ValueFits(f.type, f.value) /\ f.from < f.to
ClubFormFits(f) ==
    ValueFits(f.type, f.value) /\ TiersFit(f.tier, f.type, f.tiers, f.usage) /\ f.from < f.to

Limit(row) == IF row.live /\ row.max # None THEN row.max
              ELSE IF row.live THEN Cardinality(Orders) + 1 ELSE 0
Raised(i, row) == [peak EXCEPT ![i] = Max({@, Limit(row)})]

CreateDiscount(i, f) ==
    /\ ~discount[i].live /\ DiscountFormFits(f) /\ CodeFree(discount, i, f.code) /\ Edit
    /\ discount' = [discount EXCEPT ![i] = DiscountRow(f)]
    /\ peak' = Raised(i, DiscountRow(f))
    /\ UNCHANGED <<now, club, referral, order, till, member, grant, shopSales, job>>

CreateClub(i, f) ==
    /\ ~club[i].live /\ ClubFormFits(f) /\ CodeFree(club, i, f.code) /\ Edit
    /\ club' = [club EXCEPT ![i] = ClubRow(f)]
    /\ UNCHANGED <<now, discount, referral, order, till, member, grant, shopSales, job, peak>>

(* createForSelf, for a customer who has bought, and createForBlogger; the *)
(* code is a fresh one.                                                    *)
CreateReferral(i, f, blogger) ==
    /\ ~referral[i].live /\ PercentsFit(f.discount, f.cashback) /\ Edit
    /\ blogger \/ Purchases(Owner[i]) > 0
    /\ CodeFree(referral, i, f.code)
    /\ referral' = [referral EXCEPT ![i] = ReferralRow(f)]
    /\ UNCHANGED <<now, discount, club, order, till, member, grant, shopSales, job, peak>>

(* remove and the two deactivate: at once.                                 *)
RemoveDiscount(i) ==
    /\ discount[i].live /\ ~discount[i].deleted /\ Edit
    /\ discount' = [discount EXCEPT ![i].deleted = TRUE, ![i].active = FALSE]
    /\ UNCHANGED <<now, club, referral, order, till, member, grant, shopSales, job, peak>>

DeactivateClub(i) ==
    /\ club[i].live /\ club[i].active /\ Edit
    /\ club' = [club EXCEPT ![i].active = FALSE]
    /\ UNCHANGED <<now, discount, referral, order, till, member, grant, shopSales, job, peak>>

DeactivateReferral(i) ==
    /\ referral[i].live /\ ~referral[i].deleted /\ Edit
    /\ referral' = [referral EXCEPT ![i].active = FALSE, ![i].deleted = TRUE]
    /\ UNCHANGED <<now, discount, club, order, till, member, grant, shopSales, job, peak>>

(* The three updates begin by loading the row; a referral code's must not  *)
(* be deleted.                                                             *)
LoadRow(a, table, i, row, change) ==
    /\ job[a] = Idle /\ row.live /\ Edit
    /\ table = "referral" => ~row.deleted
    /\ job' = [job EXCEPT ![a] = [kind |-> table, id |-> i, row |-> row, change |-> change]]
    /\ UNCHANGED <<now, rowVars, order, till, member, grant, shopSales, peak>>

Given(j, fields) == DOMAIN j.change \cap fields # {}
Now(j, field) == IF field \in DOMAIN j.change THEN j.change[field] ELSE j.row[field]
Kept(j, fields) == Restrict(j.change, DOMAIN j.change \ fields)

(* The user or the group of a code: cleared by a change to another scope.  *)
ForScope(j, field, scope) ==
    IF Given(j, {"scope"}) /\ j.change.scope # scope THEN None ELSE Now(j, field)

DiscountChangeFits(j) ==
    LET scope == Now(j, "scope")
        many == scope = "MULTIPLE_USERS"
    IN  /\ many /\ j.row.scope # scope => Given(j, {"eligible"})
        /\ IF many THEN Now(j, "eligible") # {} /\ Now(j, "eligible") \subseteq Buyers
           ELSE ScopeFits(scope, ForScope(j, "user", "SINGLE_USER"), ForScope(j, "group", "USER_GROUP"), {})
        /\ Given(j, {"type", "value"}) => ValueFits(Now(j, "type"), Now(j, "value"))
        /\ Now(j, "from") < Now(j, "to")
        /\ Given(j, {"code"}) => CodeFree(discount, j.id, j.change.code)

(* scope, user, group and dates are always written, as they were loaded or *)
(* are given; the list of users when the scope or a new list says so.      *)
DiscountChanged(j, row) == Over(
    [scope |-> Now(j, "scope"), from |-> Now(j, "from"), to |-> Now(j, "to"),
     user |-> ForScope(j, "user", "SINGLE_USER"), group |-> ForScope(j, "group", "USER_GROUP"),
     eligible |-> IF Now(j, "scope") # "MULTIPLE_USERS" THEN {}
                  ELSE IF Given(j, {"eligible"}) THEN j.change.eligible ELSE row.eligible],
    Over(Kept(j, {"eligible"}), row))

StoreDiscount(a) ==
    /\ job[a].kind = "discount"
    /\ LET j == job[a]
           row == DiscountChanged(j, discount[j.id])
       IN  IF DiscountChangeFits(j)
           THEN discount' = [discount EXCEPT ![j.id] = row] /\ peak' = Raised(j.id, row)
           ELSE UNCHANGED <<discount, peak>>
    /\ job' = [job EXCEPT ![a] = Idle]
    /\ UNCHANGED <<now, club, referral, order, till, member, grant, shopSales, acts, edits>>

ClubChangeFits(j) ==
    LET tier == Now(j, "tier")
        tiers == IF tier = "FLAT" THEN {} ELSE Now(j, "tiers")
    IN  /\ Given(j, {"type", "value"}) => ValueFits(Now(j, "type"), Now(j, "value"))
        /\ Given(j, {"tier", "tiers"}) => TiersFit(tier, Now(j, "type"), tiers, Now(j, "usage"))
        /\ Given(j, {"from", "to"}) => Now(j, "from") < Now(j, "to")
        /\ CodeFree(club, j.id, Now(j, "code"))

(* Code and dates are always written, as they were loaded or are given.    *)
ClubChanged(j, row) == Over(
    [code |-> Now(j, "code"), from |-> Now(j, "from"), to |-> Now(j, "to"),
     renamed |-> row.renamed \/ Now(j, "code") # row.code,
     tiers |-> IF ~Given(j, {"tier", "tiers"}) THEN row.tiers
               ELSE IF Now(j, "tier") = "FLAT" THEN {} ELSE Now(j, "tiers")],
    Over(j.change, row))

StoreClub(a) ==
    /\ job[a].kind = "club"
    /\ LET j == job[a]
       IN  club' = IF ClubChangeFits(j)
                   THEN [club EXCEPT ![j.id] = ClubChanged(j, club[j.id])] ELSE club
    /\ job' = [job EXCEPT ![a] = Idle]
    /\ UNCHANGED <<now, discount, referral, order, till, member, grant, shopSales, peak, acts, edits>>

StoreReferral(a) ==
    /\ job[a].kind = "referral"
    /\ LET j == job[a]
           fits == Given(j, {"discount", "cashback"}) =>
                        PercentsFit(Now(j, "discount"), Now(j, "cashback"))
       IN  referral' = IF fits THEN [referral EXCEPT ![j.id] = Over(j.change, referral[j.id])] ELSE referral
    /\ job' = [job EXCEPT ![a] = Idle]
    /\ UNCHANGED <<now, discount, club, order, till, member, grant, shopSales, peak, acts, edits>>

--------------------------------------------------------------------------------
(* What happens elsewhere: segments are recomputed, the wheel gives a free *)
(* shipping, a sale in the shop is put to a customer's account.            *)
Around ==
    /\ Edit
    /\ \E b \in Buyers :
        \/ /\ \E s \in Segments : member[b] # s /\ member' = [member EXCEPT ![b] = s]
           /\ UNCHANGED <<grant, shopSales>>
        \/ grant' = [grant EXCEPT ![b] = @ + 1] /\ UNCHANGED <<member, shopSales>>
        \/ shopSales' = [shopSales EXCEPT ![b] = @ + 1] /\ UNCHANGED <<member, grant>>
    /\ UNCHANGED <<now, rowVars, order, till, job, peak>>

Tick ==
    /\ now < MaxTime /\ now' = now + 1
    /\ UNCHANGED <<rowVars, order, till, member, grant, shopSales, job, peak, acts, edits>>

NoOrder == [buyer |-> None, code |-> None, by |-> "none", id |-> None, cents |-> 0,
            discount |-> 0, pay |-> "none", payable |-> 0, revived |-> FALSE]

(* Each row exists, as one of the forms made it, or does not exist yet, and *)
(* no two rows of a table have one code.                                   *)
Init ==
    /\ now = 0
    /\ discount \in [Discounts -> {NoRow} \cup {DiscountRow(f) : f \in {g \in DiscountForms : DiscountFormFits(g)}}]
    /\ club \in [Clubs -> {NoRow} \cup {ClubRow(f) : f \in {g \in ClubForms : ClubFormFits(g)}}]
    /\ referral \in [Referrals -> {NoRow} \cup {ReferralRow(f) : f \in {g \in ReferralForms : PercentsFit(g.discount, g.cashback)}}]
    /\ Unique(discount) /\ Unique(club) /\ Unique(referral)
    /\ order = [o \in Orders |-> NoOrder]
    /\ till = [i \in Clubs |-> [b \in Buyers |-> 0]]
    /\ member = [b \in Buyers |-> None]
    /\ grant = [b \in Buyers |-> 0] /\ shopSales = [b \in Buyers |-> 0]
    /\ job = [r \in Requests \cup Admins |-> Idle]
    /\ peak = [i \in Discounts |-> Limit(discount[i])]
    /\ acts = 0 /\ edits = 0

Next ==
    \/ \E r \in Requests, b \in Buyers, c \in Codes \cup {None}, s \in Subtotals : BeginCheckout(r, b, c, s)
    \/ \E r \in Requests, b \in AtTill, c \in Codes, s \in Subtotals : BeginRedeem(r, b, c, s)
    \/ \E r \in Requests : FinishCheckout(r) \/ FinishRedeem(r)
    \/ \E o \in Orders : Pay(o) \/ Release(o) \/ Revive(o)
    \/ \E i \in Discounts, f \in DiscountForms : CreateDiscount(i, f)
    \/ \E i \in Clubs, f \in ClubForms : CreateClub(i, f)
    \/ \E i \in Referrals, f \in ReferralForms, blogger \in BOOLEAN : CreateReferral(i, f, blogger)
    \/ \E i \in Discounts : RemoveDiscount(i)
    \/ \E i \in Clubs : DeactivateClub(i)
    \/ \E i \in Referrals : DeactivateReferral(i)
    \/ \E a \in Admins, i \in Discounts, ch \in DiscountChanges : LoadRow(a, "discount", i, discount[i], ch)
    \/ \E a \in Admins, i \in Clubs, ch \in ClubChanges : LoadRow(a, "club", i, club[i], ch)
    \/ \E a \in Admins, i \in Referrals, ch \in ReferralChanges : LoadRow(a, "referral", i, referral[i], ch)
    \/ \E a \in Admins : StoreDiscount(a) \/ StoreClub(a) \/ StoreReferral(a)
    \/ Around
    \/ Tick

Spec == Init /\ [][Next]_vars

--------------------------------------------------------------------------------
(* Properties.                                                             *)

(* Type correctness: what is charged is never less than nothing, and no    *)
(* discount exceeds its basket (the clamps of the discount services).      *)
(* Partial updates leave rows that create would have accepted: a code for  *)
(* chosen users names them, percents stay percents, a referral code gives  *)
(* at most 20 percent in all, while one person at a time edits a row.      *)
TypeOK ==
    /\ now \in 0..MaxTime /\ acts \in 0..MaxActs /\ edits \in 0..MaxEdits
    /\ \A i \in Live(discount) : discount[i].used \in Nat /\ discount[i].code \in Codes
    /\ \A o \in Orders : order[o].discount \in 0..order[o].cents /\ order[o].payable \in Nat
    /\ till \in [Clubs -> [Buyers -> Nat]] /\ grant \in [Buyers -> Nat]
    /\ member \in [Buyers -> Segments \cup {None}]
    /\ DOMAIN job = Requests \cup Admins
    /\ \A i \in Live(discount) :
        LET row == discount[i]
        IN  /\ ValueFits(row.type, row.value) /\ row.from < row.to
            /\ row.scope = "SINGLE_USER" => row.user # None
            /\ (row.scope = "MULTIPLE_USERS") = (row.eligible # {})
    /\ \A i \in Live(club) :
        ValueFits(club[i].type, club[i].value) /\ (club[i].tier = "FLAT") = (club[i].tiers = {})
    /\ \A i \in Live(referral) : referral[i].discount + referral[i].cashback <= 20

(* What the preview shows is what a checkout at this moment would charge,  *)
(* for every customer, code and basket: the discount rules are written     *)
(* twice (basket.controller.ts, checkoutPreview and checkout).             *)
PreviewAgrees ==
    \A b \in Buyers, c \in Codes \cup {None}, s \in Subtotals \cup {FreeFrom} :
        LET p == Priced(b, c, s)
        IN  Preview(b, c, s) = IF p.ok THEN [ok |-> TRUE, cents |-> p.cents, shipping |-> Shipping(b, s)]
                               ELSE Refused

(* How often the code was used along the same path, at checkout or at the  *)
(* till, is still what it was when the request read it, until the request  *)
(* commits: each path's lock keeps the limit it has checked.  The till's   *)
(* lock is named by the code, so a code renamed in between is left out.    *)
CountsStayTrue ==
    \A r \in Requests :
        /\ job[r].kind = "checkout" => job[r].seen = SeenUses(job[r].price, job[r].buyer)
        /\ job[r].kind = "till" /\ ~club[job[r].id].renamed => job[r].seen = till[job[r].id][job[r].buyer]

(* A shop code is never counted beyond the highest limit it has had, but   *)
(* for orders paid after their release, which count in any case; whatever  *)
(* checkouts and changes of the limit overlap.  A referral code serves a   *)
(* buyer for three orders and no more, whatever requests of the buyer      *)
(* overlap (MAX_REFERRAL_USES_PER_BUYER; the count is read outside of the  *)
(* transaction that adds to it).                                           *)
UsesWithinLimit ==
    /\ \A i \in Live(discount) :
        discount[i].used <= peak[i] + Cardinality({o \in Orders : order[o].revived})
    /\ \A i \in Referrals, b \in Buyers : ReferralUses(i, b) <= MaxReferralUses

================================================================================
