-------------------------------- MODULE Rewards ---------------------------------
(* The customer club's rewards: cashback and coupons, which a paid order   *)
(* earns by the incentives in force, the cashback a customer uses on an    *)
(* order, the administrator's work on incentives, and their report.        *)
(*                                                                         *)
(* A grant reads the order, the customer's segment and all incentives, and *)
(* then takes the incentives one by one: it looks for a redemption, and,   *)
(* when there is none, writes one in a transaction of its own.  Grants are *)
(* called by the paid hooks and again by administrators; a call may die    *)
(* anywhere.  Applying cashback sums the ledger in one step and writes in  *)
(* another.                                                                *)
(*                                                                         *)
(* A ledger entry and the redemption it is for are one row here, as they   *)
(* are written together; the balance of a wallet is the sum of its ledger, *)
(* which Wallet shows.                                                     *)
EXTENDS Segments, Functions

CONSTANTS
    Incentives,       \* ids of Incentive rows
    Requests,
    Category,         \* the categories of an order's items
    GivenBefore,      \* the redemptions made before the run begins
    Existing,         \* the tables of incentives there may be at first
    Confirmed,        \* referrals that are confirmed: the referrer, and an order or None
    Uses,             \* orders cashback is used on: the amount, and what is asked for or None
    Forms,            \* bodies of create
    Changes,          \* bodies of update
    None,             \* null
    Overlap,          \* whether two grants of an order, or two uses of a wallet's
                      \* cashback, may overlap
    MaxCalls, MaxEdits   \* bounds: calls, and writes of administrators

ASSUME RewardsAssumption ==
    /\ None \notin Orders \cup Customers \cup SegmentKeys
    /\ Overlap \in BOOLEAN /\ {MaxCalls, MaxEdits} \subseteq Nat
    /\ \A ref \in Confirmed : ref[1] \in Customers /\ ref[2] \in Orders \cup {None}
    /\ \A use \in Uses : use[1] \in Nat /\ (use[2] # None => use[2] \in Nat)

NoRow == [kind |-> "none"]

\* what the bodies of create and update may hold: the DTOs, and the enums;
\* an incentive never changes its kind
ValueTypes == {"PERCENTAGE", "FIXED_AMOUNT"}
Shaped(row) ==
    /\ {"kind", "trigger", "active", "from", "to", "target", "type", "value"} \subseteq DOMAIN row
    /\ {row.from, row.to, row.value} \subseteq Int /\ row.type \in ValueTypes
    /\ row.kind \in {"CASHBACK", "COUPON"}
    /\ IF row.kind = "CASHBACK" THEN row.trigger = "PAID" ELSE "config" \in DOMAIN row
ASSUME FormsAssumption ==
    /\ \A row \in Forms : Shaped(row)
    /\ \A change \in Changes :
           /\ "kind" \notin DOMAIN change
           /\ "type" \in DOMAIN change => change.type \in ValueTypes
           /\ \A f \in {"from", "to", "value"} \cap DOMAIN change : change[f] \in Int

\* an incentive that its service would create
Sound(row) ==
    /\ row.from < row.to
    /\ row.value \in IF row.type = "PERCENTAGE" THEN 1..100 ELSE Nat \ {0}
    /\ row.trigger = "REFERRAL" => row.type = "FIXED_AMOUNT"
    /\ row.trigger = "PURCHASE_ABOVE_AMOUNT" => row.config.min # None
    /\ row.trigger = "CATEGORY_PURCHASE" => row.config.category # None

(* The history is one the services wrote, one grant of an order at a time: *)
(* an order was rewarded once, and a first purchase's coupon is for the    *)
(* one paid order there was.                                               *)
ASSUME HistoryAssumption ==
    /\ \A table \in Existing :
           table = [i \in Incentives |-> table[i]] /\ \A i \in Incentives :
               table[i] = NoRow \/ (Shaped(table[i]) /\ Sound(table[i]))
    /\ IsFiniteSet(GivenBefore)
    /\ \A r \in GivenBefore :
           /\ r.amount \in Nat \ {0} /\ r.incentive \in Incentives /\ r.customer \in Customers
           /\ \A table \in Existing : table[r.incentive] # NoRow
           /\ r.trigger # "REFERRAL" =>
                  r.order \in Orders /\ r.customer = Owner[r.order] /\ r.amount <= Amount[r.order]
    /\ \A r, s \in GivenBefore :
           r.order # None /\ r # s =>
               <<r.incentive, r.customer, r.order>> # <<s.incentive, s.customer, s.order>>
    /\ \A r \in GivenBefore : r.trigger = "FIRST_PURCHASE" =>
           /\ r.order \in DOMAIN PaidBefore /\ r.customer = Owner[r.order]
           /\ \A o \in DOMAIN PaidBefore : Owner[o] = r.customer => o = r.order

VARIABLES
    incentive,   \* Incentive with its CashbackDetail or CouponDetail
    redemption,  \* IncentiveRedemption with its ledger entry
    used,        \* a customer's USED ledger entries, summed
    applied,     \* ghost: what of them apply has written
    call,        \* what a request is doing
    calls, edits

rewardVars == <<incentive, redemption, used, applied, call, calls, edits>>
vars == <<segmentVars, rewardVars>>

Idle == [kind |-> "idle"]
Live == {i \in Incentives : incentive[i] # NoRow}
OfKind(k, triggers) ==
    {i \in Live : incentive[i].kind = k /\ incentive[i].active /\ incentive[i].trigger \in triggers}

OrderTriggers == {"FIRST_PURCHASE", "PURCHASE_ABOVE_AMOUNT", "CATEGORY_PURCHASE"}

--------------------------------------------------------------------------------
(* The rules.                                                              *)

\* the latest segment of a customer, None without a row
CurrentSegment(c) == IF c \in EverMember THEN LatestSegment[c] ELSE None

\* qualifiesCouponWindow, but for the window
Targets(row, c) == row.active /\ row.target \in {None, CurrentSegment(c)}

\* qualifiesForCashback: the window is asked for the day of payment
QualifiesForCashback(row, o) ==
    /\ Targets(row, Owner[o])
    /\ order[o].paidOn \in row.from..row.to
    /\ row.min # None => Amount[o] >= row.min

\* calculateCashbackAmount, calculateCouponRewardAmount
Value(row, amount) ==
    IF row.type = "PERCENTAGE" THEN (amount * row.value) \div 100 ELSE row.value
Clamped(x, top) == Min({Max({x, 0}), top})
RewardOf(row, order_) ==
    IF order_ = None THEN IF row.type = "PERCENTAGE" THEN 0 ELSE Max({row.value, 0})
    ELSE Clamped(Value(row, Amount[order_]), Amount[order_])

\* Mutant: only the orders of that day are counted
FirstOfDay(o) == {p \in PaidOrders(Owner[o]) : order[p].paidOn = order[o].paidOn} = {o}
FirstPaid(o) == PaidOrders(Owner[o]) \ {o} = {}

\* the triggers of a coupon
Earns(row, o) ==
    CASE row.trigger = "FIRST_PURCHASE" -> FirstPaid(o)
      [] row.trigger = "PURCHASE_ABOVE_AMOUNT" ->
             row.config.min # None /\ Amount[o] >= row.config.min
      [] row.trigger = "CATEGORY_PURCHASE" -> row.config.category \in Category[o]

\* Mutant: the search leaves out the order's own redemptions
GivenElsewhere(i, c, o) == \E r \in redemption : r.incentive = i /\ r.customer = c /\ r.order # o
Given(i, c, o) == \E r \in redemption : r.incentive = i /\ r.customer = c /\ r.order = o

--------------------------------------------------------------------------------
(* Grants.                                                                 *)

Clash(v, w) ==
    \/ v.order = w.order /\ v.order # None
    \/ v.kind = "apply" /\ w.kind = "apply" /\ v.customer = w.customer

Begin(r, work) ==
    /\ call[r] = Idle /\ calls < MaxCalls
    /\ Overlap \/ \A q \in Requests : call[q] # Idle => ~Clash(call[q], work)
    /\ call' = [call EXCEPT ![r] = work]
    /\ calls' = calls + 1
    /\ UNCHANGED <<segmentVars, incentive, redemption, used, applied, edits>>

Payable(o) == order[o].status = "PAID" /\ ~order[o].deleted

\* the grants a call finds earned in what it reads at its start; one that
\* finds none does nothing
BeginGrant(r, c, o, gifts) ==
    /\ DOMAIN gifts # {}
    /\ Begin(r, [kind |-> "grant", customer |-> c, order |-> o, gifts |-> gifts, chosen |-> None])

Gift(row, amount, expires, window) ==
    [amount |-> amount, trigger |-> row.trigger, expires |-> expires, window |-> window]

\* CashbackGrantService.grantForOrder
GrantForOrder(r, o) ==
    LET earned == {i \in OfKind("CASHBACK", {"PAID"}) :
                      QualifiesForCashback(incentive[i], o) /\ RewardOf(incentive[i], o) > 0}
        expires(row) == IF row.expiresAfter = None THEN None
                        ELSE order[o].paidOn + row.expiresAfter
    IN
    /\ Payable(o)
    /\ BeginGrant(r, Owner[o], o, [i \in earned |->
           Gift(incentive[i], RewardOf(incentive[i], o), expires(incentive[i]), Days)])

\* onOrderCompleted: the window is asked when the incentive's turn comes
OnOrderCompleted(r, o) ==
    LET earned == {i \in OfKind("COUPON", OrderTriggers) :
                      LET row == incentive[i] IN
                      Targets(row, Owner[o]) /\ Earns(row, o) /\ RewardOf(row, o) > 0}
    IN
    /\ Payable(o)
    /\ BeginGrant(r, Owner[o], o, [i \in earned |->
           Gift(incentive[i], RewardOf(incentive[i], o), None, incentive[i].from..incentive[i].to)])

\* a referral is rewarded whatever the order, and without one too
OnReferralConfirmed(r, referrer, o) ==
    LET earned == {i \in OfKind("COUPON", {"REFERRAL"}) :
                      Targets(incentive[i], referrer) /\ RewardOf(incentive[i], None) > 0}
    IN BeginGrant(r, referrer, o, [i \in earned |->
           Gift(incentive[i], RewardOf(incentive[i], None), None, incentive[i].from..incentive[i].to)])

\* the next incentive that is not given yet; the rows come in any order,
\* so one passed over is as good as one that comes later or never
Consider(r, i) ==
    LET w == call[r] IN
    /\ w.kind = "grant" /\ w.chosen = None
    /\ i \in DOMAIN w.gifts /\ today \in w.gifts[i].window
    /\ w.order # None => ~Given(i, w.customer, w.order)
    /\ call' = [call EXCEPT ![r] = [w EXCEPT !.chosen = i]]
    /\ UNCHANGED <<segmentVars, incentive, redemption, used, applied, calls, edits>>

\* the transaction: redemption, wallet and ledger entry
Redeem(r, gift) ==
    LET w == call[r] IN
    /\ redemption' = redemption \cup {
           [id |-> Cardinality(redemption), incentive |-> w.chosen, customer |-> w.customer,
            order |-> w.order, trigger |-> gift.trigger, on |-> today, amount |-> gift.amount,
            expires |-> gift.expires]}
    /\ call' = [call EXCEPT ![r] = [w EXCEPT !.chosen = None,
                                            !.gifts = Restrict(@, DOMAIN @ \ {w.chosen})]]
    /\ UNCHANGED <<segmentVars, incentive, used, applied, calls, edits>>

\* of cashback, and of a coupon, which does not expire
GrantCashback(r) ==
    /\ call[r].kind = "grant" /\ call[r].chosen # None
    /\ LET gift == call[r].gifts[call[r].chosen] IN
       gift.trigger = "PAID" /\ Redeem(r, gift)

IssueCoupon(r) ==
    /\ call[r].kind = "grant" /\ call[r].chosen # None
    /\ LET gift == call[r].gifts[call[r].chosen] IN
       gift.trigger # "PAID" /\ Redeem(r, [gift EXCEPT !.expires = None])

\* a call has taken all incentives, or dies
End(r) ==
    /\ call[r] # Idle
    /\ call' = [call EXCEPT ![r] = Idle]
    /\ UNCHANGED <<segmentVars, incentive, redemption, used, applied, calls, edits>>

--------------------------------------------------------------------------------
(* Using cashback.                                                         *)

\* a sum, as the size of the set of all units that the counts stand for
UnitsIn(count) == UNION {{x} \X (1..count[x]) : x \in DOMAIN count}
SumOf(count) == Cardinality(UnitsIn(count))
Sum(R) == SumOf([r \in R |-> r.amount])
CashbackOf(c) == {r \in redemption : r.customer = c /\ r.trigger = "PAID"}
Unexpired(R) == {r \in R : r.expires = None \/ r.expires > today}

\* computeAvailableCashback
\* Mutant: what was used is not taken off
AvailableUnused(c) == Sum(Unexpired(CashbackOf(c)))
Available(c) == Max({0, Sum(Unexpired(CashbackOf(c))) - used[c]})

\* resolveCashbackApplyAmount
ApplyAmount(c, amount, requested) ==
    LET ceiling == Min({Available(c), amount}) IN
    Max({0, IF requested = None THEN ceiling ELSE Min({requested, ceiling})})

BeginApply(r, c, amount, requested) ==
    /\ ApplyAmount(c, amount, requested) > 0
    /\ Begin(r, [kind |-> "apply", customer |-> c, order |-> None,
                 amount |-> ApplyAmount(c, amount, requested)])

Apply(r) ==
    LET w == call[r] IN
    /\ w.kind = "apply"
    /\ used' = [used EXCEPT ![w.customer] = @ + w.amount]
    /\ applied' = [applied EXCEPT ![w.customer] = @ + w.amount]
    /\ call' = [call EXCEPT ![r] = Idle]
    /\ UNCHANGED <<segmentVars, incentive, redemption, calls, edits>>

Balance(c) == Sum({r \in redemption : r.customer = c}) - used[c]

\* debitForCheckout: an order is paid from the wallet, in one transaction
SpendWallet(c, amount) ==
    /\ calls < MaxCalls /\ amount > 0 /\ Balance(c) >= amount
    /\ used' = [used EXCEPT ![c] = @ + amount]
    /\ calls' = calls + 1
    /\ UNCHANGED <<segmentVars, incentive, redemption, applied, call, edits>>

--------------------------------------------------------------------------------
(* Administration.                                                         *)

\* assertValueRules of a cashback
\* Mutant: percents have no upper limit
ValueFitsAny(row) == row.value > 0
ValueFits(row) == row.value > 0 /\ (row.type = "PERCENTAGE" => row.value <= 100)

\* assertRewardValueRules of a coupon
RewardValueFits(row) ==
    IF row.type = "PERCENTAGE" THEN row.value \in 1..100 ELSE row.value > 0

\* assertTriggerConfig
TriggerFits(row) ==
    /\ row.trigger = "PURCHASE_ABOVE_AMOUNT" => row.config.min # None
    /\ row.trigger = "CATEGORY_PURCHASE" => row.config.category # None
    /\ row.trigger = "REFERRAL" => row.type = "FIXED_AMOUNT"

\* assertDates, assertSegmentExists: an earlier night created the segments
DatesFit(row) == row.from < row.to
SegmentExists(row) == row.target \in {None} \cup SegmentKeys

Writes(i, row) ==
    /\ edits < MaxEdits
    /\ incentive' = [incentive EXCEPT ![i] = row]
    /\ edits' = edits + 1
    /\ UNCHANGED <<segmentVars, redemption, used, applied, call, calls>>

Creates(i, row) == incentive[i] = NoRow /\ DatesFit(row) /\ SegmentExists(row) /\ Writes(i, row)
CreateCashback(i, row) == row.kind = "CASHBACK" /\ ValueFits(row) /\ Creates(i, row)
CreateCoupon(i, row) ==
    row.kind = "COUPON" /\ RewardValueFits(row) /\ TriggerFits(row) /\ Creates(i, row)

\* the row after an update, and whether the update has one of some fields;
\* only what the body touches is checked again
Changed(row, change) ==
    [f \in DOMAIN row |-> IF f \in DOMAIN change THEN change[f] ELSE row[f]]
Touches(change, fields) == DOMAIN change \cap fields # {}
Updates(i, change) ==
    LET row == Changed(incentive[i], change) IN
    /\ DOMAIN change \subseteq DOMAIN incentive[i]
    /\ Touches(change, {"from", "to"}) => DatesFit(row)
    /\ Touches(change, {"target"}) => SegmentExists(row)
    /\ Writes(i, row)

UpdateCashback(i, change) ==
    /\ incentive[i].kind = "CASHBACK" /\ ~Touches(change, {"trigger"})
    /\ Touches(change, {"type", "value"}) => ValueFits(Changed(incentive[i], change))
    /\ Updates(i, change)

UpdateCoupon(i, change) ==
    LET row == Changed(incentive[i], change) IN
    /\ incentive[i].kind = "COUPON"
    /\ Touches(change, {"type", "value", "trigger", "config"})
           => RewardValueFits(row) /\ TriggerFits(row)
    /\ Updates(i, change)

Deactivate(i, kind) ==
    incentive[i].kind = kind /\ Writes(i, [incentive[i] EXCEPT !.active = FALSE])
DeactivateCashback(i) == Deactivate(i, "CASHBACK")
DeactivateCoupon(i) == Deactivate(i, "COUPON")

--------------------------------------------------------------------------------
(* The performance report of a range of days.                              *)

Within(days) == {r \in redemption : r.on \in days}
Of(i, days) == {r \in Within(days) : r.incentive = i}
InSegment(k, days) == {r \in Within(days) : r.customer \in Members(k)}
Revenue(R) == SumOf([o \in {r.order : r \in R} \ {None} |-> Amount[o]])

\* a row of byIncentive and of bySegment
Figures(R, pool) == [count |-> Cardinality(R), cost |-> Sum(R), revenue |-> Revenue(R),
                     success |-> Percent(Cardinality(R), pool)]
ByIncentive(days) ==
    [i \in Live |-> Figures(Of(i, days), IF incentive[i].target = None THEN Cardinality(EverMember)
                                         ELSE Tally(incentive[i].target))]
BySegment(days) == [k \in SegmentKeys |-> Figures(InSegment(k, days), Tally(k))]
Total(f, figure) == SumOf([k \in DOMAIN f |-> f[k][figure]])

\* resolveReportRange: a week, a month, a year or days of one's own, up to now
Ranges == {from..today : from \in 0..today}

--------------------------------------------------------------------------------
RewardsInit ==
    /\ incentive \in Existing
    /\ redemption = GivenBefore
    /\ used = [c \in Customers |-> 0] /\ applied = used
    /\ call = [r \in Requests |-> Idle]
    /\ calls = 0 /\ edits = 0

Init == SegmentsInit /\ RewardsInit

ClubSteps == Night \/ Tick \/ (\E o \in Orders : PayOrder(o))
Removes == edits < MaxEdits /\ edits' = edits + 1 /\ \E o \in Orders : DeleteOrder(o)

Next ==
    \/ ClubSteps /\ UNCHANGED rewardVars
    \/ Removes /\ UNCHANGED <<incentive, redemption, used, applied, call, calls>>
    \/ \E r \in Requests :
          \/ \E o \in Orders : GrantForOrder(r, o) \/ OnOrderCompleted(r, o)
          \/ \E ref \in Confirmed : OnReferralConfirmed(r, ref[1], ref[2])
          \/ \E i \in Incentives : Consider(r, i)
          \/ GrantCashback(r) \/ IssueCoupon(r) \/ End(r) \/ Apply(r)
          \/ \E c \in Customers, use \in Uses : BeginApply(r, c, use[1], use[2])
    \/ \E c \in Customers, use \in Uses : SpendWallet(c, use[1])
    \/ \E i \in Incentives :
          \/ \E row \in Forms : CreateCashback(i, row) \/ CreateCoupon(i, row)
          \/ \E change \in Changes : UpdateCashback(i, change) \/ UpdateCoupon(i, change)
          \/ DeactivateCashback(i) \/ DeactivateCoupon(i)

Spec == Init /\ [][Next]_vars

--------------------------------------------------------------------------------
(* Properties.                                                             *)

\* the values have their types, and every incentive is one that its
\* service would create, whatever partial updates it went through
TypeOK ==
    /\ SegmentsTypeOK
    /\ \A i \in Live : Sound(incentive[i])
    /\ \A r \in redemption : r.amount > 0 /\ r.incentive \in Incentives /\ r.customer \in Customers
    /\ used \in [Customers -> Nat] /\ applied \in [Customers -> Nat]
    /\ calls \in 0..MaxCalls /\ edits \in 0..MaxEdits

\* an order earns a customer each incentive once, though its grants are
\* called again, die half-way and run beside those of other orders and
\* beside changes of the incentive
RewardedOnce ==
    \A r, s \in redemption :
        r.order # None /\ r # s =>
            <<r.incentive, r.customer, r.order>> # <<s.incentive, s.customer, s.order>>

\* no customer gets a first purchase's coupon twice, in whatever order
\* payments and their grants come, while no paid order is deleted
FirstPurchaseOnce ==
    \A r, s \in redemption :
        /\ r.customer = s.customer /\ r.incentive = s.incentive
        /\ r.trigger = "FIRST_PURCHASE" /\ s.trigger = "FIRST_PURCHASE"
        /\ \A o \in Orders : Owner[o] = r.customer => ~order[o].deleted
        => r = s

\* the cashback used on orders is never more than was granted, though
\* some of it expires and the wallet is spent from meanwhile
CashbackNotOverspent == \A c \in Customers : applied[c] <= Sum(CashbackOf(c))

\* the snapshots of one night count the same customers, each in one
\* segment, though one service reads the latest rows and the other the
\* latest two
SnapshotsAgree ==
    NoSnapshot \notin {churn, loyalty} =>
        /\ churn.total = loyalty.total
        /\ churn.regular <= loyalty.promising + loyalty.regular
        /\ churn.total = loyalty.loyal + Tally("new") + churn.atRisk + churn.lost + churn.regular

\* in every range of days the report's rows by incentive and by segment
\* cost the same, but for customers without a segment, and
\* what an incentive cost is no more than the orders that earned it brought
ReportAgrees ==
    \A days \in {d \in Ranges : Within(d) # {}} :
        LET stray == {r \in Within(days) : r.customer \notin EverMember}
            byIncentive == ByIncentive(days)
        IN /\ Total(byIncentive, "cost") = Total(BySegment(days), "cost") + Sum(stray)
           /\ \A i \in Live : (\A r \in Of(i, days) : r.trigger # "REFERRAL") =>
                  byIncentive[i].cost <= byIncentive[i].revenue

FiguresAgree == SnapshotsAgree /\ ReportAgrees

================================================================================
