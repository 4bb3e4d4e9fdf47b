------------------------------ MODULE Rewards_proofs ------------------------------
(***************************************************************************)
(* Proofs about Rewards, for any customers, orders, incentives and         *)
(* requests, whatever the night's job and the administrators do meanwhile: *)
(* the types always, all else as long as no two grants of an order, and no *)
(* two uses of a customer's cashback, overlap.                             *)
(***************************************************************************)
EXTENDS Rewards, TLAPS, FiniteSetTheorems, FunctionTheorems

(* The fields of rows and of what a request is doing.                      *)
IsOrder(w) == {"status", "deleted"} \subseteq DOMAIN w
IsGift(g) == "trigger" \in DOMAIN g
IsGrant(w) == {"kind", "customer", "order", "gifts", "chosen"} \subseteq DOMAIN w /\ w.kind = "grant"

Shapes ==
    /\ order = [o \in Orders |-> order[o]] /\ \A o \in Orders : IsOrder(order[o])
    /\ call = [q \in Requests |-> call[q]]
    /\ \A q \in Requests : call[q].kind = "grant" => IsGrant(call[q])

Grants(q) == call[q].kind = "grant"

(* A grant has gifts of the right shape, the chosen one among them, and    *)
(* that one has not been given for the order.                              *)
GrantSound(q) ==
    Grants(q) =>
        /\ \A i \in DOMAIN call[q].gifts : IsGift(call[q].gifts[i])
        /\ call[q].chosen # None =>
            /\ call[q].chosen \in DOMAIN call[q].gifts
            /\ call[q].order # None => ~Given(call[q].chosen, call[q].customer, call[q].order)

(* No two grants of an order are at work.                                  *)
Apart ==
    \A p, q \in Requests :
        Grants(p) /\ Grants(q) /\ call[p].order = call[q].order /\ call[q].order # None => p = q

OnceInv == Shapes /\ Apart /\ (\A q \in Requests : GrantSound(q)) /\ RewardedOnce

(* The orders whose first purchase is rewarded or about to be, by whom.    *)
FirstGift(q, o) ==
    /\ Grants(q) /\ call[q].order = o
    /\ \E i \in DOMAIN call[q].gifts : call[q].gifts[i].trigger = "FIRST_PURCHASE"
FirstRow(r, o) == r.trigger = "FIRST_PURCHASE" /\ r.order = o
First(o) == (\E r \in redemption : FirstRow(r, o)) \/ (\E q \in Requests : FirstGift(q, o))

(* They are paid orders of the customer, and while none of a customer's    *)
(* orders is deleted they are one.                                         *)
Undeleted(c) == \A o \in Orders : Owner[o] = c => ~order[o].deleted
FirstPaidOnly == \A o \in Orders : First(o) => order[o].status = "PAID"
FirstIsOne ==
    \A o, p \in Orders : First(o) /\ First(p) /\ Owner[o] = Owner[p] /\ Undeleted(Owner[o]) => o = p
FirstOwned ==
    /\ \A r \in redemption : r.trigger = "FIRST_PURCHASE" =>
           r.order \in Orders /\ r.customer = Owner[r.order]
    /\ \A q \in Requests : \A o : FirstGift(q, o) => o \in Orders /\ call[q].customer = Owner[o]

FirstInv == FirstPaidOnly /\ FirstIsOne /\ FirstOwned

IInv == OnceInv /\ FirstInv

--------------------------------------------------------------------------------
(* Helpers.                                                                *)

LEMMA CallWrite ==
    ASSUME Shapes, NEW r \in Requests, NEW work, call' = [call EXCEPT ![r] = work],
           work.kind = "grant" => IsGrant(work), UNCHANGED order
    PROVE  /\ Shapes' /\ call'[r] = work
           /\ \A q \in Requests \ {r} : call'[q] = call[q]
<1>1. call'[r] = work /\ \A q \in Requests \ {r} : call'[q] = call[q]
  BY DEF Shapes
<1>2. call' = [q \in Requests |-> call'[q]]
  BY DEF Shapes
<1> QED BY <1>1, <1>2 DEF Shapes

(* Redemptions stay; whoever else grants stays as it is, and the one that  *)
(* changed, if it still grants, does so for its own order and out of the   *)
(* same gifts.                                                             *)
LEMMA CallsShrink ==
    ASSUME IInv, Shapes', UNCHANGED <<redemption, order>>,
           \A q \in Requests :
               \/ call'[q] = call[q]
               \/ call'[q].kind # "grant"
               \/ /\ Grants(q) /\ GrantSound(q)'
                  /\ call'[q].order = call[q].order /\ call'[q].customer = call[q].customer
                  /\ call'[q].gifts = call[q].gifts
    PROVE  IInv'
<1>1. Apart'
  BY DEF IInv, OnceInv, Apart, Grants
<1>2. \A q \in Requests : GrantSound(q)'
  BY DEF IInv, OnceInv, GrantSound, Grants, Given
<1>3. RewardedOnce'
  BY DEF IInv, OnceInv, RewardedOnce
<1>4. \A q \in Requests : \A o : FirstGift(q, o)' =>
          FirstGift(q, o) /\ call'[q].customer = call[q].customer
  BY DEF FirstGift, Grants
<1>5. \A o : First(o)' => First(o)
  BY <1>4 DEF First, FirstRow
<1>6. FirstPaidOnly' /\ FirstIsOne'
  BY <1>5 DEF IInv, FirstInv, FirstPaidOnly, FirstIsOne, Undeleted
<1>7. FirstOwned'
  BY <1>4 DEF IInv, FirstInv, FirstOwned
<1> QED BY <1>1, <1>2, <1>3, <1>6, <1>7 DEF IInv, OnceInv, FirstInv

--------------------------------------------------------------------------------
(* Orders.                                                                 *)

(* A step of the club that leaves paid orders paid and deleted ones        *)
(* deleted.                                                                *)
LEMMA OrdersMove ==
    ASSUME IInv, Shapes', UNCHANGED <<redemption, call>>,
           \A o \in Orders : /\ order[o].status = "PAID" => order'[o].status = "PAID"
                             /\ order[o].deleted => order'[o].deleted
    PROVE  IInv'
<1>1. Apart' /\ RewardedOnce' /\ \A q \in Requests : GrantSound(q)'
  BY DEF IInv, OnceInv, Apart, RewardedOnce, GrantSound, Grants, Given
<1>2. \A o : First(o)' <=> First(o)
  BY DEF First, FirstRow, FirstGift, Grants
<1>3. \A c : Undeleted(c)' => Undeleted(c)
  BY DEF Undeleted
<1>4. FirstPaidOnly' /\ FirstIsOne'
  BY <1>2, <1>3 DEF IInv, FirstInv, FirstPaidOnly, FirstIsOne
<1>5. FirstOwned'
  BY DEF IInv, FirstInv, FirstOwned, FirstGift, Grants
<1> QED BY <1>1, <1>4, <1>5 DEF IInv, OnceInv, FirstInv

LEMMA ClubStep ==
    ASSUME IInv, UNCHANGED <<redemption, call>>,
           ClubSteps \/ \E o \in Orders : DeleteOrder(o)
    PROVE  IInv'
<1>1. CASE Night \/ Tick
  <2>1. UNCHANGED order
    BY <1>1 DEF Night, RunSegmentation, EvaluateChurn, EvaluateLoyalty, EvaluationFails, Tick
  <2>2. Shapes'
    BY <2>1 DEF IInv, OnceInv, Shapes
  <2> QED BY <2>1, <2>2, OrdersMove
<1>2. CASE \E o \in Orders : PayOrder(o)
  <2>1. PICK o \in Orders : PayOrder(o)
    BY <1>2
  <2>2. order' = [order EXCEPT ![o] = [order[o] EXCEPT !.status = "PAID", !.paidOn = today]]
    BY <2>1 DEF PayOrder
  <2>3. PICK row : row = [order[o] EXCEPT !.status = "PAID", !.paidOn = today]
    OBVIOUS
  <2>4. IsOrder(row) /\ row.status = "PAID" /\ row.deleted = order[o].deleted
    BY <2>3 DEF IInv, OnceInv, Shapes, IsOrder
  <2>5. order'[o] = row /\ \A p \in Orders \ {o} : order'[p] = order[p]
    BY <2>2, <2>3 DEF IInv, OnceInv, Shapes
  <2>6. order' = [p \in Orders |-> order'[p]]
    BY <2>2 DEF IInv, OnceInv, Shapes
  <2>7. Shapes'
    BY <2>4, <2>5, <2>6 DEF IInv, OnceInv, Shapes
  <2> QED BY <2>4, <2>5, <2>7, OrdersMove
<1>3. CASE \E o \in Orders : DeleteOrder(o)
  <2>1. PICK o \in Orders : DeleteOrder(o)
    BY <1>3
  <2>2. order' = [order EXCEPT ![o] = [order[o] EXCEPT !.deleted = TRUE]]
    BY <2>1 DEF DeleteOrder
  <2>3. PICK row : row = [order[o] EXCEPT !.deleted = TRUE]
    OBVIOUS
  <2>4. IsOrder(row) /\ row.status = order[o].status /\ row.deleted
    BY <2>3 DEF IInv, OnceInv, Shapes, IsOrder
  <2>5. order'[o] = row /\ \A p \in Orders \ {o} : order'[p] = order[p]
    BY <2>2, <2>3 DEF IInv, OnceInv, Shapes
  <2>6. order' = [p \in Orders |-> order'[p]]
    BY <2>2 DEF IInv, OnceInv, Shapes
  <2>7. Shapes'
    BY <2>4, <2>5, <2>6 DEF IInv, OnceInv, Shapes
  <2> QED BY <2>4, <2>5, <2>7, OrdersMove
<1> QED BY <1>1, <1>2, <1>3 DEF ClubSteps

--------------------------------------------------------------------------------
(* Grants.                                                                 *)

(* A grant that begins: nobody grants for its order, and a first           *)
(* purchase's coupon is for the customer's only paid order.                *)
LEMMA BeginGrantStep ==
    ASSUME ~Overlap, IInv, NEW r \in Requests, NEW c, NEW o, NEW gifts,
           BeginGrant(r, c, o, gifts), \A i \in DOMAIN gifts : IsGift(gifts[i]),
           (\E i \in DOMAIN gifts : gifts[i].trigger = "FIRST_PURCHASE") =>
               o \in Orders /\ c = Owner[o] /\ order[o].status = "PAID" /\ FirstPaid(o)
    PROVE  IInv'
<1> DEFINE work == [kind |-> "grant", customer |-> c, order |-> o, gifts |-> gifts, chosen |-> None]
<1>1. /\ UNCHANGED <<segmentVars, incentive, redemption, used, applied, edits>>
      /\ call' = [call EXCEPT ![r] = work]
      /\ \A q \in Requests : call[q] # Idle => ~Clash(call[q], work)
  BY DEF BeginGrant, Begin
<1>2. /\ IsGrant(work) /\ work.kind = "grant" /\ work.customer = c /\ work.order = o
      /\ work.gifts = gifts /\ work.chosen = None
  BY DEF IsGrant
<1> HIDE DEF work
<1>3. UNCHANGED <<order, redemption>>
  BY <1>1 DEF segmentVars
<1>4. Shapes' /\ call'[r] = work /\ \A q \in Requests \ {r} : call'[q] = call[q]
  BY <1>1, <1>2, <1>3, CallWrite DEF IInv, OnceInv
<1>5. \A q \in Requests : Grants(q) /\ o # None => call[q].order # o
  BY <1>1, <1>2 DEF Clash, Grants, Idle
<1>6. Apart'
  BY <1>2, <1>4, <1>5 DEF IInv, OnceInv, Apart, Grants
<1>7. RewardedOnce' /\ \A q \in Requests : GrantSound(q)'
  BY <1>2, <1>3, <1>4 DEF IInv, OnceInv, RewardedOnce, GrantSound, Grants, Given
<1>8. \A q \in Requests : \A p : FirstGift(q, p)' =>
          (FirstGift(q, p) /\ call'[q] = call[q]) \/ (q = r /\ p = o /\ FirstGift(r, o)')
  BY <1>2, <1>4 DEF FirstGift, Grants
<1>9. \A p : First(p)' => First(p) \/ (p = o /\ FirstGift(r, o)')
  BY <1>3, <1>8 DEF First, FirstRow
<1>10. FirstGift(r, o)' =>
          o \in Orders /\ c = Owner[o] /\ order[o].status = "PAID" /\ FirstPaid(o)
  BY <1>2, <1>4 DEF FirstGift
<1>11. FirstPaidOnly'
  BY <1>3, <1>9, <1>10 DEF IInv, FirstInv, FirstPaidOnly
<1>12. ASSUME FirstGift(r, o)', NEW p \in Orders, First(p), Owner[p] = Owner[o], Undeleted(Owner[o])
       PROVE  p = o
  BY <1>10, <1>12 DEF IInv, FirstInv, FirstPaidOnly, FirstPaid, PaidOrders, Undeleted
<1>13. FirstIsOne'
  BY <1>3, <1>9, <1>12 DEF IInv, FirstInv, FirstIsOne, Undeleted
<1>14. FirstOwned'
  BY <1>2, <1>3, <1>4, <1>8, <1>10 DEF IInv, FirstInv, FirstOwned
<1> QED BY <1>4, <1>6, <1>7, <1>11, <1>13, <1>14 DEF IInv, OnceInv, FirstInv

(* The three services that begin one.                                      *)
LEMMA GrantSteps ==
    ASSUME ~Overlap, IInv, NEW r \in Requests,
           \/ \E o \in Orders : GrantForOrder(r, o) \/ OnOrderCompleted(r, o)
           \/ \E ref \in Confirmed : OnReferralConfirmed(r, ref[1], ref[2])
    PROVE  IInv'
<1>1. \A row, amount, expires, window :
          /\ IsGift(Gift(row, amount, expires, window))
          /\ Gift(row, amount, expires, window).trigger = row.trigger
  BY DEF IsGift, Gift
<1>2. CASE \E o \in Orders : GrantForOrder(r, o)
  <2>1. PICK o, gifts : /\ o \in Orders /\ BeginGrant(r, Owner[o], o, gifts)
                        /\ \A i \in DOMAIN gifts : IsGift(gifts[i]) /\ gifts[i].trigger = "PAID"
    BY <1>1, <1>2 DEF GrantForOrder, OfKind
  <2> QED BY <2>1, BeginGrantStep
<1>3. CASE \E o \in Orders : OnOrderCompleted(r, o)
  <2>1. PICK o, gifts :
          /\ o \in Orders /\ BeginGrant(r, Owner[o], o, gifts) /\ Payable(o)
          /\ \A i \in DOMAIN gifts :
                IsGift(gifts[i]) /\ (gifts[i].trigger = "FIRST_PURCHASE" => FirstPaid(o))
    <3>1. PICK o, gifts :
            /\ o \in Orders /\ BeginGrant(r, Owner[o], o, gifts) /\ Payable(o)
            /\ \A i \in DOMAIN gifts : /\ IsGift(gifts[i]) /\ Earns(incentive[i], o)
                                      /\ gifts[i].trigger = incentive[i].trigger
      BY <1>1, <1>3 DEF OnOrderCompleted
    <3>2. \A row : row.trigger = "FIRST_PURCHASE" /\ Earns(row, o) => FirstPaid(o)
      BY DEF Earns
    <3> QED BY <3>1, <3>2
  <2> QED BY <2>1, BeginGrantStep DEF Payable
<1>4. CASE \E ref \in Confirmed : OnReferralConfirmed(r, ref[1], ref[2])
  <2>1. PICK c, o, gifts : /\ BeginGrant(r, c, o, gifts)
                           /\ \A i \in DOMAIN gifts : IsGift(gifts[i]) /\ gifts[i].trigger = "REFERRAL"
    BY <1>1, <1>4 DEF OnReferralConfirmed, OfKind
  <2> QED BY <2>1, BeginGrantStep
<1> QED BY <1>2, <1>3, <1>4

LEMMA ConsiderStep ==
    ASSUME IInv, NEW r \in Requests, NEW i \in Incentives, Consider(r, i)
    PROVE  IInv'
<1> DEFINE work == [call[r] EXCEPT !.chosen = i]
<1>1. /\ UNCHANGED <<order, redemption>> /\ call' = [call EXCEPT ![r] = work] /\ Grants(r)
      /\ i \in DOMAIN call[r].gifts
      /\ call[r].order # None => ~Given(i, call[r].customer, call[r].order)
  BY DEF Consider, segmentVars, Grants
<1>2. IsGrant(call[r])
  BY <1>1 DEF IInv, OnceInv, Shapes, Grants
<1>3. /\ IsGrant(work) /\ work.customer = call[r].customer /\ work.order = call[r].order
      /\ work.gifts = call[r].gifts /\ work.chosen = i
  BY <1>2 DEF IsGrant
<1> HIDE DEF work
<1>4. Shapes' /\ call'[r] = work /\ \A q \in Requests \ {r} : call'[q] = call[q]
  BY <1>1, <1>3, CallWrite DEF IInv, OnceInv
<1>5. GrantSound(r)'
  BY <1>1, <1>3, <1>4 DEF IInv, OnceInv, GrantSound, Grants, Given
<1> QED BY <1>1, <1>3, <1>4, <1>5, CallsShrink

(* The redemption of the chosen incentive.                                 *)
LEMMA RedeemStep ==
    ASSUME IInv, NEW r \in Requests, Grants(r), call[r].chosen # None, NEW gift, Redeem(r, gift),
           gift.trigger = call[r].gifts[call[r].chosen].trigger
    PROVE  IInv'
<1> DEFINE work == [call[r] EXCEPT !.chosen = None,
                        !.gifts = Restrict(@, DOMAIN @ \ {call[r].chosen})]
<1>1. IsGrant(call[r])
  BY DEF IInv, OnceInv, Shapes, Grants
<1>2. PICK row :
        /\ redemption' = redemption \cup {row} /\ row.incentive = call[r].chosen
        /\ row.customer = call[r].customer /\ row.order = call[r].order /\ row.trigger = gift.trigger
  <2> DEFINE row == [id |-> Cardinality(redemption), incentive |-> call[r].chosen,
                     customer |-> call[r].customer, order |-> call[r].order,
                     trigger |-> gift.trigger, on |-> today, amount |-> gift.amount,
                     expires |-> gift.expires]
  <2>1. /\ row.incentive = call[r].chosen /\ row.customer = call[r].customer
        /\ row.order = call[r].order /\ row.trigger = gift.trigger
    OBVIOUS
  <2>2. redemption' = redemption \cup {row}
    BY DEF Redeem
  <2> HIDE DEF row
  <2> QED BY <2>1, <2>2
<1>3. UNCHANGED order /\ call' = [call EXCEPT ![r] = work]
  BY DEF Redeem, segmentVars
<1>4. /\ IsGrant(work) /\ work.customer = call[r].customer /\ work.order = call[r].order
      /\ work.chosen = None /\ work.gifts = Restrict(call[r].gifts, DOMAIN call[r].gifts \ {call[r].chosen})
  BY <1>1 DEF IsGrant
<1>5. \A i \in DOMAIN work.gifts : i \in DOMAIN call[r].gifts /\ work.gifts[i] = call[r].gifts[i]
  BY <1>4 DEF Restrict
<1> HIDE DEF work
<1>6. Shapes' /\ call'[r] = work /\ \A q \in Requests \ {r} : call'[q] = call[q]
  BY <1>3, <1>4, CallWrite DEF IInv, OnceInv
<1>7. /\ call[r].chosen \in DOMAIN call[r].gifts
      /\ call[r].order # None => ~Given(call[r].chosen, call[r].customer, call[r].order)
  BY DEF IInv, OnceInv, GrantSound
<1>8. RewardedOnce'
  BY <1>2, <1>7 DEF IInv, OnceInv, RewardedOnce, Given
<1>9. Apart'
  BY <1>4, <1>6 DEF IInv, OnceInv, Apart, Grants
<1>10. ASSUME NEW q \in Requests
       PROVE  GrantSound(q)'
  <2>1. CASE q = r
    BY <1>4, <1>5, <1>6, <2>1 DEF IInv, OnceInv, GrantSound
  <2>2. CASE q # r
    <3>1. Grants(q) /\ call[q].order # None => call[q].order # row.order
      BY <1>2, <2>2 DEF IInv, OnceInv, Apart
    <3>2. \A i, c, o : o # row.order => (Given(i, c, o)' => Given(i, c, o))
      BY <1>2 DEF Given
    <3> QED BY <1>6, <2>2, <3>1, <3>2 DEF IInv, OnceInv, GrantSound, Grants
  <2> QED BY <2>1, <2>2
<1>11. \A q \in Requests : \A o : FirstGift(q, o)' =>
           FirstGift(q, o) /\ call'[q].customer = call[q].customer
  BY <1>4, <1>5, <1>6, ZenonT(60) DEF FirstGift, Grants
<1>12. row.trigger = "FIRST_PURCHASE" => FirstGift(r, row.order)
  BY <1>2, <1>7 DEF FirstGift
<1>13. \A o : First(o)' => First(o)
  BY <1>2, <1>11, <1>12 DEF First, FirstRow
<1>14. FirstPaidOnly' /\ FirstIsOne'
  BY <1>3, <1>13 DEF IInv, FirstInv, FirstPaidOnly, FirstIsOne, Undeleted
<1>15. FirstOwned'
  BY <1>2, <1>11, <1>12 DEF IInv, FirstInv, FirstOwned
<1> QED BY <1>6, <1>8, <1>9, <1>10, <1>14, <1>15 DEF IInv, OnceInv, FirstInv

LEMMA RedemptionSteps ==
    ASSUME IInv, NEW r \in Requests, GrantCashback(r) \/ IssueCoupon(r)
    PROVE  IInv'
<1>1. CASE GrantCashback(r)
  BY <1>1, RedeemStep DEF GrantCashback, Grants
<1>2. CASE IssueCoupon(r)
  <2>1. Grants(r) /\ call[r].chosen # None
    BY <1>2 DEF IssueCoupon, Grants
  <2>2. PICK gift : gift = call[r].gifts[call[r].chosen] /\ Redeem(r, [gift EXCEPT !.expires = None])
    BY <1>2 DEF IssueCoupon
  <2>3. IsGift(gift)
    BY <2>1, <2>2 DEF IInv, OnceInv, GrantSound
  <2>4. [gift EXCEPT !.expires = None].trigger = gift.trigger
    BY <2>3 DEF IsGift
  <2> QED BY <2>1, <2>2, <2>4, RedeemStep
<1> QED BY <1>1, <1>2

--------------------------------------------------------------------------------
(* Everything else.                                                        *)

(* A call ends, or uses cashback.                                          *)
LEMMA OtherCalls ==
    ASSUME IInv, NEW r \in Requests,
           \/ End(r) \/ Apply(r)
           \/ \E c \in Customers, use \in Uses : BeginApply(r, c, use[1], use[2])
    PROVE  IInv'
<1>1. UNCHANGED <<order, redemption>>
  BY DEF End, Apply, BeginApply, Begin, segmentVars
<1>2. PICK work : call' = [call EXCEPT ![r] = work] /\ work.kind # "grant"
  <2>1. CASE End(r) \/ Apply(r)
    <3>1. call' = [call EXCEPT ![r] = Idle] /\ Idle.kind # "grant"
      BY <2>1 DEF End, Apply, Idle
    <3> QED BY <3>1
  <2>2. CASE \E c \in Customers, use \in Uses : BeginApply(r, c, use[1], use[2])
    <3>1. PICK c, amount, requested : BeginApply(r, c, amount, requested)
      BY <2>2
    <3> DEFINE work == [kind |-> "apply", customer |-> c, order |-> None,
                        amount |-> ApplyAmount(c, amount, requested)]
    <3>2. call' = [call EXCEPT ![r] = work] /\ work.kind # "grant"
      BY <3>1 DEF BeginApply, Begin
    <3> HIDE DEF work
    <3> QED BY <3>2
  <2> QED BY <2>1, <2>2
<1>3. Shapes' /\ call'[r] = work /\ \A q \in Requests \ {r} : call'[q] = call[q]
  BY <1>1, <1>2, CallWrite DEF IInv, OnceInv
<1> QED BY <1>1, <1>2, <1>3, CallsShrink

(* The wallet is spent, an administrator writes an incentive, or nothing   *)
(* happens.                                                                *)
LEMMA OtherSteps ==
    ASSUME IInv, UNCHANGED <<order, redemption, call>>
    PROVE  IInv'
<1>1. Shapes'
  BY DEF IInv, OnceInv, Shapes
<1> QED BY <1>1, CallsShrink

LEMMA Initially ==
    ASSUME Init
    PROVE  IInv
<1>1. \A q \in Requests : call[q] = Idle /\ ~Grants(q)
  BY DEF Init, RewardsInit, Grants, Idle
<1>2. \A o \in Orders :
          /\ order[o].status = IF o \in DOMAIN PaidBefore THEN "PAID" ELSE "UNPAID"
          /\ IsOrder(order[o])
  BY DEF Init, SegmentsInit, IsOrder
<1>3. Shapes
  BY <1>1, <1>2 DEF Shapes, Init, SegmentsInit, RewardsInit, Grants
<1>4. Apart /\ \A q \in Requests : GrantSound(q)
  BY <1>1 DEF Apart, GrantSound
<1>5. redemption = GivenBefore
  BY DEF Init, RewardsInit
<1>6. RewardedOnce
  BY <1>5, HistoryAssumption DEF RewardedOnce
<1>7. \A q \in Requests : \A o : ~FirstGift(q, o)
  BY <1>1 DEF FirstGift
<1>8. \A o : First(o) => \E r \in GivenBefore : FirstRow(r, o)
  BY <1>5, <1>7 DEF First
<1>9. FirstPaidOnly
  BY <1>2, <1>8, HistoryAssumption DEF FirstPaidOnly, FirstRow
<1>10. FirstIsOne
  BY <1>8, HistoryAssumption DEF FirstIsOne, FirstRow
<1>11. FirstOwned
  BY <1>5, <1>7, HistoryAssumption, SegmentsAssumption DEF FirstOwned
<1> QED BY <1>3, <1>4, <1>6, <1>9, <1>10, <1>11 DEF IInv, OnceInv, FirstInv

LEMMA Inductive ==
    ASSUME ~Overlap, IInv, [Next]_vars
    PROVE  IInv'
<1>1. CASE UNCHANGED vars
  BY <1>1, OtherSteps DEF vars, segmentVars, rewardVars
<1>2. CASE ClubSteps /\ UNCHANGED rewardVars
  BY <1>2, ClubStep DEF rewardVars
<1>3. CASE Removes /\ UNCHANGED <<incentive, redemption, used, applied, call, calls>>
  BY <1>3, ClubStep DEF Removes
<1>4. CASE \E r \in Requests :
              \/ \E o \in Orders : GrantForOrder(r, o) \/ OnOrderCompleted(r, o)
              \/ \E ref \in Confirmed : OnReferralConfirmed(r, ref[1], ref[2])
  BY <1>4, GrantSteps
<1>5. CASE \E r \in Requests : \/ \E i \in Incentives : Consider(r, i)
                               \/ GrantCashback(r) \/ IssueCoupon(r)
  BY <1>5, ConsiderStep, RedemptionSteps
<1>6. CASE \E r \in Requests :
              \/ End(r) \/ Apply(r)
              \/ \E c \in Customers, use \in Uses : BeginApply(r, c, use[1], use[2])
  BY <1>6, OtherCalls
<1>7. CASE \E c \in Customers, use \in Uses : SpendWallet(c, use[1])
  BY <1>7, OtherSteps DEF SpendWallet, segmentVars
<1>8. CASE \E i \in Incentives :
              \/ \E row \in Forms : CreateCashback(i, row) \/ CreateCoupon(i, row)
              \/ \E change \in Changes : UpdateCashback(i, change) \/ UpdateCoupon(i, change)
              \/ DeactivateCashback(i) \/ DeactivateCoupon(i)
  <2>1. PICK i, row : i \in Incentives /\ Writes(i, row)
    BY <1>8 DEF CreateCashback, CreateCoupon, Creates, UpdateCashback, UpdateCoupon, Updates,
                DeactivateCashback, DeactivateCoupon, Deactivate
  <2> QED BY <2>1, OtherSteps DEF Writes, segmentVars
<1> QED BY <1>1, <1>2, <1>3, <1>4, <1>5, <1>6, <1>7, <1>8 DEF Next

LEMMA Invariant ==
    ASSUME ~Overlap
    PROVE  Spec => []IInv
<1>1. Init => IInv
  BY Initially
<1>2. IInv /\ [Next]_vars => IInv'
  BY Inductive
<1> QED BY <1>1, <1>2, PTL DEF Spec

--------------------------------------------------------------------------------

(* An order earns a customer each incentive once, however often its grants *)
(* are called, die half-way and are called again, if no two overlap        *)
(* (grantForOrder and onOrderCompleted look before they write).            *)
THEOREM OrdersRewardedOnce ==
    ASSUME ~Overlap
    PROVE  Spec => []RewardedOnce
<1>1. IInv => RewardedOnce
  BY DEF IInv, OnceInv
<1> QED BY <1>1, Invariant, PTL

(* A customer gets an incentive for a first purchase once, whatever        *)
(* payments and grants come between, while no order of the customer is     *)
(* deleted (hasNoPriorPaidOrder asks for paid orders that stand).          *)
THEOREM FirstPurchasesOnce ==
    ASSUME ~Overlap
    PROVE  Spec => []FirstPurchaseOnce
<1>1. ASSUME IInv, NEW r \in redemption, NEW s \in redemption,
             r.customer = s.customer, r.incentive = s.incentive,
             r.trigger = "FIRST_PURCHASE", s.trigger = "FIRST_PURCHASE",
             \A o \in Orders : Owner[o] = r.customer => ~order[o].deleted
      PROVE  r = s
  <2>1. r.order \in Orders /\ s.order \in Orders
    BY <1>1 DEF IInv, FirstInv, FirstOwned
  <2>2. r.customer = Owner[r.order] /\ s.customer = Owner[s.order]
    BY <1>1 DEF IInv, FirstInv, FirstOwned
  <2>3. First(r.order) /\ First(s.order)
    BY <1>1 DEF First, FirstRow
  <2>4. Undeleted(Owner[r.order])
    BY <1>1, <2>2 DEF Undeleted
  <2>5. r.order = s.order
    BY <1>1, <2>1, <2>2, <2>3, <2>4 DEF IInv, FirstInv, FirstIsOne
  <2> QED BY <1>1, <2>1, <2>5, RewardsAssumption DEF IInv, OnceInv, RewardedOnce
<1>2. IInv => FirstPurchaseOnce
  BY <1>1 DEF FirstPurchaseOnce
<1> QED BY <1>2, Invariant, PTL

--------------------------------------------------------------------------------
(* Sums.                                                                   *)

(* Counting units: one entry of the count changes.                         *)
LEMMA UnitsOfOne ==
    ASSUME NEW x, NEW n \in Nat
    PROVE  IsFiniteSet({x} \X (1..n)) /\ Cardinality({x} \X (1..n)) = n
<1>1. IsFiniteSet({x}) /\ Cardinality({x}) = 1
  BY FS_Singleton
<1>2. IsFiniteSet(1..n) /\ Cardinality(1..n) = n
  BY FS_Interval
<1>3. /\ IsFiniteSet({x} \X (1..n))
      /\ Cardinality({x} \X (1..n)) = Cardinality({x}) * Cardinality(1..n)
  BY <1>1, <1>2, FS_Product
<1> QED BY <1>1, <1>2, <1>3

LEMMA UnitsFinite ==
    ASSUME NEW S, IsFiniteSet(S), NEW f \in [S -> Nat]
    PROVE  IsFiniteSet(UnitsIn(f)) /\ Cardinality(UnitsIn(f)) \in Nat
<1>1. PICK T : T = {{x} \X (1..f[x]) : x \in S}
  OBVIOUS
<1>2. PICK g : g = [x \in S |-> {x} \X (1..f[x])]
  OBVIOUS
<1>3. g \in Surjection(S, T)
  BY <1>1, <1>2 DEF Surjection
<1>4. IsFiniteSet(T)
  BY <1>3, FS_Surjection
<1>5. \A u \in T : IsFiniteSet(u)
  <2> SUFFICES ASSUME NEW x \in S PROVE IsFiniteSet({x} \X (1..f[x]))
    BY <1>1
  <2> QED BY UnitsOfOne
<1>6. UnitsIn(f) = UNION T
  BY <1>1 DEF UnitsIn
<1> QED BY <1>4, <1>5, <1>6, FS_UNION, FS_CardinalityType

LEMMA UnitsChange ==
    ASSUME NEW S, IsFiniteSet(S), NEW f \in [S -> Nat], NEW x \in S, NEW n \in Nat,
           NEW g, g = [f EXCEPT ![x] = n]
    PROVE  /\ Cardinality(UnitsIn(g)) = Cardinality(UnitsIn(f)) - f[x] + n
           /\ Cardinality(UnitsIn(f)) \in Nat /\ Cardinality(UnitsIn(g)) \in Nat
<1>1. g \in [S -> Nat] /\ g[x] = n /\ \A y \in S \ {x} : g[y] = f[y]
  OBVIOUS
<1>2. /\ IsFiniteSet(UnitsIn(f)) /\ Cardinality(UnitsIn(f)) \in Nat
      /\ IsFiniteSet(UnitsIn(g)) /\ Cardinality(UnitsIn(g)) \in Nat
  BY <1>1, UnitsFinite
<1>3. PICK R : R = UNION {{y} \X (1..f[y]) : y \in S \ {x}}
  OBVIOUS
<1>4. UnitsIn(f) = R \cup ({x} \X (1..f[x])) /\ R \cap ({x} \X (1..f[x])) = {}
  BY <1>3 DEF UnitsIn
<1>5. UnitsIn(g) = R \cup ({x} \X (1..n)) /\ R \cap ({x} \X (1..n)) = {}
  BY <1>1, <1>3 DEF UnitsIn
<1>6. IsFiniteSet(R) /\ Cardinality(R) \in Nat
  BY <1>2, <1>4, FS_Subset, FS_CardinalityType
<1>7. Cardinality(UnitsIn(f)) = Cardinality(R) + f[x]
  <2>1. f[x] \in Nat
    OBVIOUS
  <2>2. IsFiniteSet({x} \X (1..f[x])) /\ Cardinality({x} \X (1..f[x])) = f[x]
    BY <2>1, UnitsOfOne
  <2>3. Cardinality(R \cap ({x} \X (1..f[x]))) = 0
    BY <1>4, FS_EmptySet
  <2>4. Cardinality(R \cup ({x} \X (1..f[x])))
          = Cardinality(R) + Cardinality({x} \X (1..f[x])) - Cardinality(R \cap ({x} \X (1..f[x])))
    BY <1>6, <2>2, FS_Union
  <2> QED BY <1>4, <1>6, <2>1, <2>2, <2>3, <2>4
<1>8. Cardinality(UnitsIn(g)) = Cardinality(R) + n
  <2>1. IsFiniteSet({x} \X (1..n)) /\ Cardinality({x} \X (1..n)) = n
    BY UnitsOfOne
  <2>2. Cardinality(R \cap ({x} \X (1..n))) = 0
    BY <1>5, FS_EmptySet
  <2>3. Cardinality(R \cup ({x} \X (1..n)))
          = Cardinality(R) + Cardinality({x} \X (1..n)) - Cardinality(R \cap ({x} \X (1..n)))
    BY <1>6, <2>1, FS_Union
  <2>4. Cardinality(UnitsIn(g)) = Cardinality(R \cup ({x} \X (1..n)))
    BY <1>5
  <2> QED BY <1>6, <2>1, <2>2, <2>3, <2>4
<1> QED BY <1>2, <1>6, <1>7, <1>8

LEMMA SumIsNat ==
    ASSUME NEW R, IsFiniteSet(R), NEW f, f = [r \in R |-> r.amount], f \in [R -> Nat]
    PROVE  Sum(R) \in Nat /\ Sum(R) = Cardinality(UnitsIn(f))
<1>1. Cardinality(UnitsIn(f)) \in Nat
  BY UnitsFinite
<1> QED BY <1>1 DEF Sum, SumOf

Priced(R) == \A r \in R : r.amount \in Nat

LEMMA SumGrows ==
    ASSUME NEW R, IsFiniteSet(R), Priced(R), NEW S, S \subseteq R
    PROVE  Sum(S) \in Nat /\ Sum(R) \in Nat /\ Sum(S) <= Sum(R)
<1>1. PICK f, g : f = [r \in R |-> r.amount] /\ g = [r \in S |-> r.amount]
  OBVIOUS
<1>2. f \in [R -> Nat] /\ g \in [S -> Nat]
  BY <1>1 DEF Priced
<1>3. IsFiniteSet(S)
  BY FS_Subset
<1>4. UnitsIn(g) \subseteq UnitsIn(f)
  BY <1>1 DEF UnitsIn
<1>5. IsFiniteSet(UnitsIn(f)) /\ IsFiniteSet(UnitsIn(g))
  BY <1>2, <1>3, UnitsFinite
<1>6. Cardinality(UnitsIn(g)) <= Cardinality(UnitsIn(f))
  BY <1>4, <1>5, FS_Subset
<1>7. /\ Sum(R) \in Nat /\ Sum(R) = Cardinality(UnitsIn(f))
  BY <1>1, <1>2, SumIsNat
<1>8. /\ Sum(S) \in Nat /\ Sum(S) = Cardinality(UnitsIn(g))
  BY <1>1, <1>2, <1>3, SumIsNat
<1> QED BY <1>6, <1>7, <1>8

LEMMA MinOfTwo ==
    ASSUME NEW a \in Int, NEW b \in Int
    PROVE  Min({a, b}) \in {a, b} /\ Min({a, b}) <= a /\ Min({a, b}) <= b
<1>1. \E m \in {a, b} : \A y \in {a, b} : m <= y
  BY a <= b \/ b <= a
<1>2. Min({a, b}) \in {a, b} /\ \A y \in {a, b} : Min({a, b}) <= y
  BY <1>1 DEF Min
<1> QED BY <1>2

LEMMA MaxOfTwo ==
    ASSUME NEW a \in Int, NEW b \in Int
    PROVE  Max({a, b}) \in {a, b} /\ Max({a, b}) >= a /\ Max({a, b}) >= b
<1>1. \E m \in {a, b} : \A y \in {a, b} : m >= y
  BY a >= b \/ b >= a
<1>2. Max({a, b}) \in {a, b} /\ \A y \in {a, b} : Max({a, b}) >= y
  BY <1>1 DEF Max
<1> QED BY <1>2

--------------------------------------------------------------------------------
(* Types: the club.                                                        *)

MemberRow == [segment : SegmentKeys, frequency : 1..Cardinality(Orders)]
OrderRow == [status : {"UNPAID", "PAID"}, paidOn : Days \cup Range(PaidBefore), deleted : BOOLEAN]
ClubTypes ==
    /\ today \in Days /\ ranOn \in -1..today /\ job \in {"idle", "churn", "loyalty"}
    /\ order \in [Orders -> OrderRow]
    /\ membership \in [Customers -> Seq(MemberRow)]

LEMMA SegmentIsKey == ASSUME NEW c PROVE SegmentOf(c) \in SegmentKeys
BY DEF SegmentOf, SegmentKeys

LEMMA FrequencyBound ==
    ASSUME NEW c, c \in Ranked
    PROVE  Frequency(c) \in 1..Cardinality(Orders)
<1>1. PaidOrders(c) \subseteq Orders /\ PaidOrders(c) # {}
  BY DEF PaidOrders, Ranked
<1>2. IsFiniteSet(Orders) /\ IsFiniteSet(PaidOrders(c))
  BY <1>1, SegmentsAssumption, FS_Subset
<1>3. /\ Cardinality(PaidOrders(c)) \in Nat /\ Cardinality(Orders) \in Nat
      /\ Cardinality(PaidOrders(c)) <= Cardinality(Orders) /\ Cardinality(PaidOrders(c)) # 0
  BY <1>1, <1>2, FS_Subset, FS_CardinalityType, FS_EmptySet
<1> QED BY <1>3 DEF Frequency

LEMMA ClubKept ==
    ASSUME ClubTypes,
           ClubSteps \/ (\E o \in Orders : DeleteOrder(o)) \/ UNCHANGED segmentVars
    PROVE  ClubTypes'
<1>0. MaxDay \in Nat /\ today \in Nat /\ today <= MaxDay
  BY SegmentsAssumption DEF ClubTypes, Days
<1>1. CASE RunSegmentation
  <2>1. membership' \in [Customers -> Seq(MemberRow)]
    <3>1. ASSUME NEW c \in Customers PROVE membership'[c] \in Seq(MemberRow)
      <4>1. CASE c \notin Ranked
        BY <1>1, <4>1 DEF RunSegmentation, ClubTypes
      <4>2. CASE c \in Ranked
        <5>1. [segment |-> SegmentOf(c), frequency |-> Frequency(c)] \in MemberRow
          BY <4>2, SegmentIsKey, FrequencyBound DEF MemberRow
        <5>2. membership'[c] = Append(membership[c], [segment |-> SegmentOf(c), frequency |-> Frequency(c)])
          BY <1>1, <4>2 DEF RunSegmentation
        <5> QED BY <5>1, <5>2 DEF ClubTypes
      <4> QED BY <4>1, <4>2
    <3>2. membership' = [c \in Customers |-> membership'[c]]
      BY <1>1 DEF RunSegmentation
    <3> QED BY <3>1, <3>2
  <2> QED BY <1>0, <1>1, <2>1 DEF RunSegmentation, ClubTypes
<1>2. CASE EvaluateChurn \/ EvaluateLoyalty \/ EvaluationFails
  <2>1. UNCHANGED <<today, ranOn, order, membership>> /\ job' \in {"idle", "churn", "loyalty"}
    BY <1>2 DEF EvaluateChurn, EvaluateLoyalty, EvaluationFails
  <2> QED BY <2>1 DEF ClubTypes
<1>3. CASE Tick
  BY <1>0, <1>3 DEF Tick, ClubTypes, Days
<1>4. CASE \E o \in Orders : PayOrder(o)
  <2>1. PICK o \in Orders : PayOrder(o)
    BY <1>4
  <2>2. order' \in [Orders -> OrderRow]
    BY <2>1 DEF PayOrder, ClubTypes, OrderRow
  <2> QED BY <2>1, <2>2 DEF PayOrder, ClubTypes
<1>5. CASE \E o \in Orders : DeleteOrder(o)
  <2>1. PICK o \in Orders : DeleteOrder(o)
    BY <1>5
  <2>2. order' \in [Orders -> OrderRow]
    BY <2>1 DEF DeleteOrder, ClubTypes, OrderRow
  <2> QED BY <2>1, <2>2 DEF DeleteOrder, ClubTypes
<1>6. CASE UNCHANGED segmentVars
  BY <1>6 DEF segmentVars, ClubTypes
<1> QED BY <1>1, <1>2, <1>3, <1>4, <1>5, <1>6 DEF ClubSteps, Night

LEMMA ClubInitially ==
    ASSUME SegmentsInit
    PROVE  ClubTypes
<1>1. order \in [Orders -> OrderRow]
  <2>1. \A o \in DOMAIN PaidBefore : PaidBefore[o] \in Range(PaidBefore)
    BY DEF Range
  <2>2. 0 \in Days
    BY SegmentsAssumption DEF Days
  <2>3. \A o \in Orders : order[o] \in OrderRow
    BY <2>1, <2>2 DEF SegmentsInit, OrderRow
  <2> QED BY <2>3 DEF SegmentsInit
<1>2. today = 0 /\ ranOn = -1 /\ job = "idle" /\ membership = RowsBefore
  BY DEF SegmentsInit
<1>3. today \in Days /\ ranOn \in -1..today
  BY <1>2, SegmentsAssumption DEF Days
<1> QED BY <1>1, <1>2, <1>3, SegmentsAssumption DEF ClubTypes, MemberRow

--------------------------------------------------------------------------------
(* Types: the rewards.                                                     *)

IncentiveTypes ==
    /\ incentive = [i \in Incentives |-> incentive[i]]
    /\ \A i \in Live : Shaped(incentive[i]) /\ Sound(incentive[i])

RedemptionOk(r) ==
    /\ r.amount \in Nat \ {0} /\ r.incentive \in Live /\ r.customer \in Customers
    /\ r.trigger # "REFERRAL" =>
           r.order \in Orders /\ r.customer = Owner[r.order] /\ r.amount <= Amount[r.order]
RedemptionTypes == IsFiniteSet(redemption) /\ \A r \in redemption : RedemptionOk(r)

(* A gift of a grant for a customer and an order.                          *)
GiftOk(i, g, c, o) ==
    /\ i \in Live /\ {"amount", "trigger", "expires", "window"} \subseteq DOMAIN g
    /\ g.amount \in Nat \ {0}
    /\ g.trigger # "REFERRAL" => o \in Orders /\ c = Owner[o] /\ g.amount <= Amount[o]
GiftsOk(gifts, c, o) == \A i \in DOMAIN gifts : GiftOk(i, gifts[i], c, o)
GrantOk(w) ==
    /\ {"kind", "customer", "order", "gifts", "chosen"} \subseteq DOMAIN w
    /\ w.customer \in Customers /\ GiftsOk(w.gifts, w.customer, w.order)
    /\ w.chosen # None => w.chosen \in DOMAIN w.gifts
CallOk(w) ==
    /\ w.kind = "grant" => GrantOk(w)
    /\ w.kind = "apply" => w.customer \in Customers /\ w.amount \in Nat \ {0}
CallTypes == call = [q \in Requests |-> call[q]] /\ \A q \in Requests : CallOk(call[q])

AccountTypes ==
    /\ used \in [Customers -> Nat] /\ applied \in [Customers -> Nat]
    /\ calls \in 0..MaxCalls /\ edits \in 0..MaxEdits

TInv == ClubTypes /\ IncentiveTypes /\ RedemptionTypes /\ CallTypes /\ AccountTypes

(* Incentives are never removed, so what refers to one still does.         *)
LEMMA LiveGrows ==
    ASSUME TInv, Live \subseteq Live'
    PROVE  /\ \A r : RedemptionOk(r) => RedemptionOk(r)'
           /\ \A w : CallOk(w) => CallOk(w)'
<1>1. \A r : RedemptionOk(r) => RedemptionOk(r)'
  BY DEF RedemptionOk
<1>2. \A i, g, c, o : GiftOk(i, g, c, o) => GiftOk(i, g, c, o)'
  BY DEF GiftOk
<1>3. \A gifts, c, o : GiftsOk(gifts, c, o) => GiftsOk(gifts, c, o)'
  BY <1>2 DEF GiftsOk
<1>4. \A w : GrantOk(w) => GrantOk(w)'
  BY <1>3 DEF GrantOk
<1> QED BY <1>1, <1>4 DEF CallOk

LEMMA SameIncentives ==
    ASSUME TInv, UNCHANGED incentive
    PROVE  /\ IncentiveTypes' /\ Live' = Live
           /\ \A r : RedemptionOk(r) => RedemptionOk(r)'
           /\ \A w : CallOk(w) => CallOk(w)'
<1>1. IncentiveTypes' /\ Live' = Live
  BY DEF TInv, IncentiveTypes, Live
<1> QED BY <1>1, LiveGrows

(* A request's new work.                                                   *)
LEMMA WorkWritten ==
    ASSUME TInv, NEW r \in Requests, NEW work, CallOk(work), call' = [call EXCEPT ![r] = work],
           UNCHANGED incentive
    PROVE  CallTypes' /\ call'[r] = work /\ \A q \in Requests \ {r} : call'[q] = call[q]
<1>1. call'[r] = work /\ \A q \in Requests \ {r} : call'[q] = call[q]
  BY DEF TInv, CallTypes
<1>2. call' = [q \in Requests |-> call'[q]]
  BY DEF TInv, CallTypes
<1>3. \A q \in Requests : CallOk(call'[q])
  BY <1>1 DEF TInv, CallTypes
<1>4. \A q \in Requests : CallOk(call[q])'
  BY <1>3, SameIncentives
<1> QED BY <1>1, <1>2, <1>4 DEF CallTypes

LEMMA IdleIsOk == CallOk(Idle)
BY DEF CallOk, Idle

LEMMA PositivePart ==
    ASSUME NEW v \in Int
    PROVE  Max({v, 0}) \in Nat
<1>1. Max({v, 0}) \in {v, 0} /\ Max({v, 0}) >= v /\ Max({v, 0}) >= 0
  BY MaxOfTwo
<1> QED BY <1>1

LEMMA ShareIsInt ==
    ASSUME NEW row, Shaped(row), NEW amount \in Nat
    PROVE  Value(row, amount) \in Int
<1>1. row.value \in Int
  BY DEF Shaped
<1>2. amount * row.value \in Int
  BY <1>1
<1>3. (amount * row.value) \div 100 \in Int
  BY <1>2
<1> QED BY <1>1, <1>3 DEF Value

(* A reward is never negative, and of an order never more than its amount. *)
LEMMA RewardBounds ==
    ASSUME NEW row, Shaped(row), NEW o
    PROVE  /\ o \in Orders => RewardOf(row, o) \in Nat /\ RewardOf(row, o) <= Amount[o]
           /\ o = None => RewardOf(row, o) \in Nat
<1>1. ASSUME o \in Orders PROVE RewardOf(row, o) \in Nat /\ RewardOf(row, o) <= Amount[o]
  <2>1. Amount[o] \in Nat /\ o # None
    BY <1>1, SegmentsAssumption, RewardsAssumption
  <2>2. PICK v \in Int : v = Value(row, Amount[o])
    BY <2>1, ShareIsInt
  <2>3. PICK m : m = Max({v, 0})
    OBVIOUS
  <2>4. m \in Nat
    BY <2>3, PositivePart
  <2>5. PICK a \in Nat : a = Amount[o]
    BY <2>1
  <2>6. m \in Int /\ a \in Int
    BY <2>4
  <2>7. Min({m, a}) \in {m, a} /\ Min({m, a}) <= m /\ Min({m, a}) <= a
    BY <2>6, MinOfTwo
  <2>8. RewardOf(row, o) = Min({m, a})
    BY <2>1, <2>2, <2>3, <2>5 DEF RewardOf, Clamped
  <2> QED BY <2>4, <2>5, <2>7, <2>8
<1>2. ASSUME o = None PROVE RewardOf(row, o) \in Nat
  <2>1. row.value \in Int
    BY DEF Shaped
  <2>2. Max({row.value, 0}) \in Nat
    BY <2>1, PositivePart
  <2> QED BY <1>2, <2>2 DEF RewardOf
<1> QED BY <1>1, <1>2

--------------------------------------------------------------------------------
(* Types: grants.                                                          *)

LEMMA BeginTypes ==
    ASSUME TInv, NEW r \in Requests, NEW work, CallOk(work), Begin(r, work)
    PROVE  TInv'
<1>1. /\ UNCHANGED <<segmentVars, incentive, redemption, used, applied, edits>>
      /\ call' = [call EXCEPT ![r] = work] /\ calls < MaxCalls /\ calls' = calls + 1
  BY DEF Begin
<1>2. ClubTypes'
  BY <1>1, ClubKept DEF TInv
<1>3. IncentiveTypes' /\ RedemptionTypes'
  BY <1>1, SameIncentives DEF TInv, RedemptionTypes
<1>4. CallTypes'
  BY <1>1, WorkWritten
<1>5. AccountTypes'
  <2>1. MaxCalls \in Nat /\ MaxEdits \in Nat
    BY RewardsAssumption
  <2> QED BY <1>1, <2>1 DEF TInv, AccountTypes
<1> QED BY <1>2, <1>3, <1>4, <1>5 DEF TInv

LEMMA GrantTypes ==
    ASSUME TInv, NEW r \in Requests, NEW c \in Customers, NEW o, NEW gifts,
           BeginGrant(r, c, o, gifts), GiftsOk(gifts, c, o)
    PROVE  TInv'
<1> DEFINE work == [kind |-> "grant", customer |-> c, order |-> o, gifts |-> gifts, chosen |-> None]
<1>1. Begin(r, work)
  BY DEF BeginGrant
<1>2. CallOk(work)
  BY DEF CallOk, GrantOk
<1> HIDE DEF work
<1> QED BY <1>1, <1>2, BeginTypes

LEMMA GiftIsOk ==
    ASSUME TInv, NEW i \in Live, NEW o, NEW c, NEW x, NEW expires, NEW window,
           \/ o \in Orders /\ c = Owner[o] /\ x = RewardOf(incentive[i], o)
           \/ x = RewardOf(incentive[i], None) /\ incentive[i].trigger = "REFERRAL",
           x > 0
    PROVE  GiftOk(i, Gift(incentive[i], x, expires, window), c, o)
<1>1. Shaped(incentive[i])
  BY DEF TInv, IncentiveTypes
<1>2. x \in Nat /\ (incentive[i].trigger # "REFERRAL" => o \in Orders /\ c = Owner[o] /\ x <= Amount[o])
  BY <1>1, RewardBounds
<1>3. PICK trigger : trigger = incentive[i].trigger
  OBVIOUS
<1>4. PICK g : g = [amount |-> x, trigger |-> trigger, expires |-> expires, window |-> window]
  OBVIOUS
<1>5. {"amount", "trigger", "expires", "window"} \subseteq DOMAIN g /\ g.amount = x /\ g.trigger = trigger
  BY <1>4
<1>6. GiftOk(i, g, c, o)
  BY <1>2, <1>3, <1>5 DEF GiftOk
<1> QED BY <1>3, <1>4, <1>6 DEF Gift

LEMMA GrantStepTypes ==
    ASSUME TInv, NEW r \in Requests,
           \/ \E o \in Orders : GrantForOrder(r, o) \/ OnOrderCompleted(r, o)
           \/ \E ref \in Confirmed : OnReferralConfirmed(r, ref[1], ref[2])
    PROVE  TInv'
<1>1. CASE \E o \in Orders : GrantForOrder(r, o)
  <2>1. PICK o \in Orders : GrantForOrder(r, o)
    BY <1>1
  <2>2. PICK gifts : BeginGrant(r, Owner[o], o, gifts) /\ GiftsOk(gifts, Owner[o], o)
    BY <2>1, GiftIsOk DEF GrantForOrder, OfKind, GiftsOk
  <2>3. Owner[o] \in Customers
    BY SegmentsAssumption
  <2> QED BY <2>2, <2>3, GrantTypes
<1>2. CASE \E o \in Orders : OnOrderCompleted(r, o)
  <2>1. PICK o \in Orders : OnOrderCompleted(r, o)
    BY <1>2
  <2>2. PICK gifts : BeginGrant(r, Owner[o], o, gifts) /\ GiftsOk(gifts, Owner[o], o)
    BY <2>1, GiftIsOk DEF OnOrderCompleted, OfKind, GiftsOk
  <2>3. Owner[o] \in Customers
    BY SegmentsAssumption
  <2> QED BY <2>2, <2>3, GrantTypes
<1>3. CASE \E ref \in Confirmed : OnReferralConfirmed(r, ref[1], ref[2])
  <2>1. PICK c, o : c \in Customers /\ OnReferralConfirmed(r, c, o)
    BY <1>3, RewardsAssumption
  <2>2. PICK earned : earned = {i \in OfKind("COUPON", {"REFERRAL"}) :
                                  Targets(incentive[i], c) /\ RewardOf(incentive[i], None) > 0}
    OBVIOUS
  <2>3. PICK gifts : gifts = [i \in earned |->
            Gift(incentive[i], RewardOf(incentive[i], None), None, incentive[i].from..incentive[i].to)]
    OBVIOUS
  <2>4. BeginGrant(r, c, o, gifts)
    BY <2>1, <2>2, <2>3 DEF OnReferralConfirmed
  <2>5. ASSUME NEW i \in earned
        PROVE  GiftOk(i, Gift(incentive[i], RewardOf(incentive[i], None), None,
                              incentive[i].from..incentive[i].to), c, o)
    <3>1. i \in Live /\ incentive[i].trigger = "REFERRAL" /\ RewardOf(incentive[i], None) > 0
      BY <2>2, <2>5 DEF OfKind
    <3> QED BY <3>1, GiftIsOk
  <2>6. GiftsOk(gifts, c, o)
    BY <2>3, <2>5 DEF GiftsOk
  <2> QED BY <2>1, <2>4, <2>6, GrantTypes
<1> QED BY <1>1, <1>2, <1>3

LEMMA ConsiderTypes ==
    ASSUME TInv, NEW r \in Requests, NEW i, Consider(r, i)
    PROVE  TInv'
<1> DEFINE work == [call[r] EXCEPT !.chosen = i]
<1>1. /\ UNCHANGED <<segmentVars, incentive, redemption, used, applied, calls, edits>>
      /\ call' = [call EXCEPT ![r] = work] /\ call[r].kind = "grant" /\ i \in DOMAIN call[r].gifts
  BY DEF Consider
<1>2. GrantOk(call[r])
  BY <1>1 DEF TInv, CallTypes, CallOk
<1>3. CallOk(work)
  BY <1>1, <1>2 DEF CallOk, GrantOk
<1> HIDE DEF work
<1>4. ClubTypes' /\ AccountTypes'
  BY <1>1, ClubKept DEF TInv, AccountTypes
<1>5. IncentiveTypes' /\ RedemptionTypes'
  BY <1>1, SameIncentives DEF TInv, RedemptionTypes
<1>6. CallTypes'
  BY <1>1, <1>3, WorkWritten
<1> QED BY <1>4, <1>5, <1>6 DEF TInv

LEMMA EndTypes ==
    ASSUME TInv, NEW r \in Requests, End(r)
    PROVE  TInv'
<1>1. /\ UNCHANGED <<segmentVars, incentive, redemption, used, applied, calls, edits>>
      /\ call' = [call EXCEPT ![r] = Idle]
  BY DEF End
<1>2. ClubTypes' /\ AccountTypes'
  BY <1>1, ClubKept DEF TInv, AccountTypes
<1>3. IncentiveTypes' /\ RedemptionTypes'
  BY <1>1, SameIncentives DEF TInv, RedemptionTypes
<1>4. CallTypes'
  BY <1>1, IdleIsOk, WorkWritten
<1> QED BY <1>2, <1>3, <1>4 DEF TInv

(* A redemption is of the gift's amount, and is for the same order.        *)
LEMMA RedeemTypes ==
    ASSUME TInv, NEW r \in Requests, call[r].kind = "grant", call[r].chosen # None, NEW gift,
           Redeem(r, gift), gift.amount = call[r].gifts[call[r].chosen].amount,
           gift.trigger = call[r].gifts[call[r].chosen].trigger
    PROVE  /\ TInv'
           /\ \E row : /\ redemption' = redemption \cup {row}
                       /\ row.customer = call[r].customer /\ row.trigger = gift.trigger
<1> DEFINE work == [call[r] EXCEPT !.chosen = None,
                        !.gifts = Restrict(@, DOMAIN @ \ {call[r].chosen})]
<1>1. GrantOk(call[r])
  BY DEF TInv, CallTypes, CallOk
<1>2. PICK row :
        /\ redemption' = redemption \cup {row} /\ row.incentive = call[r].chosen
        /\ row.customer = call[r].customer /\ row.order = call[r].order
        /\ row.trigger = gift.trigger /\ row.amount = gift.amount
  <2> DEFINE row == [id |-> Cardinality(redemption), incentive |-> call[r].chosen,
                     customer |-> call[r].customer, order |-> call[r].order,
                     trigger |-> gift.trigger, on |-> today, amount |-> gift.amount,
                     expires |-> gift.expires]
  <2>1. /\ row.incentive = call[r].chosen /\ row.customer = call[r].customer
        /\ row.order = call[r].order /\ row.trigger = gift.trigger /\ row.amount = gift.amount
    OBVIOUS
  <2>2. redemption' = redemption \cup {row}
    BY DEF Redeem
  <2> HIDE DEF row
  <2> QED BY <2>1, <2>2
<1>3. /\ UNCHANGED <<segmentVars, incentive, used, applied, calls, edits>>
      /\ call' = [call EXCEPT ![r] = work]
  BY DEF Redeem
<1>4. /\ {"kind", "customer", "order", "gifts", "chosen"} \subseteq DOMAIN work
      /\ work.kind = "grant" /\ work.customer = call[r].customer /\ work.order = call[r].order
      /\ work.chosen = None
      /\ work.gifts = Restrict(call[r].gifts, DOMAIN call[r].gifts \ {call[r].chosen})
  BY <1>1 DEF GrantOk
<1>5. \A i \in DOMAIN work.gifts : i \in DOMAIN call[r].gifts /\ work.gifts[i] = call[r].gifts[i]
  BY <1>4 DEF Restrict
<1> HIDE DEF work
<1>6. CallOk(work)
  BY <1>1, <1>4, <1>5 DEF CallOk, GrantOk, GiftsOk
<1>7. CallTypes'
  BY <1>3, <1>6, WorkWritten
<1>8. RedemptionOk(row)
  BY <1>1, <1>2 DEF GrantOk, GiftsOk, GiftOk, RedemptionOk
<1>9. RedemptionTypes'
  <2>1. IsFiniteSet(redemption')
    BY <1>2, FS_AddElement DEF TInv, RedemptionTypes
  <2>2. \A s \in redemption' : RedemptionOk(s)
    BY <1>2, <1>8 DEF TInv, RedemptionTypes
  <2> QED BY <1>3, <2>1, <2>2, SameIncentives DEF RedemptionTypes
<1>10. IncentiveTypes'
  BY <1>3, SameIncentives
<1>11. ClubTypes' /\ AccountTypes'
  BY <1>3, ClubKept DEF TInv, AccountTypes
<1>12. TInv'
  BY <1>7, <1>9, <1>10, <1>11 DEF TInv
<1> QED BY <1>2, <1>12

LEMMA RedemptionStepTypes ==
    ASSUME TInv, NEW r \in Requests, GrantCashback(r) \/ IssueCoupon(r)
    PROVE  /\ TInv'
           /\ \E row : redemption' = redemption \cup {row}
<1>1. CASE GrantCashback(r)
  <2>1. PICK gift : /\ call[r].kind = "grant" /\ call[r].chosen # None /\ Redeem(r, gift)
                    /\ gift = call[r].gifts[call[r].chosen]
    BY <1>1 DEF GrantCashback
  <2> QED BY <2>1, RedeemTypes
<1>2. CASE IssueCoupon(r)
  <2>1. PICK g, gift : /\ call[r].kind = "grant" /\ call[r].chosen # None /\ Redeem(r, gift)
                       /\ g = call[r].gifts[call[r].chosen] /\ gift = [g EXCEPT !.expires = None]
    BY <1>2 DEF IssueCoupon
  <2>2. {"amount", "trigger", "expires"} \subseteq DOMAIN g
    BY <2>1 DEF TInv, CallTypes, CallOk, GrantOk, GiftsOk, GiftOk
  <2>3. gift.amount = g.amount /\ gift.trigger = g.trigger
    BY <2>1, <2>2
  <2> QED BY <2>1, <2>3, RedeemTypes
<1> QED BY <1>1, <1>2
--------------------------------------------------------------------------------
(* Types: cashback and the wallet.                                         *)

LEMMA RedemptionsPriced ==
    ASSUME TInv
    PROVE  IsFiniteSet(redemption) /\ Priced(redemption)
BY DEF TInv, RedemptionTypes, RedemptionOk, Priced

(* What may be used is no more than what was granted and is not used yet.  *)
LEMMA AvailableBounds ==
    ASSUME TInv, NEW c \in Customers
    PROVE  Available(c) \in Nat /\ (Available(c) > 0 => used[c] + Available(c) <= Sum(CashbackOf(c)))
<1>1. PICK R, S : R = CashbackOf(c) /\ S = Unexpired(R)
  OBVIOUS
<1>2. S \subseteq R /\ R \subseteq redemption
  BY <1>1 DEF Unexpired, CashbackOf
<1>3. IsFiniteSet(R) /\ Priced(R)
  BY <1>2, RedemptionsPriced, FS_Subset DEF Priced
<1>4. Sum(S) \in Nat /\ Sum(R) \in Nat /\ Sum(S) <= Sum(R)
  BY <1>2, <1>3, SumGrows
<1>5. used[c] \in Nat
  BY DEF TInv, AccountTypes
<1>6. PICK n \in Int : n = Sum(S) - used[c]
  BY <1>4, <1>5
<1>7. 0 \in Int /\ n \in Int
  BY <1>6
<1>8. Max({0, n}) \in {0, n} /\ Max({0, n}) >= 0 /\ Max({0, n}) >= n
  BY <1>7, MaxOfTwo
<1>9. Available(c) = Max({0, n})
  BY <1>1, <1>6 DEF Available
<1> QED BY <1>1, <1>4, <1>5, <1>6, <1>8, <1>9

LEMMA ApplyBounds ==
    ASSUME TInv, NEW c \in Customers, NEW amount \in Nat, NEW requested,
           requested # None => requested \in Nat
    PROVE  /\ ApplyAmount(c, amount, requested) \in Nat
           /\ ApplyAmount(c, amount, requested) <= Available(c)
<1>1. PICK a \in Nat : a = Available(c)
  BY AvailableBounds
<1>2. a \in Int /\ amount \in Int /\ 0 \in Int
  BY <1>1
<1>3. PICK ceiling : ceiling = Min({a, amount})
  OBVIOUS
<1>4. Min({a, amount}) \in {a, amount} /\ Min({a, amount}) <= a /\ Min({a, amount}) <= amount
  BY <1>2, MinOfTwo
<1>5. ceiling \in Nat /\ ceiling <= a
  BY <1>1, <1>3, <1>4
<1>6. PICK x : x = IF requested = None THEN ceiling ELSE Min({requested, ceiling})
  OBVIOUS
<1>7. x \in Nat /\ x <= a
  <2>1. CASE requested = None
    BY <1>5, <1>6, <2>1
  <2>2. CASE requested # None
    <3>1. requested \in Int /\ ceiling \in Int
      BY <1>5, <2>2
    <3>2. /\ Min({requested, ceiling}) \in {requested, ceiling}
          /\ Min({requested, ceiling}) <= requested /\ Min({requested, ceiling}) <= ceiling
      BY <3>1, MinOfTwo
    <3> QED BY <1>1, <1>5, <1>6, <2>2, <3>2
  <2> QED BY <2>1, <2>2
<1>8. 0 \in Int /\ x \in Int
  BY <1>7
<1>9. Max({0, x}) \in {0, x} /\ Max({0, x}) >= 0 /\ Max({0, x}) >= x
  BY <1>8, MaxOfTwo
<1>10. ApplyAmount(c, amount, requested) = Max({0, x})
  BY <1>1, <1>3, <1>6 DEF ApplyAmount
<1> QED BY <1>1, <1>7, <1>9, <1>10

LEMMA BeginApplyTypes ==
    ASSUME TInv, NEW r \in Requests, NEW c \in Customers, NEW use \in Uses,
           BeginApply(r, c, use[1], use[2])
    PROVE  /\ TInv'
           /\ \E work : /\ Begin(r, work) /\ work.kind = "apply" /\ work.customer = c
                        /\ work.amount \in Nat \ {0} /\ used[c] + work.amount <= Sum(CashbackOf(c))
<1>1. PICK amount, requested : amount = use[1] /\ requested = use[2]
  OBVIOUS
<1>2. amount \in Nat /\ (requested # None => requested \in Nat)
  BY <1>1, RewardsAssumption
<1>3. PICK n : n = ApplyAmount(c, amount, requested)
  OBVIOUS
<1>4. n \in Nat /\ n <= Available(c)
  BY <1>2, <1>3, ApplyBounds
<1>5. n > 0 /\ Begin(r, [kind |-> "apply", customer |-> c, order |-> None, amount |-> n])
  BY <1>1, <1>3 DEF BeginApply
<1>6. used[c] \in Nat /\ Sum(CashbackOf(c)) \in Nat
  <2>1. CashbackOf(c) \subseteq redemption
    BY DEF CashbackOf
  <2>2. Sum(CashbackOf(c)) \in Nat
    BY <2>1, RedemptionsPriced, SumGrows
  <2> QED BY <2>2 DEF TInv, AccountTypes
<1>7. Available(c) \in Nat /\ (Available(c) > 0 => used[c] + Available(c) <= Sum(CashbackOf(c)))
  BY AvailableBounds
<1>8. used[c] + n <= Sum(CashbackOf(c))
  BY <1>4, <1>5, <1>6, <1>7
<1>9. PICK work : work = [kind |-> "apply", customer |-> c, order |-> None, amount |-> n]
  OBVIOUS
<1>10. work.kind = "apply" /\ work.customer = c /\ work.amount = n
  BY <1>9
<1>11. CallOk(work)
  BY <1>4, <1>5, <1>10 DEF CallOk
<1>12. TInv'
  BY <1>5, <1>9, <1>11, BeginTypes
<1> QED BY <1>4, <1>5, <1>8, <1>9, <1>10, <1>12

LEMMA ApplyTypes ==
    ASSUME TInv, NEW r \in Requests, Apply(r)
    PROVE  TInv'
<1>1. /\ UNCHANGED <<segmentVars, incentive, redemption, calls, edits>>
      /\ call[r].kind = "apply" /\ call' = [call EXCEPT ![r] = Idle]
      /\ used' = [used EXCEPT ![call[r].customer] = @ + call[r].amount]
      /\ applied' = [applied EXCEPT ![call[r].customer] = @ + call[r].amount]
  BY DEF Apply
<1>2. call[r].customer \in Customers /\ call[r].amount \in Nat
  BY <1>1 DEF TInv, CallTypes, CallOk
<1>3. AccountTypes'
  BY <1>1, <1>2 DEF TInv, AccountTypes
<1>4. ClubTypes'
  BY <1>1, ClubKept DEF TInv
<1>5. IncentiveTypes' /\ RedemptionTypes'
  BY <1>1, SameIncentives DEF TInv, RedemptionTypes
<1>6. CallTypes'
  BY <1>1, IdleIsOk, WorkWritten
<1> QED BY <1>3, <1>4, <1>5, <1>6 DEF TInv

LEMMA SpendTypes ==
    ASSUME TInv, NEW c \in Customers, NEW use \in Uses, SpendWallet(c, use[1])
    PROVE  TInv'
<1>1. use[1] \in Nat /\ MaxCalls \in Nat
  BY RewardsAssumption
<1>2. /\ UNCHANGED <<segmentVars, incentive, redemption, applied, call, edits>>
      /\ calls < MaxCalls /\ calls' = calls + 1 /\ used' = [used EXCEPT ![c] = @ + use[1]]
  BY DEF SpendWallet
<1>3. AccountTypes'
  BY <1>1, <1>2 DEF TInv, AccountTypes
<1>4. ClubTypes'
  BY <1>2, ClubKept DEF TInv
<1>5. IncentiveTypes' /\ RedemptionTypes' /\ CallTypes'
  BY <1>2, SameIncentives DEF TInv, RedemptionTypes, CallTypes
<1> QED BY <1>3, <1>4, <1>5 DEF TInv

--------------------------------------------------------------------------------
(* Types: administration.                                                  *)

LEMMA RowWritten ==
    ASSUME TInv, NEW i \in Incentives, NEW row, Shaped(row), Sound(row), Writes(i, row)
    PROVE  TInv'
<1>1. /\ UNCHANGED <<segmentVars, redemption, used, applied, call, calls>>
      /\ incentive' = [incentive EXCEPT ![i] = row] /\ edits < MaxEdits /\ edits' = edits + 1
  BY DEF Writes
<1>2. incentive' = [j \in Incentives |-> incentive'[j]]
  BY <1>1 DEF TInv, IncentiveTypes
<1>3. incentive'[i] = row /\ \A j \in Incentives \ {i} : incentive'[j] = incentive[j]
  BY <1>1 DEF TInv, IncentiveTypes
<1>4. row # NoRow
  BY DEF Shaped, NoRow
<1>5. Live' = Live \cup {i}
  BY <1>3, <1>4 DEF Live
<1>6. \A j \in Live' : Shaped(incentive'[j]) /\ Sound(incentive'[j])
  BY <1>3, <1>5 DEF TInv, IncentiveTypes, Live
<1>7. IncentiveTypes'
  BY <1>2, <1>6 DEF IncentiveTypes
<1>8. /\ \A r : RedemptionOk(r) => RedemptionOk(r)'
      /\ \A w : CallOk(w) => CallOk(w)'
  BY <1>5, LiveGrows
<1>9. RedemptionTypes' /\ CallTypes'
  BY <1>1, <1>8 DEF TInv, RedemptionTypes, CallTypes
<1>10. ClubTypes'
  BY <1>1, ClubKept DEF TInv
<1>11. AccountTypes'
  <2>1. MaxEdits \in Nat
    BY RewardsAssumption
  <2> QED BY <1>1, <2>1 DEF TInv, AccountTypes
<1> QED BY <1>7, <1>9, <1>10, <1>11 DEF TInv

LEMMA CreateTypes ==
    ASSUME TInv, NEW i \in Incentives, NEW row \in Forms, CreateCashback(i, row) \/ CreateCoupon(i, row)
    PROVE  TInv'
<1>1. Shaped(row)
  BY FormsAssumption
<1>2. row.value \in Int /\ row.type \in ValueTypes
  BY <1>1 DEF Shaped
<1>3. CASE CreateCashback(i, row)
  <2>1. Writes(i, row) /\ row.from < row.to /\ ValueFits(row) /\ row.trigger = "PAID"
    BY <1>1, <1>3 DEF CreateCashback, Creates, DatesFit, Shaped
  <2>2. row.value \in IF row.type = "PERCENTAGE" THEN 1..100 ELSE Nat \ {0}
    BY <1>2, <2>1 DEF ValueFits
  <2>3. Sound(row)
    BY <2>1, <2>2 DEF Sound
  <2> QED BY <1>1, <2>1, <2>3, RowWritten
<1>4. CASE CreateCoupon(i, row)
  <2>1. Writes(i, row) /\ row.from < row.to /\ RewardValueFits(row) /\ TriggerFits(row)
    BY <1>4 DEF CreateCoupon, Creates, DatesFit
  <2>2. row.value \in IF row.type = "PERCENTAGE" THEN 1..100 ELSE Nat \ {0}
    BY <1>2, <2>1 DEF RewardValueFits
  <2>3. Sound(row)
    BY <2>1, <2>2 DEF Sound, TriggerFits
  <2> QED BY <1>1, <2>1, <2>3, RowWritten
<1> QED BY <1>3, <1>4

(* What an update leaves of a row, and what it may put into it.            *)
LEMMA ChangedFields ==
    ASSUME NEW row, Shaped(row), NEW change \in Changes,
           row.kind = "CASHBACK" => "trigger" \notin DOMAIN change
    PROVE  /\ Shaped(Changed(row, change)) /\ Changed(row, change).kind = row.kind
           /\ \A f \in DOMAIN row \ DOMAIN change : Changed(row, change)[f] = row[f]
<1>1. PICK new : new = Changed(row, change)
  OBVIOUS
<1>2. DOMAIN new = DOMAIN row
  BY <1>1 DEF Changed
<1>3. \A f \in DOMAIN row : new[f] = IF f \in DOMAIN change THEN change[f] ELSE row[f]
  BY <1>1 DEF Changed
<1>4. /\ {"kind", "trigger", "active", "from", "to", "target", "type", "value"} \subseteq DOMAIN row
      /\ row.from \in Int /\ row.to \in Int /\ row.value \in Int /\ row.type \in ValueTypes
      /\ row.kind \in {"CASHBACK", "COUPON"}
      /\ IF row.kind = "CASHBACK" THEN row.trigger = "PAID" ELSE "config" \in DOMAIN row
  BY DEF Shaped
<1>5. /\ "kind" \notin DOMAIN change
      /\ "type" \in DOMAIN change => change.type \in ValueTypes
      /\ \A f \in {"from", "to", "value"} \cap DOMAIN change : change[f] \in Int
  BY FormsAssumption
<1>6. new.kind = row.kind
  BY <1>3, <1>4, <1>5
<1>7. new.type \in ValueTypes
  BY <1>3, <1>4, <1>5
<1>8. new.from \in Int /\ new.to \in Int /\ new.value \in Int
  BY <1>3, <1>4, <1>5
<1>9. row.kind = "CASHBACK" => new.trigger = "PAID"
  BY <1>3, <1>4
<1>10. Shaped(new)
  BY <1>2, <1>4, <1>6, <1>7, <1>8, <1>9 DEF Shaped
<1> QED BY <1>1, <1>3, <1>6, <1>10

Worth(row) == row.value \in IF row.type = "PERCENTAGE" THEN 1..100 ELSE Nat \ {0}

LEMMA UpdateTypes ==
    ASSUME TInv, NEW i \in Incentives, NEW change \in Changes,
           UpdateCashback(i, change) \/ UpdateCoupon(i, change)
    PROVE  TInv'
<1>1. PICK row, new : row = incentive[i] /\ new = Changed(row, change)
  OBVIOUS
<1>2. /\ row.kind \in {"CASHBACK", "COUPON"} /\ (row.kind = "CASHBACK" => "trigger" \notin DOMAIN change)
      /\ Writes(i, new) /\ (DOMAIN change \cap {"from", "to"} # {} => new.from < new.to)
  BY <1>1 DEF UpdateCashback, UpdateCoupon, Updates, Touches, DatesFit
<1>3. i \in Live
  BY <1>1, <1>2 DEF Live, NoRow
<1>4. Shaped(row) /\ Sound(row)
  BY <1>1, <1>3 DEF TInv, IncentiveTypes
<1>5. Shaped(new) /\ new.kind = row.kind /\ \A f \in DOMAIN row \ DOMAIN change : new[f] = row[f]
  BY <1>1, <1>2, <1>4, ChangedFields
<1>6. /\ {"trigger", "from", "to", "type", "value"} \subseteq DOMAIN row
      /\ row.kind = "COUPON" => "config" \in DOMAIN row
  BY <1>4 DEF Shaped
<1>7. new.from < new.to
  <2>1. CASE DOMAIN change \cap {"from", "to"} = {}
    <3>1. new.from = row.from /\ new.to = row.to
      BY <1>5, <1>6, <2>1
    <3> QED BY <1>4, <3>1 DEF Sound
  <2> QED BY <1>2, <2>1
<1>8. new.value \in Int /\ new.type \in ValueTypes
  BY <1>5 DEF Shaped
<1>9. CASE UpdateCashback(i, change)
  <2>1. row.kind = "CASHBACK" /\ (DOMAIN change \cap {"type", "value"} # {} => ValueFits(new))
    BY <1>1, <1>9 DEF UpdateCashback, Touches
  <2>2. Worth(new)
    <3>1. CASE DOMAIN change \cap {"type", "value"} = {}
      <4>1. new.type = row.type /\ new.value = row.value
        BY <1>5, <1>6, <3>1
      <4> QED BY <1>4, <4>1 DEF Sound, Worth
    <3>2. CASE DOMAIN change \cap {"type", "value"} # {}
      BY <1>8, <2>1, <3>2 DEF ValueFits, Worth
    <3> QED BY <3>1, <3>2
  <2>3. new.trigger = "PAID"
    BY <1>5, <2>1 DEF Shaped
  <2>4. Sound(new)
    BY <1>7, <2>2, <2>3 DEF Sound, Worth
  <2> QED BY <1>2, <1>5, <2>4, RowWritten
<1>10. CASE UpdateCoupon(i, change)
  <2>1. /\ row.kind = "COUPON"
        /\ DOMAIN change \cap {"type", "value", "trigger", "config"} # {}
               => RewardValueFits(new) /\ TriggerFits(new)
    BY <1>1, <1>10 DEF UpdateCoupon, Touches
  <2>2. Sound(new)
    <3>1. CASE DOMAIN change \cap {"type", "value", "trigger", "config"} = {}
      <4>1. /\ new.type = row.type /\ new.value = row.value
            /\ new.trigger = row.trigger /\ new.config = row.config
        BY <1>5, <1>6, <2>1, <3>1
      <4> QED BY <1>4, <1>7, <4>1 DEF Sound
    <3>2. CASE DOMAIN change \cap {"type", "value", "trigger", "config"} # {}
      <4>1. Worth(new)
        BY <1>8, <2>1, <3>2 DEF RewardValueFits, Worth
      <4> QED BY <1>7, <2>1, <3>2, <4>1 DEF TriggerFits, Sound, Worth
    <3> QED BY <3>1, <3>2
  <2> QED BY <1>2, <1>5, <2>2, RowWritten
<1> QED BY <1>9, <1>10

LEMMA DeactivateTypes ==
    ASSUME TInv, NEW i \in Incentives, DeactivateCashback(i) \/ DeactivateCoupon(i)
    PROVE  TInv'
<1>1. PICK row, new : row = incentive[i] /\ new = [row EXCEPT !.active = FALSE]
  OBVIOUS
<1>2. row.kind \in {"CASHBACK", "COUPON"} /\ Writes(i, new)
  BY <1>1 DEF DeactivateCashback, DeactivateCoupon, Deactivate
<1>3. i \in Live
  BY <1>1, <1>2 DEF Live, NoRow
<1>4. Shaped(row) /\ Sound(row)
  BY <1>1, <1>3 DEF TInv, IncentiveTypes
<1>5. DOMAIN new = DOMAIN row /\ \A f \in DOMAIN row \ {"active"} : new[f] = row[f]
  BY <1>1
<1>6. /\ {"kind", "trigger", "active", "from", "to", "target", "type", "value"} \subseteq DOMAIN row
      /\ row.kind = "COUPON" => "config" \in DOMAIN row
  BY <1>4 DEF Shaped
<1>7. /\ new.kind = row.kind /\ new.trigger = row.trigger /\ new.from = row.from /\ new.to = row.to
      /\ new.type = row.type /\ new.value = row.value
      /\ row.kind = "COUPON" => new.config = row.config
  BY <1>5, <1>6
<1>8. Shaped(new)
  BY <1>4, <1>5, <1>7 DEF Shaped
<1>9. row.kind = "CASHBACK" => row.trigger = "PAID"
  BY <1>4 DEF Shaped
<1>10. Sound(new)
  BY <1>2, <1>4, <1>7, <1>9 DEF Sound
<1> QED BY <1>2, <1>8, <1>10, RowWritten

--------------------------------------------------------------------------------
(* Types: the invariant.                                                   *)

LEMMA ClubStepTypes ==
    ASSUME TInv, UNCHANGED <<incentive, redemption, used, applied, call, calls>>,
           (ClubSteps /\ edits' = edits) \/ Removes \/ UNCHANGED <<segmentVars, edits>>
    PROVE  TInv'
<1>1. ClubTypes'
  BY ClubKept DEF TInv, Removes
<1>2. IncentiveTypes' /\ RedemptionTypes' /\ CallTypes'
  BY SameIncentives DEF TInv, RedemptionTypes, CallTypes
<1>3. MaxEdits \in Nat
  BY RewardsAssumption
<1>4. AccountTypes'
  BY <1>3 DEF TInv, AccountTypes, Removes
<1> QED BY <1>1, <1>2, <1>4 DEF TInv

LEMMA TypesInductive ==
    ASSUME TInv, [Next]_vars
    PROVE  TInv'
<1>1. CASE UNCHANGED vars
  BY <1>1, ClubStepTypes DEF vars, rewardVars
<1>2. CASE ClubSteps /\ UNCHANGED rewardVars
  BY <1>2, ClubStepTypes DEF rewardVars
<1>3. CASE Removes /\ UNCHANGED <<incentive, redemption, used, applied, call, calls>>
  BY <1>3, ClubStepTypes
<1>4. CASE \E r \in Requests :
              \/ \E o \in Orders : GrantForOrder(r, o) \/ OnOrderCompleted(r, o)
              \/ \E ref \in Confirmed : OnReferralConfirmed(r, ref[1], ref[2])
  BY <1>4, GrantStepTypes
<1>5. CASE \E r \in Requests : \/ \E i \in Incentives : Consider(r, i)
                               \/ GrantCashback(r) \/ IssueCoupon(r)
  BY <1>5, ConsiderTypes, RedemptionStepTypes
<1>6. CASE \E r \in Requests :
              \/ End(r) \/ Apply(r)
              \/ \E c \in Customers, use \in Uses : BeginApply(r, c, use[1], use[2])
  BY <1>6, EndTypes, ApplyTypes, BeginApplyTypes
<1>7. CASE \E c \in Customers, use \in Uses : SpendWallet(c, use[1])
  BY <1>7, SpendTypes
<1>8. CASE \E i \in Incentives :
              \/ \E row \in Forms : CreateCashback(i, row) \/ CreateCoupon(i, row)
              \/ \E change \in Changes : UpdateCashback(i, change) \/ UpdateCoupon(i, change)
              \/ DeactivateCashback(i) \/ DeactivateCoupon(i)
  BY <1>8, CreateTypes, UpdateTypes, DeactivateTypes
<1> QED BY <1>1, <1>2, <1>3, <1>4, <1>5, <1>6, <1>7, <1>8 DEF Next

LEMMA TypesInitially ==
    ASSUME Init
    PROVE  TInv
<1>1. ClubTypes
  BY ClubInitially DEF Init
<1>2. incentive \in Existing /\ redemption = GivenBefore
  BY DEF Init, RewardsInit
<1>3. IncentiveTypes
  <2>2. \A i \in Live : Shaped(incentive[i]) /\ Sound(incentive[i])
    BY <1>2, HistoryAssumption DEF Live
  <2>3. incentive = [i \in Incentives |-> incentive[i]]
    BY <1>2, HistoryAssumption
  <2> QED BY <2>2, <2>3 DEF IncentiveTypes
<1>4. RedemptionTypes
  BY <1>2, HistoryAssumption DEF RedemptionTypes, RedemptionOk, Live
<1>5. CallTypes
  <2>1. call = [r \in Requests |-> Idle]
    BY DEF Init, RewardsInit
  <2> QED BY <2>1, IdleIsOk DEF CallTypes
<1>6. AccountTypes
  BY RewardsAssumption DEF Init, RewardsInit, AccountTypes
<1> QED BY <1>1, <1>3, <1>4, <1>5, <1>6 DEF TInv

LEMMA TypesInvariant == Spec => []TInv
<1>1. Init => TInv
  BY TypesInitially
<1>2. TInv /\ [Next]_vars => TInv'
  BY TypesInductive
<1> QED BY <1>1, <1>2, PTL DEF Spec

(* The values have their types and every incentive is one its service      *)
(* would create, whatever updates each checked only the fields they        *)
(* touched (updateCashback, updateCoupon), even where calls overlap.       *)
THEOREM TypeCorrect == Spec => []TypeOK
<1>1. TInv => TypeOK
  <2> SUFFICES ASSUME TInv PROVE TypeOK
    OBVIOUS
  <2>1. SegmentsTypeOK
    <3>1. \A c \in Customers : \A i \in DOMAIN membership[c] : membership[c][i] \in MemberRow
      BY DEF TInv, ClubTypes
    <3> QED BY <3>1 DEF TInv, ClubTypes, SegmentsTypeOK, MemberRow, OrderRow
  <2>2. \A i \in Live : Sound(incentive[i])
    BY DEF TInv, IncentiveTypes
  <2>3. \A r \in redemption : r.amount > 0 /\ r.incentive \in Incentives /\ r.customer \in Customers
    BY DEF TInv, RedemptionTypes, RedemptionOk, Live
  <2> QED BY <2>1, <2>2, <2>3 DEF TInv, AccountTypes, TypeOK
<1> QED BY <1>1, TypesInvariant, PTL

--------------------------------------------------------------------------------
(* Cashback.                                                               *)

(* What apply has written is part of what was used; and one apply of a     *)
(* customer at a time leaves room for what it read.                        *)
Applying(q, c) == call[q].kind = "apply" /\ call[q].customer = c
RoomFor(c) ==
    /\ applied[c] <= used[c] /\ applied[c] <= Sum(CashbackOf(c))
    /\ \A p, q \in Requests : Applying(p, c) /\ Applying(q, c) => p = q
    /\ \A q \in Requests : Applying(q, c) => applied[c] + call[q].amount <= Sum(CashbackOf(c))
CashInv == \A c \in Customers : RoomFor(c)

LEMMA CashbackGrows ==
    ASSUME TInv, TInv', redemption \subseteq redemption', NEW c
    PROVE  /\ Sum(CashbackOf(c)) \in Nat /\ Sum(CashbackOf(c))' \in Nat
           /\ Sum(CashbackOf(c)) <= Sum(CashbackOf(c))'
<1>1. PICK R, S : R = CashbackOf(c)' /\ S = CashbackOf(c)
  OBVIOUS
<1>2. S \subseteq R /\ R \subseteq redemption'
  BY <1>1 DEF CashbackOf
<1>3. IsFiniteSet(redemption') /\ Priced(redemption')
  BY DEF TInv, RedemptionTypes, RedemptionOk, Priced
<1>4. IsFiniteSet(R) /\ Priced(R)
  BY <1>2, <1>3, FS_Subset DEF Priced
<1>5. Sum(S) \in Nat /\ Sum(R) \in Nat /\ Sum(S) <= Sum(R)
  BY <1>2, <1>4, SumGrows
<1>6. Sum(CashbackOf(c))' = Sum(R)
  BY <1>1 DEF Sum, SumOf, UnitsIn
<1> QED BY <1>1, <1>5, <1>6

(* Calls that apply nothing new leave the room there was.                  *)
LEMMA RoomStays ==
    ASSUME TInv, TInv', CashInv, redemption \subseteq redemption', UNCHANGED applied,
           \A c \in Customers : used[c] <= used'[c],
           \A q \in Requests : \/ call'[q].kind # "apply"
                               \/ /\ call'[q].kind = call[q].kind /\ call'[q].customer = call[q].customer
                                  /\ call'[q].amount = call[q].amount
    PROVE  CashInv'
<1> SUFFICES ASSUME NEW c \in Customers PROVE RoomFor(c)'
  BY DEF CashInv
<1>1. /\ Sum(CashbackOf(c)) \in Nat /\ Sum(CashbackOf(c))' \in Nat
      /\ Sum(CashbackOf(c)) <= Sum(CashbackOf(c))'
  BY CashbackGrows
<1>2. RoomFor(c)
  BY DEF CashInv
<1>3. applied[c] \in Nat /\ used[c] \in Nat /\ used'[c] \in Nat
  BY DEF TInv, AccountTypes
<1>4. \A q \in Requests : Applying(q, c)' =>
          Applying(q, c) /\ call'[q].amount = call[q].amount /\ call[q].amount \in Nat
  BY DEF Applying, TInv, CallTypes, CallOk
<1>5. applied'[c] <= used'[c] /\ applied'[c] <= Sum(CashbackOf(c))'
  BY <1>1, <1>2, <1>3 DEF RoomFor
<1>6. \A p, q \in Requests : Applying(p, c)' /\ Applying(q, c)' => p = q
  BY <1>2, <1>4 DEF RoomFor
<1>7. ASSUME NEW q \in Requests, Applying(q, c)'
      PROVE  applied'[c] + call'[q].amount <= Sum(CashbackOf(c))'
  <2>1. applied[c] + call[q].amount <= Sum(CashbackOf(c)) /\ call[q].amount \in Nat
    BY <1>2, <1>4, <1>7 DEF RoomFor
  <2> QED BY <1>1, <1>3, <1>4, <1>7, <2>1
<1> QED BY <1>5, <1>6, <1>7 DEF RoomFor

LEMMA SameCash ==
    ASSUME TInv, TInv', CashInv, redemption \subseteq redemption', UNCHANGED <<used, applied>>,
           NEW r \in Requests, call' = [call EXCEPT ![r] = call'[r]],
           call'[r].kind # "apply"
    PROVE  CashInv'
<1>1. \A q \in Requests \ {r} : call'[q] = call[q]
  BY DEF TInv, CallTypes
<1>2. \A c \in Customers : used[c] <= used'[c]
  BY DEF TInv, AccountTypes
<1> QED BY <1>1, <1>2, RoomStays

LEMMA BeginApplyRoom ==
    ASSUME ~Overlap, TInv, CashInv, NEW r \in Requests, NEW c \in Customers, NEW use \in Uses,
           BeginApply(r, c, use[1], use[2])
    PROVE  CashInv'
<1>1. PICK work : /\ Begin(r, work) /\ work.kind = "apply" /\ work.customer = c
                  /\ work.amount \in Nat \ {0} /\ used[c] + work.amount <= Sum(CashbackOf(c))
  BY BeginApplyTypes
<1>2. /\ UNCHANGED <<redemption, used, applied>> /\ call' = [call EXCEPT ![r] = work]
      /\ \A q \in Requests : call[q] # Idle => ~Clash(call[q], work)
  BY <1>1 DEF Begin
<1>3. call'[r] = work /\ \A q \in Requests \ {r} : call'[q] = call[q]
  BY <1>2 DEF TInv, CallTypes
<1>4. \A q \in Requests : ~Applying(q, c)
  BY <1>1, <1>2 DEF Applying, Clash, Idle
<1>5. \A d : Sum(CashbackOf(d))' = Sum(CashbackOf(d))
  BY <1>2 DEF CashbackOf
<1>6. ASSUME NEW d \in Customers, d # c PROVE RoomFor(d)'
  <2>1. \A q \in Requests : Applying(q, d)' => Applying(q, d) /\ call'[q] = call[q]
    BY <1>1, <1>3, <1>6 DEF Applying
  <2>2. RoomFor(d)
    BY <1>6 DEF CashInv
  <2> QED BY <1>2, <1>5, <2>1, <2>2 DEF RoomFor
<1>7. RoomFor(c)'
  <2>1. \A q \in Requests : Applying(q, c)' => q = r
    BY <1>3, <1>4 DEF Applying
  <2>2. RoomFor(c)
    BY DEF CashInv
  <2>3. applied[c] \in Nat /\ used[c] \in Nat /\ Sum(CashbackOf(c)) \in Nat
    <3>1. CashbackOf(c) \subseteq redemption
      BY DEF CashbackOf
    <3>2. Sum(CashbackOf(c)) \in Nat
      BY <3>1, RedemptionsPriced, SumGrows
    <3> QED BY <3>2 DEF TInv, AccountTypes
  <2>4. applied[c] + work.amount <= Sum(CashbackOf(c))
    BY <1>1, <2>2, <2>3 DEF RoomFor
  <2>5. \A q \in Requests : Applying(q, c)' => applied'[c] + call'[q].amount <= Sum(CashbackOf(c))'
    BY <1>2, <1>3, <1>5, <2>1, <2>4
  <2> QED BY <1>2, <1>5, <2>1, <2>2, <2>5 DEF RoomFor
<1> QED BY <1>6, <1>7 DEF CashInv

LEMMA ApplyRoom ==
    ASSUME TInv, CashInv, NEW r \in Requests, Apply(r)
    PROVE  CashInv'
<1>1. PICK c, n : c = call[r].customer /\ n = call[r].amount
  OBVIOUS
<1>2. /\ UNCHANGED redemption /\ call[r].kind = "apply" /\ call' = [call EXCEPT ![r] = Idle]
      /\ used' = [used EXCEPT ![c] = @ + n] /\ applied' = [applied EXCEPT ![c] = @ + n]
  BY <1>1 DEF Apply
<1>3. c \in Customers /\ n \in Nat
  BY <1>1, <1>2 DEF TInv, CallTypes, CallOk
<1>4. used \in [Customers -> Nat] /\ applied \in [Customers -> Nat]
  BY DEF TInv, AccountTypes
<1>5. call'[r] = Idle /\ \A q \in Requests \ {r} : call'[q] = call[q]
  BY <1>2 DEF TInv, CallTypes
<1>6. \A d : Sum(CashbackOf(d))' = Sum(CashbackOf(d))
  BY <1>2 DEF CashbackOf
<1>7. \A q \in Requests : \A d : Applying(q, d)' => q # r /\ Applying(q, d) /\ call'[q] = call[q]
  BY <1>5 DEF Applying, Idle
<1>8. ASSUME NEW d \in Customers, d # c PROVE RoomFor(d)'
  <2>1. used'[d] = used[d] /\ applied'[d] = applied[d]
    BY <1>2, <1>4, <1>8
  <2>2. RoomFor(d)
    BY <1>8 DEF CashInv
  <2> QED BY <1>6, <1>7, <2>1, <2>2 DEF RoomFor
<1>9. RoomFor(c)'
  <2>1. RoomFor(c) /\ Applying(r, c)
    BY <1>1, <1>2, <1>3 DEF CashInv, Applying
  <2>2. \A q \in Requests : ~Applying(q, c)'
    BY <1>7, <2>1 DEF RoomFor
  <2>3. applied'[c] = applied[c] + n /\ used'[c] = used[c] + n
    BY <1>2, <1>3, <1>4
  <2>4. applied[c] <= used[c] /\ applied[c] + n <= Sum(CashbackOf(c))
    BY <1>1, <2>1 DEF RoomFor
  <2>5. applied'[c] <= used'[c]
    BY <1>3, <1>4, <2>3, <2>4
  <2> QED BY <1>6, <2>2, <2>3, <2>4, <2>5 DEF RoomFor
<1> QED BY <1>8, <1>9 DEF CashInv

LEMMA CashInductive ==
    ASSUME ~Overlap, TInv, CashInv, [Next]_vars
    PROVE  CashInv'
<1>0. TInv'
  BY TypesInductive
<1>1. ASSUME UNCHANGED <<used, applied, call, redemption>> PROVE CashInv'
  <2>1. \A c \in Customers : used[c] <= used'[c]
    BY <1>1 DEF TInv, AccountTypes
  <2> QED BY <1>0, <1>1, <2>1, RoomStays
<1>2. CASE UNCHANGED vars \/ (ClubSteps /\ UNCHANGED rewardVars)
           \/ (Removes /\ UNCHANGED <<incentive, redemption, used, applied, call, calls>>)
  BY <1>1, <1>2 DEF vars, rewardVars
<1>3. CASE \E r \in Requests :
              \/ \E o \in Orders : GrantForOrder(r, o) \/ OnOrderCompleted(r, o)
              \/ \E ref \in Confirmed : OnReferralConfirmed(r, ref[1], ref[2])
  <2>1. PICK r \in Requests : \E c, o, gifts : BeginGrant(r, c, o, gifts)
    BY <1>3 DEF GrantForOrder, OnOrderCompleted, OnReferralConfirmed
  <2>2. PICK work : Begin(r, work) /\ work.kind = "grant"
    BY <2>1 DEF BeginGrant
  <2>3. /\ UNCHANGED <<redemption, used, applied>> /\ call' = [call EXCEPT ![r] = work]
    BY <2>2 DEF Begin
  <2>4. call'[r] = work
    BY <2>3 DEF TInv, CallTypes
  <2> QED BY <1>0, <2>2, <2>3, <2>4, SameCash
<1>4. CASE \E r \in Requests : \/ \E i \in Incentives : Consider(r, i)
                               \/ GrantCashback(r) \/ IssueCoupon(r) \/ End(r)
  <2>1. PICK r \in Requests : \/ \E i \in Incentives : Consider(r, i)
                              \/ GrantCashback(r) \/ IssueCoupon(r) \/ End(r)
    BY <1>4
  <2>2. CASE \E i \in Incentives : Consider(r, i)
    <3>1. PICK i : Consider(r, i)
      BY <2>2
    <3>2. PICK work : work = [call[r] EXCEPT !.chosen = i]
      OBVIOUS
    <3>3. /\ UNCHANGED <<redemption, used, applied>> /\ call' = [call EXCEPT ![r] = work]
          /\ call[r].kind = "grant"
      BY <3>1, <3>2 DEF Consider
    <3>4. call'[r] = work /\ work.kind = "grant"
      BY <3>2, <3>3 DEF TInv, CallTypes, CallOk, GrantOk
    <3> QED BY <1>0, <3>3, <3>4, SameCash
  <2>3. CASE GrantCashback(r) \/ IssueCoupon(r)
    <3>1. PICK gift : Redeem(r, gift) /\ call[r].kind = "grant"
      BY <2>3 DEF GrantCashback, IssueCoupon
    <3>2. PICK work : work = [call[r] EXCEPT !.chosen = None,
                                !.gifts = Restrict(@, DOMAIN @ \ {call[r].chosen})]
      OBVIOUS
    <3>3. /\ UNCHANGED <<used, applied>> /\ call' = [call EXCEPT ![r] = work]
          /\ redemption \subseteq redemption'
      BY <3>1, <3>2 DEF Redeem
    <3>4. call'[r] = work /\ work.kind = "grant"
      BY <3>1, <3>2, <3>3 DEF TInv, CallTypes, CallOk, GrantOk
    <3> QED BY <1>0, <3>3, <3>4, SameCash
  <2>4. CASE End(r)
    <3>1. /\ UNCHANGED <<redemption, used, applied>> /\ call' = [call EXCEPT ![r] = Idle]
      BY <2>4 DEF End
    <3>2. call'[r] = Idle /\ Idle.kind # "apply"
      BY <3>1 DEF TInv, CallTypes, Idle
    <3> QED BY <1>0, <3>1, <3>2, SameCash
  <2> QED BY <2>1, <2>2, <2>3, <2>4
<1>5. CASE \E r \in Requests : Apply(r)
  BY <1>5, ApplyRoom
<1>6. CASE \E r \in Requests, c \in Customers, use \in Uses : BeginApply(r, c, use[1], use[2])
  BY <1>6, BeginApplyRoom
<1>7. CASE \E c \in Customers, use \in Uses : SpendWallet(c, use[1])
  <2>1. PICK c \in Customers, use \in Uses : SpendWallet(c, use[1])
    BY <1>7
  <2>2. /\ UNCHANGED <<redemption, applied, call>> /\ used' = [used EXCEPT ![c] = @ + use[1]]
    BY <2>1 DEF SpendWallet
  <2>3. use[1] \in Nat
    BY RewardsAssumption
  <2>4. \A d \in Customers : used[d] <= used'[d]
    BY <2>2, <2>3 DEF TInv, AccountTypes
  <2> QED BY <1>0, <2>2, <2>4, RoomStays
<1>8. CASE \E i \in Incentives :
              \/ \E row \in Forms : CreateCashback(i, row) \/ CreateCoupon(i, row)
              \/ \E change \in Changes : UpdateCashback(i, change) \/ UpdateCoupon(i, change)
              \/ DeactivateCashback(i) \/ DeactivateCoupon(i)
  <2>1. PICK i, row : Writes(i, row)
    BY <1>8 DEF CreateCashback, CreateCoupon, Creates, UpdateCashback, UpdateCoupon, Updates,
                DeactivateCashback, DeactivateCoupon, Deactivate
  <2> QED BY <1>1, <2>1 DEF Writes
<1> QED BY <1>2, <1>3, <1>4, <1>5, <1>6, <1>7, <1>8 DEF Next

(* The cashback that is used on orders is never more than was granted,     *)
(* though some of it expires and the wallet is spent from meanwhile, if a  *)
(* customer's uses of it do not overlap (computeAvailableCashback sums the *)
(* ledger before the transaction that writes).                             *)
THEOREM CashbackNeverOverspent ==
    ASSUME ~Overlap
    PROVE  Spec => []CashbackNotOverspent
<1>1. Init => CashInv
  <2> SUFFICES ASSUME Init PROVE CashInv
    OBVIOUS
  <2>1. TInv
    BY TypesInitially
  <2>2. call = [r \in Requests |-> Idle] /\ used = [c \in Customers |-> 0] /\ applied = used
    BY DEF Init, RewardsInit
  <2>3. ASSUME NEW c \in Customers PROVE RoomFor(c)
    <3>1. \A q \in Requests : ~Applying(q, c)
      BY <2>2 DEF Applying, Idle
    <3>2. CashbackOf(c) \subseteq redemption
      BY DEF CashbackOf
    <3>3. Sum(CashbackOf(c)) \in Nat
      BY <2>1, <3>2, RedemptionsPriced, SumGrows
    <3> QED BY <2>2, <3>1, <3>3 DEF RoomFor
  <2> QED BY <2>3 DEF CashInv
<1>2. TInv /\ CashInv /\ [Next]_vars => CashInv'
  BY CashInductive
<1>3. CashInv => CashbackNotOverspent
  BY DEF CashInv, RoomFor, CashbackNotOverspent
<1> QED BY <1>1, <1>2, <1>3, TypesInvariant, PTL DEF Spec

--------------------------------------------------------------------------------
(* The report: a sum over the parts of a set.                              *)

Parts(V, S, U) ==
    /\ \A i \in S : V[i] \subseteq U
    /\ \A i, j \in S : \A u : u \in V[i] /\ u \in V[j] => i = j
    /\ \A u \in U : \E i \in S : u \in V[i]
Sizes(g, V, S) == DOMAIN g = S /\ \A i \in S : g[i] = Cardinality(V[i])

LEMMA CountOfParts ==
    ASSUME NEW U, IsFiniteSet(U), NEW S, NEW V, Parts(V, S, U), NEW g, Sizes(g, V, S)
    PROVE  SumOf(g) = Cardinality(U)
<1>1. PICK b : b = [i \in S |-> CHOOSE h : h \in Bijection(1..g[i], V[i])]
  OBVIOUS
<1>2. ASSUME NEW i \in S
      PROVE  g[i] \in Nat /\ b[i] \in Bijection(1..g[i], V[i])
  <2>1. IsFiniteSet(V[i])
    BY FS_Subset DEF Parts
  <2>2. Cardinality(V[i]) \in Nat /\ ExistsBijection(1..Cardinality(V[i]), V[i])
    BY <2>1, FS_CardinalityType
  <2>3. g[i] \in Nat /\ \E h : h \in Bijection(1..g[i], V[i])
    BY <2>2 DEF Sizes, ExistsBijection
  <2> QED BY <1>1, <2>3
<1>3. ASSUME NEW i \in S
      PROVE  /\ b[i] \in [1..g[i] -> V[i]]
             /\ \A m, n \in 1..g[i] : b[i][m] = b[i][n] => m = n
             /\ \A v \in V[i] : \E n \in 1..g[i] : b[i][n] = v
  BY <1>2, Fun_BijectionProperties
<1>4. PICK W : W = UnitsIn(g)
  OBVIOUS
<1>5. \A x : x \in W <=> \E i \in S : \E n \in 1..g[i] : x = <<i, n>>
  BY <1>4 DEF UnitsIn, Sizes
<1>6. PICK F : F = [x \in W |-> b[x[1]][x[2]]]
  OBVIOUS
<1>7. \A i \in S : \A n \in 1..g[i] : <<i, n>> \in W /\ F[<<i, n>>] = b[i][n]
  BY <1>5, <1>6
<1>8. F \in [W -> U]
  <2>1. ASSUME NEW x \in W PROVE F[x] \in U
    <3>1. PICK i, n : i \in S /\ n \in 1..g[i] /\ x = <<i, n>>
      BY <1>5
    <3>2. F[x] = b[i][n] /\ b[i][n] \in V[i]
      BY <1>3, <1>7, <3>1
    <3> QED BY <3>1, <3>2 DEF Parts
  <2> QED BY <1>6, <2>1
<1>9. ASSUME NEW x \in W, NEW y \in W, F[x] = F[y]
      PROVE  x = y
  <2>1. PICK i, n : i \in S /\ n \in 1..g[i] /\ x = <<i, n>>
    BY <1>5
  <2>2. PICK j, m : j \in S /\ m \in 1..g[j] /\ y = <<j, m>>
    BY <1>5
  <2>3. b[i][n] = b[j][m] /\ b[i][n] \in V[i] /\ b[j][m] \in V[j]
    BY <1>3, <1>7, <1>9, <2>1, <2>2, ZenonT(60)
  <2>4. i = j
    BY <2>1, <2>2, <2>3 DEF Parts
  <2> QED BY <1>3, <2>1, <2>2, <2>3, <2>4
<1>10. ASSUME NEW u \in U PROVE \E x \in W : F[x] = u
  <2>1. PICK i \in S : u \in V[i]
    BY DEF Parts
  <2>2. PICK n \in 1..g[i] : b[i][n] = u
    BY <1>3, <2>1
  <2> QED BY <1>7, <2>1, <2>2
<1>11. F \in Bijection(W, U)
  BY <1>8, <1>9, <1>10, Fun_IsBij
<1>12. PICK G : G \in Bijection(U, W)
  BY <1>11, Fun_BijInverse
<1>13. Cardinality(W) = Cardinality(U)
  BY <1>12, FS_Bijection DEF ExistsBijection
<1> QED BY <1>4, <1>13 DEF SumOf

LEMMA UnitsOf ==
    ASSUME NEW R, NEW f, f = [r \in R |-> r.amount]
    PROVE  \A u : u \in UnitsIn(f) <=> \E r \in R : \E n \in 1..r.amount : u = <<r, n>>
BY DEF UnitsIn

(* The sums of the parts of a set of redemptions.                          *)
LEMMA SumOfParts ==
    ASSUME NEW R, IsFiniteSet(R), Priced(R), NEW S, NEW part, Parts(part, S, R),
           NEW g, g = [i \in S |-> Sum(part[i])]
    PROVE  SumOf(g) = Sum(R)
<1>1. PICK f : f = [r \in R |-> r.amount]
  OBVIOUS
<1>2. f \in [R -> Nat]
  BY <1>1 DEF Priced
<1>3. IsFiniteSet(UnitsIn(f)) /\ Sum(R) = Cardinality(UnitsIn(f))
  BY <1>1, <1>2, UnitsFinite, SumIsNat
<1>4. PICK V : V = [i \in S |-> UnitsIn([r \in part[i] |-> r.amount])]
  OBVIOUS
<1>5. ASSUME NEW i \in S
      PROVE  /\ \A u : u \in V[i] <=> \E r \in part[i] : \E n \in 1..r.amount : u = <<r, n>>
             /\ g[i] = Cardinality(V[i])
  <2>1. PICK h : h = [r \in part[i] |-> r.amount]
    OBVIOUS
  <2>2. \A u : u \in UnitsIn(h) <=> \E r \in part[i] : \E n \in 1..r.amount : u = <<r, n>>
    BY <2>1, UnitsOf
  <2> QED BY <1>4, <2>1, <2>2 DEF Sum, SumOf
<1>6. \A u : u \in UnitsIn(f) <=> \E r \in R : \E n \in 1..r.amount : u = <<r, n>>
  BY <1>1 DEF UnitsIn
<1>7. Parts(V, S, UnitsIn(f))
  <2>1. \A i \in S : V[i] \subseteq UnitsIn(f)
    BY <1>5, <1>6 DEF Parts
  <2>2. ASSUME NEW i \in S, NEW j \in S, NEW u, u \in V[i], u \in V[j]
        PROVE  i = j
    <3>1. PICK r \in part[i] : \E n \in 1..r.amount : u = <<r, n>>
      BY <1>5, <2>2
    <3>2. PICK s \in part[j] : \E n \in 1..s.amount : u = <<s, n>>
      BY <1>5, <2>2
    <3>3. r = s
      BY <3>1, <3>2
    <3> QED BY <3>1, <3>2, <3>3 DEF Parts
  <2>3. ASSUME NEW u \in UnitsIn(f) PROVE \E i \in S : u \in V[i]
    <3>1. PICK r \in R : \E n \in 1..r.amount : u = <<r, n>>
      BY <1>6
    <3>2. PICK i \in S : r \in part[i]
      BY DEF Parts
    <3> QED BY <1>5, <3>1, <3>2
  <2> QED BY <2>1, <2>2, <2>3 DEF Parts
<1>8. Sizes(g, V, S)
  BY <1>5 DEF Sizes
<1> QED BY <1>3, <1>7, <1>8, CountOfParts

LEMMA SumOfTwo ==
    ASSUME NEW R, IsFiniteSet(R), Priced(R), NEW A, NEW B, R = A \cup B, A \cap B = {}
    PROVE  Sum(R) = Sum(A) + Sum(B)
<1>1. PICK f, g, h : /\ f = [r \in R |-> r.amount]
                     /\ g = [r \in A |-> r.amount] /\ h = [r \in B |-> r.amount]
  OBVIOUS
<1>2. f \in [R -> Nat] /\ g \in [A -> Nat] /\ h \in [B -> Nat]
  BY <1>1 DEF Priced
<1>3. IsFiniteSet(A) /\ IsFiniteSet(B)
  BY FS_Subset
<1>4. /\ IsFiniteSet(UnitsIn(g)) /\ Cardinality(UnitsIn(g)) \in Nat
      /\ IsFiniteSet(UnitsIn(h)) /\ Cardinality(UnitsIn(h)) \in Nat
  BY <1>2, <1>3, UnitsFinite
<1>5. UnitsIn(f) = UnitsIn(g) \cup UnitsIn(h)
  <2>1. /\ \A u : u \in UnitsIn(f) <=> \E r \in R : \E n \in 1..r.amount : u = <<r, n>>
        /\ \A u : u \in UnitsIn(g) <=> \E r \in A : \E n \in 1..r.amount : u = <<r, n>>
        /\ \A u : u \in UnitsIn(h) <=> \E r \in B : \E n \in 1..r.amount : u = <<r, n>>
    BY <1>1, UnitsOf
  <2> QED BY <2>1
<1>6. UnitsIn(g) \cap UnitsIn(h) = {}
  <2>1. /\ \A u : u \in UnitsIn(g) <=> \E r \in A : \E n \in 1..r.amount : u = <<r, n>>
        /\ \A u : u \in UnitsIn(h) <=> \E r \in B : \E n \in 1..r.amount : u = <<r, n>>
    BY <1>1, UnitsOf
  <2>2. \A r, s, m, n : <<r, m>> = <<s, n>> => r = s
    OBVIOUS
  <2> QED BY <2>1, <2>2
<1>7. Cardinality(UnitsIn(g) \cap UnitsIn(h)) = 0
  BY <1>6, FS_EmptySet
<1>8. Cardinality(UnitsIn(g) \cup UnitsIn(h))
        = Cardinality(UnitsIn(g)) + Cardinality(UnitsIn(h)) - Cardinality(UnitsIn(g) \cap UnitsIn(h))
  BY <1>4, FS_Union
<1>9. Sum(R) = Cardinality(UnitsIn(f)) /\ Sum(A) = Cardinality(UnitsIn(g)) /\ Sum(B) = Cardinality(UnitsIn(h))
  BY <1>1 DEF Sum, SumOf
<1> QED BY <1>4, <1>5, <1>7, <1>8, <1>9

(* What redemptions of different orders cost, each no more than its order. *)
LEMMA CostWithinRevenue ==
    ASSUME NEW R, IsFiniteSet(R), Priced(R),
           \A r \in R : r.order \in Orders /\ r.amount <= Amount[r.order],
           \A r, s \in R : r.order = s.order => r = s
    PROVE  Sum(R) <= Revenue(R)
<1>1. PICK O : O = {r.order : r \in R} \ {None}
  OBVIOUS
<1>2. O \subseteq Orders /\ \A r \in R : r.order \in O
  BY <1>1, RewardsAssumption
<1>3. PICK f, g : f = [r \in R |-> r.amount] /\ g = [o \in O |-> Amount[o]]
  OBVIOUS
<1>4. f \in [R -> Nat] /\ g \in [O -> Nat] /\ IsFiniteSet(O)
  BY <1>2, <1>3, SegmentsAssumption, FS_Subset DEF Priced
<1>5. IsFiniteSet(UnitsIn(f)) /\ IsFiniteSet(UnitsIn(g))
  BY <1>4, UnitsFinite
<1>6. \A u : u \in UnitsIn(f) <=> \E r \in R : \E n \in 1..r.amount : u = <<r, n>>
  BY <1>3 DEF UnitsIn
<1>7. \A u : u \in UnitsIn(g) <=> \E o \in O : \E n \in 1..Amount[o] : u = <<o, n>>
  BY <1>3 DEF UnitsIn
<1>8. PICK F : F = [u \in UnitsIn(f) |-> <<u[1].order, u[2]>>]
  OBVIOUS
<1>9. ASSUME NEW u \in UnitsIn(f) PROVE F[u] \in UnitsIn(g)
  <2>1. PICK r, n : r \in R /\ n \in 1..r.amount /\ u = <<r, n>>
    BY <1>6
  <2>2. F[u] = <<r.order, n>>
    BY <1>8, <2>1
  <2>3. n \in 1..Amount[r.order]
    <3>1. r.amount \in Nat /\ r.amount <= Amount[r.order] /\ Amount[r.order] \in Nat
      BY <2>1, SegmentsAssumption DEF Priced
    <3> QED BY <2>1, <3>1
  <2> QED BY <1>2, <1>7, <2>1, <2>2, <2>3
<1>10. ASSUME NEW u \in UnitsIn(f), NEW v \in UnitsIn(f), F[u] = F[v] PROVE u = v
  <2>1. PICK r, n : r \in R /\ n \in 1..r.amount /\ u = <<r, n>>
    BY <1>6
  <2>2. PICK s, m : s \in R /\ m \in 1..s.amount /\ v = <<s, m>>
    BY <1>6
  <2>3. <<r.order, n>> = <<s.order, m>>
    BY <1>8, <1>10, <2>1, <2>2
  <2> QED BY <2>1, <2>2, <2>3
<1>11. F \in [UnitsIn(f) -> UnitsIn(g)]
  BY <1>8, <1>9
<1>12. F \in Injection(UnitsIn(f), UnitsIn(g))
  BY <1>10, <1>11, Fun_IsInj
<1>13. Cardinality(UnitsIn(f)) <= Cardinality(UnitsIn(g))
  BY <1>5, <1>12, FS_Injection
<1>14. Sum(R) = Cardinality(UnitsIn(f)) /\ Revenue(R) = Cardinality(UnitsIn(g))
  BY <1>1, <1>3 DEF Sum, SumOf, Revenue
<1> QED BY <1>13, <1>14

--------------------------------------------------------------------------------
(* The report: its rows.                                                   *)

LEMMA TotalOf ==
    ASSUME NEW S, NEW f, DOMAIN f = S, NEW g, g = [k \in S |-> f[k].cost]
    PROVE  Total(f, "cost") = SumOf(g)
BY DEF Total

LEMMA WithinPriced ==
    ASSUME TInv, NEW days
    PROVE  /\ IsFiniteSet(Within(days)) /\ Priced(Within(days))
           /\ \A r \in Within(days) : r \in redemption /\ RedemptionOk(r)
<1>1. Within(days) \subseteq redemption
  BY DEF Within
<1> QED BY <1>1, RedemptionsPriced, FS_Subset DEF Priced, TInv, RedemptionTypes

LEMMA CostByIncentive ==
    ASSUME TInv, NEW days
    PROVE  Total(ByIncentive(days), "cost") = Sum(Within(days))
<1>1. PICK f, part : f = ByIncentive(days) /\ part = [i \in Live |-> Of(i, days)]
  OBVIOUS
<1>2. DOMAIN f = Live /\ \A i \in Live : f[i].cost = Sum(Of(i, days))
  BY <1>1 DEF ByIncentive, Figures
<1>3. PICK g : g = [i \in Live |-> Sum(part[i])]
  OBVIOUS
<1>4. g = [i \in Live |-> f[i].cost]
  BY <1>1, <1>2, <1>3
<1>5. Parts(part, Live, Within(days))
  <2>1. \A i \in Live : part[i] = {r \in Within(days) : r.incentive = i}
    BY <1>1 DEF Of
  <2>2. \A r \in Within(days) : r.incentive \in Live
    BY WithinPriced DEF RedemptionOk
  <2> QED BY <2>1, <2>2 DEF Parts
<1>6. Total(f, "cost") = SumOf(g)
  BY <1>2, <1>4, TotalOf
<1>7. SumOf(g) = Sum(Within(days))
  BY <1>3, <1>5, WithinPriced, SumOfParts
<1> QED BY <1>1, <1>6, <1>7

LEMMA SegmentOfMember ==
    ASSUME ClubTypes, NEW c \in EverMember
    PROVE  /\ LatestSegment[c] \in SegmentKeys
           /\ \A k : c \in Members(k) <=> LatestSegment[c] = k
<1>1. membership[c] \in Seq(MemberRow) /\ membership[c] # <<>>
  BY DEF ClubTypes, EverMember
<1>2. Len(membership[c]) \in 1..Len(membership[c])
  BY <1>1
<1>3. membership[c][Len(membership[c])] \in MemberRow
  BY <1>1, <1>2
<1>4. Last(membership[c]).segment \in SegmentKeys
  BY <1>3 DEF Last, MemberRow
<1> QED BY <1>4 DEF LatestSegment, Members

LEMMA CostBySegment ==
    ASSUME TInv, NEW days, NEW known, known = {r \in Within(days) : r.customer \in EverMember}
    PROVE  Total(BySegment(days), "cost") = Sum(known)
<1>1. PICK f, part : f = BySegment(days) /\ part = [k \in SegmentKeys |-> InSegment(k, days)]
  OBVIOUS
<1>2. DOMAIN f = SegmentKeys /\ \A k \in SegmentKeys : f[k].cost = Sum(InSegment(k, days))
  BY <1>1 DEF BySegment, Figures
<1>3. PICK g : g = [k \in SegmentKeys |-> Sum(part[k])]
  OBVIOUS
<1>4. g = [k \in SegmentKeys |-> f[k].cost]
  BY <1>1, <1>2, <1>3
<1>5. Parts(part, SegmentKeys, known)
  <2>1. \A k \in SegmentKeys : part[k] = {r \in Within(days) : r.customer \in Members(k)}
    BY <1>1 DEF InSegment
  <2>2. \A k : Members(k) \subseteq EverMember
    BY DEF Members
  <2>3. \A c \in EverMember : /\ LatestSegment[c] \in SegmentKeys
                              /\ \A k : c \in Members(k) <=> LatestSegment[c] = k
    BY SegmentOfMember DEF TInv
  <2>4. \A k \in SegmentKeys : part[k] \subseteq known
    BY <2>1, <2>2
  <2>5. \A i, j \in SegmentKeys : \A u : u \in part[i] /\ u \in part[j] => i = j
    BY <2>1, <2>2, <2>3
  <2>6. \A u \in known : \E k \in SegmentKeys : u \in part[k]
    BY <2>1, <2>3
  <2> QED BY <2>4, <2>5, <2>6 DEF Parts
<1>6. IsFiniteSet(known) /\ Priced(known)
  BY WithinPriced, FS_Subset DEF Priced
<1>7. Total(f, "cost") = SumOf(g)
  BY <1>2, <1>4, TotalOf
<1>8. SumOf(g) = Sum(known)
  BY <1>3, <1>5, <1>6, SumOfParts
<1> QED BY <1>1, <1>7, <1>8

LEMMA ReportRows ==
    ASSUME TInv, RewardedOnce
    PROVE  ReportAgrees
<1> SUFFICES ASSUME NEW days
             PROVE  LET stray == {r \in Within(days) : r.customer \notin EverMember}
                        byIncentive == ByIncentive(days)
                    IN /\ Total(byIncentive, "cost") = Total(BySegment(days), "cost") + Sum(stray)
                       /\ \A i \in Live : (\A r \in Of(i, days) : r.trigger # "REFERRAL") =>
                              byIncentive[i].cost <= byIncentive[i].revenue
  BY DEF ReportAgrees
<1>1. PICK known, stray : /\ known = {r \in Within(days) : r.customer \in EverMember}
                          /\ stray = {r \in Within(days) : r.customer \notin EverMember}
  OBVIOUS
<1>2. IsFiniteSet(Within(days)) /\ Priced(Within(days))
  BY WithinPriced
<1>3. Within(days) = known \cup stray /\ known \cap stray = {}
  BY <1>1
<1>4. Sum(Within(days)) = Sum(known) + Sum(stray)
  BY <1>2, <1>3, SumOfTwo
<1>5. Total(ByIncentive(days), "cost") = Total(BySegment(days), "cost") + Sum(stray)
  BY <1>1, <1>4, CostByIncentive, CostBySegment
<1>6. ASSUME NEW i \in Live, \A r \in Of(i, days) : r.trigger # "REFERRAL"
      PROVE  ByIncentive(days)[i].cost <= ByIncentive(days)[i].revenue
  <2>1. PICK R : R = Of(i, days)
    OBVIOUS
  <2>2. R \subseteq Within(days) /\ \A r \in R : r.incentive = i
    BY <2>1 DEF Of
  <2>3. IsFiniteSet(R) /\ Priced(R)
    BY <1>2, <2>2, FS_Subset DEF Priced
  <2>4. \A r \in R : r \in redemption /\ r.order \in Orders /\ r.customer = Owner[r.order]
                     /\ r.amount <= Amount[r.order]
    BY <1>6, <2>1, <2>2, WithinPriced DEF RedemptionOk
  <2>5. ASSUME NEW r \in R, NEW s \in R, r.order = s.order
        PROVE  r = s
    BY <2>2, <2>4, <2>5, RewardsAssumption DEF RewardedOnce
  <2>6. Sum(R) <= Revenue(R)
    BY <2>3, <2>4, <2>5, CostWithinRevenue
  <2>7. ByIncentive(days)[i].cost = Sum(R) /\ ByIncentive(days)[i].revenue = Revenue(R)
    BY <2>1 DEF ByIncentive, Figures
  <2> QED BY <2>6, <2>7
<1> QED BY <1>1, <1>5, <1>6

--------------------------------------------------------------------------------
(* The snapshots of one night.                                             *)

In(k) == {c \in EverMember : Last(Trend(c)).segment = k}
Promised == {c \in EverMember : Promising(c)}
ChurnTaken ==
    /\ churn.total = Cardinality(EverMember) /\ churn.atRisk = Tally("at_risk")
    /\ churn.lost = Tally("lost") /\ churn.regular = Tally("regular")
LoyaltyTaken ==
    /\ loyalty.total = Cardinality(EverMember) /\ loyalty.loyal = Cardinality(In("vip"))
    /\ loyalty.promising = Cardinality(Promised)
    /\ loyalty.regular = Cardinality(In("regular") \ Promised)
(* A snapshot counts the rows there are: the next rows are written when    *)
(* there is none.                                                          *)
Taken == (churn = NoSnapshot \/ ChurnTaken) /\ (loyalty = NoSnapshot \/ LoyaltyTaken)

LEMMA SameRows ==
    ASSUME UNCHANGED membership
    PROVE  /\ EverMember' = EverMember /\ Promised' = Promised
           /\ \A k : In(k)' = In(k) /\ Tally(k)' = Tally(k)
BY DEF EverMember, Promised, Promising, In, Trend, Tally, Members, LatestSegment

LEMMA TakenStays ==
    ASSUME Taken, UNCHANGED <<membership, churn, loyalty>>
    PROVE  Taken'
BY SameRows DEF Taken, ChurnTaken, LoyaltyTaken

LEMMA TakenInductive ==
    ASSUME Taken, [Next]_vars
    PROVE  Taken'
<1>1. CASE RunSegmentation
  BY <1>1 DEF RunSegmentation, Taken, NoSnapshot
<1>2. CASE EvaluateChurn
  <2>1. ChurnTaken'
    BY <1>2, SameRows DEF EvaluateChurn, ChurnTaken
  <2>2. loyalty' = NoSnapshot \/ LoyaltyTaken'
    BY <1>2, SameRows DEF EvaluateChurn, Taken, LoyaltyTaken
  <2> QED BY <2>1, <2>2 DEF Taken, NoSnapshot
<1>3. CASE EvaluateLoyalty
  <2>1. LoyaltyTaken'
    BY <1>3, SameRows DEF EvaluateLoyalty, LoyaltyTaken, In, Promised
  <2>2. churn' = NoSnapshot \/ ChurnTaken'
    BY <1>3, SameRows DEF EvaluateLoyalty, Taken, ChurnTaken
  <2> QED BY <2>1, <2>2 DEF Taken, NoSnapshot
<1>4. CASE EvaluationFails \/ Tick \/ (\E o \in Orders : PayOrder(o)) \/ Removes
  BY <1>4, TakenStays DEF EvaluationFails, Tick, PayOrder, Removes, DeleteOrder
<1>5. CASE UNCHANGED segmentVars
  BY <1>5, TakenStays DEF segmentVars
<1>6. CASE \E r \in Requests :
              \/ \E o \in Orders : GrantForOrder(r, o) \/ OnOrderCompleted(r, o)
              \/ \E ref \in Confirmed : OnReferralConfirmed(r, ref[1], ref[2])
              \/ \E c \in Customers, use \in Uses : BeginApply(r, c, use[1], use[2])
  <2>1. PICK r, work : Begin(r, work)
    BY <1>6 DEF GrantForOrder, OnOrderCompleted, OnReferralConfirmed, BeginGrant, BeginApply
  <2> QED BY <1>5, <2>1 DEF Begin
<1>7. CASE \E r \in Requests : \/ \E i \in Incentives : Consider(r, i)
                               \/ GrantCashback(r) \/ IssueCoupon(r) \/ End(r) \/ Apply(r)
  BY <1>5, <1>7 DEF Consider, GrantCashback, IssueCoupon, Redeem, End, Apply
<1>8. CASE \E c \in Customers, use \in Uses : SpendWallet(c, use[1])
  BY <1>5, <1>8 DEF SpendWallet
<1>9. CASE \E i \in Incentives :
              \/ \E row \in Forms : CreateCashback(i, row) \/ CreateCoupon(i, row)
              \/ \E change \in Changes : UpdateCashback(i, change) \/ UpdateCoupon(i, change)
              \/ DeactivateCashback(i) \/ DeactivateCoupon(i)
  <2>1. PICK i, row : Writes(i, row)
    BY <1>9 DEF CreateCashback, CreateCoupon, Creates, UpdateCashback, UpdateCoupon, Updates,
                DeactivateCashback, DeactivateCoupon, Deactivate
  <2> QED BY <1>5, <2>1 DEF Writes
<1> QED BY <1>1, <1>2, <1>3, <1>4, <1>5, <1>6, <1>7, <1>8, <1>9 DEF Next, ClubSteps, Night, vars

(* The latest row is the last of the latest two.                           *)
LEMMA LastOfTrend ==
    ASSUME ClubTypes, NEW c \in EverMember
    PROVE  Last(Trend(c)).segment = LatestSegment[c]
<1>1. PICK m : m = membership[c]
  OBVIOUS
<1>2. m \in Seq(MemberRow) /\ m # <<>>
  BY <1>1 DEF ClubTypes, EverMember
<1>3. PICK n : n = Len(m)
  OBVIOUS
<1>4. n \in Nat \ {0}
  BY <1>2, <1>3
<1>5. 1 \in Int /\ n - 1 \in Int
  BY <1>4
<1>6. Max({1, n - 1}) \in {1, n - 1} /\ Max({1, n - 1}) >= 1 /\ Max({1, n - 1}) >= n - 1
  BY <1>5, MaxOfTwo
<1>7. PICK a : a = Max({1, n - 1})
  OBVIOUS
<1>8. a \in 1..n
  BY <1>4, <1>6, <1>7
<1>9. PICK t : t = SubSeq(m, a, n)
  OBVIOUS
<1>10. Len(t) = n - a + 1 /\ t[n - a + 1] = m[n]
  BY <1>2, <1>3, <1>4, <1>8, <1>9
<1>11. Trend(c) = t
  BY <1>1, <1>3, <1>7, <1>9 DEF Trend
<1>12. Last(t) = Last(m)
  BY <1>3, <1>10 DEF Last
<1> QED BY <1>1, <1>11, <1>12 DEF LatestSegment

(* Five disjoint sets.                                                     *)
Apart5(A, B, C, D, E) ==
    /\ A \cap B = {} /\ (A \cup B) \cap C = {} /\ (A \cup B \cup C) \cap D = {}
    /\ (A \cup B \cup C \cup D) \cap E = {}

LEMMA TwoCounts ==
    ASSUME NEW A, IsFiniteSet(A), NEW B, IsFiniteSet(B), A \cap B = {}
    PROVE  /\ IsFiniteSet(A \cup B) /\ Cardinality(A) \in Nat /\ Cardinality(B) \in Nat
           /\ Cardinality(A \cup B) = Cardinality(A) + Cardinality(B)
<1>1. Cardinality(A) \in Nat /\ Cardinality(B) \in Nat
  BY FS_CardinalityType
<1>2. Cardinality(A \cap B) = 0
  BY FS_EmptySet
<1>3. /\ IsFiniteSet(A \cup B)
      /\ Cardinality(A \cup B) = Cardinality(A) + Cardinality(B) - Cardinality(A \cap B)
  BY FS_Union
<1> QED BY <1>1, <1>2, <1>3

LEMMA FiveCounts ==
    ASSUME NEW S, IsFiniteSet(S), NEW A, NEW B, NEW C, NEW D, NEW E,
           S = A \cup B \cup C \cup D \cup E, Apart5(A, B, C, D, E)
    PROVE  Cardinality(S) = Cardinality(A) + Cardinality(B) + Cardinality(C)
                            + Cardinality(D) + Cardinality(E)
<1>1. /\ IsFiniteSet(A) /\ IsFiniteSet(B) /\ IsFiniteSet(C) /\ IsFiniteSet(D) /\ IsFiniteSet(E)
  BY FS_Subset
<1>2. PICK P, Q, R : P = A \cup B /\ Q = P \cup C /\ R = Q \cup D
  OBVIOUS
<1>3. A \cap B = {} /\ P \cap C = {} /\ Q \cap D = {} /\ R \cap E = {} /\ S = R \cup E
  BY <1>2 DEF Apart5
<1>4. /\ IsFiniteSet(P) /\ Cardinality(A) \in Nat /\ Cardinality(B) \in Nat
      /\ Cardinality(P) = Cardinality(A) + Cardinality(B)
  BY <1>1, <1>2, <1>3, TwoCounts
<1>5. /\ IsFiniteSet(Q) /\ Cardinality(C) \in Nat
      /\ Cardinality(Q) = Cardinality(P) + Cardinality(C)
  BY <1>1, <1>2, <1>3, <1>4, TwoCounts
<1>6. /\ IsFiniteSet(R) /\ Cardinality(D) \in Nat
      /\ Cardinality(R) = Cardinality(Q) + Cardinality(D)
  BY <1>1, <1>2, <1>3, <1>5, TwoCounts
<1>7. /\ Cardinality(E) \in Nat
      /\ Cardinality(S) = Cardinality(R) + Cardinality(E)
  BY <1>1, <1>3, <1>6, TwoCounts
<1> QED BY <1>4, <1>5, <1>6, <1>7

LEMMA SnapshotRows ==
    ASSUME ClubTypes, Taken
    PROVE  SnapshotsAgree
<1> SUFFICES ASSUME NoSnapshot \notin {churn, loyalty}
             PROVE  /\ churn.total = loyalty.total
                    /\ churn.regular <= loyalty.promising + loyalty.regular
                    /\ churn.total = loyalty.loyal + Tally("new") + churn.atRisk + churn.lost + churn.regular
  BY DEF SnapshotsAgree
<1>1. ChurnTaken /\ LoyaltyTaken
  BY DEF Taken
<1>2. IsFiniteSet(EverMember)
  <2>1. EverMember \subseteq Customers
    BY DEF EverMember
  <2> QED BY <2>1, SegmentsAssumption, FS_Subset
<1>3. \A k : In(k) = Members(k)
  BY LastOfTrend DEF In, Members
<1>4. \A c \in EverMember : /\ LatestSegment[c] \in SegmentKeys
                            /\ \A k : c \in Members(k) <=> LatestSegment[c] = k
  BY SegmentOfMember
<1>5. \A k : Members(k) \subseteq EverMember
  BY DEF Members
<1>6. churn.regular <= loyalty.promising + loyalty.regular
  <2>1. PICK A, B : A = Promised /\ B = Members("regular") \ Promised
    OBVIOUS
  <2>2. A \subseteq EverMember /\ B \subseteq EverMember /\ A \cap B = {}
    BY <1>5, <2>1 DEF Promised
  <2>3. IsFiniteSet(A) /\ IsFiniteSet(B)
    BY <1>2, <2>2, FS_Subset
  <2>4. IsFiniteSet(A \cup B) /\ Cardinality(A \cup B) = Cardinality(A) + Cardinality(B)
    BY <2>2, <2>3, TwoCounts
  <2>5. Members("regular") \subseteq A \cup B
    BY <2>1
  <2>6. Cardinality(Members("regular")) <= Cardinality(A \cup B)
    BY <2>4, <2>5, FS_Subset
  <2> QED BY <1>1, <1>3, <2>1, <2>4, <2>6 DEF ChurnTaken, LoyaltyTaken, Tally
<1>7. churn.total = loyalty.loyal + Tally("new") + churn.atRisk + churn.lost + churn.regular
  <2>1. PICK A, B, C, D, E : /\ A = Members("vip") /\ B = Members("new") /\ C = Members("at_risk")
                             /\ D = Members("lost") /\ E = Members("regular")
    OBVIOUS
  <2>2. EverMember = A \cup B \cup C \cup D \cup E
    BY <1>4, <1>5, <2>1 DEF SegmentKeys
  <2>3. Apart5(A, B, C, D, E)
    <3>1. ASSUME NEW j, NEW k, j # k PROVE Members(j) \cap Members(k) = {}
      BY <1>4, <1>5, <3>1
    <3>2. /\ A \cap B = {} /\ A \cap C = {} /\ A \cap D = {} /\ A \cap E = {} /\ B \cap C = {}
          /\ B \cap D = {} /\ B \cap E = {} /\ C \cap D = {} /\ C \cap E = {} /\ D \cap E = {}
      BY <2>1, <3>1
    <3> QED BY <3>2 DEF Apart5
  <2>4. Cardinality(EverMember) = Cardinality(A) + Cardinality(B) + Cardinality(C)
                                  + Cardinality(D) + Cardinality(E)
    BY <1>2, <2>2, <2>3, FiveCounts
  <2> QED BY <1>1, <1>3, <2>1, <2>4 DEF ChurnTaken, LoyaltyTaken, Tally
<1> QED BY <1>1, <1>6, <1>7 DEF ChurnTaken, LoyaltyTaken

(* The snapshots of a night count the same customers, each in one segment, *)
(* and the report's rows by incentive and by segment cost the same, and    *)
(* no incentive costs more than its orders brought, if no two grants of an *)
(* order overlap (evaluateChurn, evaluateLoyalty, getPerformanceReport).   *)
THEOREM FiguresAlwaysAgree ==
    ASSUME ~Overlap
    PROVE  Spec => []FiguresAgree
<1>1. Init => Taken
  BY DEF Init, SegmentsInit, Taken
<1>2. Taken /\ [Next]_vars => Taken'
  BY TakenInductive
<1>3. TInv /\ Taken /\ RewardedOnce => FiguresAgree
  BY ReportRows, SnapshotRows DEF TInv, FiguresAgree
<1> QED BY <1>1, <1>2, <1>3, TypesInvariant, OrdersRewardedOnce, PTL DEF Spec

================================================================================
