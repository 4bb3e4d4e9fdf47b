--------------------------- MODULE DiscountCodes_proofs ---------------------------
(***************************************************************************)
(* Proofs about DiscountCodes, for any customers, codes, rows, bodies and  *)
(* requests, any limits and any prices.  TypeCorrect takes one             *)
(* administrator at a time, as the property does; the others take any.     *)
(***************************************************************************)
EXTENDS DiscountCodes, TLAPS, FiniteSetTheorems, NaturalsInduction, WellFoundedInduction

(* What a row may hold.                                                    *)
DiscountSound(row) ==
    /\ row.live \in BOOLEAN
    /\ row.live => /\ DOMAIN DiscountFields \cup {"live", "used", "deleted"} \subseteq DOMAIN row
                   /\ Typed(row, DiscountFields) /\ row.used \in Nat /\ row.deleted \in BOOLEAN
ClubSound(row) ==
    /\ row.live \in BOOLEAN
    /\ row.live => /\ DOMAIN ClubFields \cup {"live", "renamed"} \subseteq DOMAIN row
                   /\ Typed(row, ClubFields) /\ row.renamed \in BOOLEAN
ReferralSound(row) ==
    /\ row.live \in BOOLEAN
    /\ row.live => /\ DOMAIN ReferralFields \cup {"live", "deleted"} \subseteq DOMAIN row
                   /\ Typed(row, ReferralFields) /\ row.deleted \in BOOLEAN
OrderSound(w) ==
    /\ {"buyer", "by", "id", "cents", "discount", "payable", "pay", "revived"} \subseteq DOMAIN w
    /\ w.buyer \in Buyers \cup {None} /\ w.revived \in BOOLEAN
    /\ (w.buyer = None) = (w.pay = "none") /\ (w.pay # "PAID" => ~w.revived)

DiscountsSound ==
    discount = [i \in Discounts |-> discount[i]] /\ \A i \in Discounts : DiscountSound(discount[i])
ClubsSound == club = [i \in Clubs |-> club[i]] /\ \A i \in Clubs : ClubSound(club[i])
ReferralsSound ==
    referral = [i \in Referrals |-> referral[i]] /\ \A i \in Referrals : ReferralSound(referral[i])
OrdersSound == order = [o \in Orders |-> order[o]] /\ \A o \in Orders : OrderSound(order[o])

(* What a request or an administrator has in hand.                         *)
PriceSound(p) ==
    /\ p.by = "shop" => p.id \in Discounts
    /\ p.by = "club" => p.id \in Clubs
    /\ p.by = "referral" => p.id \in Referrals
JobSound(j) ==
    /\ j.kind = "checkout" =>
        /\ j.buyer \in Buyers /\ j.cents \in Nat /\ j.shipping \in Nat /\ j.grant \in BOOLEAN
        /\ j.max \in Nat \cup {None} /\ PriceSound(j.price)
    /\ j.kind = "till" => j.buyer \in Buyers /\ j.id \in Clubs
    /\ j.kind = "discount" => j.id \in Discounts /\ Change(j.change, DiscountFields)
                              /\ DiscountSound(j.row) /\ j.row.live
    /\ j.kind = "club" => j.id \in Clubs /\ Change(j.change, ClubFields)
                          /\ ClubSound(j.row) /\ j.row.live
    /\ j.kind = "referral" => j.id \in Referrals /\ Change(j.change, ReferralFields)
                              /\ "code" \notin DOMAIN j.change
                              /\ ReferralSound(j.row) /\ j.row.live

(* The rows they speak of exist.                                           *)
Linked(j) ==
    /\ j.kind = "checkout" /\ j.price.by = "shop" => discount[j.price.id].live
    /\ j.kind = "till" => club[j.id].live
    /\ j.kind = "discount" => discount[j.id].live
    /\ j.kind = "club" => club[j.id].live
    /\ j.kind = "referral" => referral[j.id].live

Workers == Requests \cup Admins
JobsSound ==
    /\ job = [r \in Workers |-> job[r]]
    /\ \A r \in Workers : JobSound(job[r])

Counters ==
    /\ now \in 0..MaxTime /\ acts \in 0..MaxActs /\ edits \in 0..MaxEdits
    /\ till \in [Clubs -> [Buyers -> Nat]] /\ grant \in [Buyers -> Int] /\ shopSales \in [Buyers -> Nat]
    /\ member \in [Buyers -> Segments \cup {None}] /\ peak \in [Discounts -> Nat]

JobsLinked == \A r \in Workers : Linked(job[r])

Shapes ==
    /\ DiscountsSound /\ ClubsSound /\ ReferralsSound /\ OrdersSound
    /\ JobsSound /\ JobsLinked /\ Counters

--------------------------------------------------------------------------------
(* Numbers.                                                                *)

LEMMA LeastElement ==
    ASSUME NEW S, S \subseteq Nat, S # {}
    PROVE  \E x \in S : \A y \in S : x =< y
<1>1. PICK R : R = {ss \in Nat \X Nat : ss[1] < ss[2]}
  OBVIOUS
<1>2. OpToRel(<, Nat) = R
  BY <1>1, Zenon DEF OpToRel
<1>3. IsWellFoundedOn(R, Nat)
  BY <1>2, NatLessThanWellFounded, Zenon
<1>4. PICK x \in S : \A y \in S : ~(<<y, x>> \in R)
  BY <1>3, WFMin, Zenon
<1>5. ASSUME NEW y \in S PROVE x =< y
  <2>1. x \in Nat /\ y \in Nat /\ <<y, x>> \notin R
    BY <1>4
  <2>2. ~(y < x)
    BY <1>1, <2>1
  <2> QED BY <2>1, <2>2
<1> QED BY <1>5

LEMMA MinIsMember ==
    ASSUME NEW S \in SUBSET Nat, S # {}
    PROVE  Min(S) \in S
BY LeastElement DEF Min

LEMMA MinOfTwo ==
    ASSUME NEW a \in Int, NEW b \in Int
    PROVE  Min({a, b}) \in {a, b} /\ Min({a, b}) <= a /\ Min({a, b}) <= b
<1>1. \E m \in {a, b} : \A y \in {a, b} : m <= y
  BY a <= b \/ b <= a
<1>2. Min({a, b}) \in {a, b} /\ \A y \in {a, b} : Min({a, b}) <= y
  BY <1>1 DEF Min
<1> QED BY <1>2

LEMMA MaxOfTwo ==
    ASSUME NEW a \in Int, NEW b \in Int
    PROVE  Max({a, b}) \in {a, b} /\ Max({a, b}) >= a /\ Max({a, b}) >= b
<1>1. \E m \in {a, b} : \A y \in {a, b} : m >= y
  BY a >= b \/ b >= a
<1>2. Max({a, b}) \in {a, b} /\ \A y \in {a, b} : Max({a, b}) >= y
  BY <1>1 DEF Max
<1> QED BY <1>2

(* A finite set of numbers has a largest: else there would be a smallest   *)
(* number of elements of a set without one.                                *)
HasMax(S) == \E x \in S : \A y \in S : x >= y
LEMMA FiniteHasMax ==
    ASSUME NEW S \in SUBSET Int, IsFiniteSet(S), S # {}
    PROVE  HasMax(S)
<1> SUFFICES ASSUME ~HasMax(S) PROVE FALSE
  OBVIOUS
<1>1. PICK Bad : Bad = {n \in Nat : \E T \in SUBSET Int :
                            IsFiniteSet(T) /\ Cardinality(T) = n /\ T # {} /\ ~HasMax(T)}
  OBVIOUS
<1>2. Cardinality(S) \in Bad
  BY <1>1, FS_CardinalityType
<1>3. PICK n \in Bad : \A m \in Bad : n =< m
  BY <1>1, <1>2, LeastElement
<1>4. PICK T \in SUBSET Int : IsFiniteSet(T) /\ Cardinality(T) = n /\ T # {} /\ ~HasMax(T)
  BY <1>1, <1>3
<1>5. PICK x \in T : TRUE
  BY <1>4
<1>6. IsFiniteSet(T \ {x}) /\ Cardinality(T \ {x}) = n - 1 /\ n \in Nat
  BY <1>1, <1>4, FS_RemoveElement
<1>7. Cardinality(T \ {x}) \in Nat
  BY <1>6, FS_CardinalityType
<1>8. T \ {x} # {}
  <2>1. x >= x
    BY <1>4
  <2> QED BY <1>4, <2>1 DEF HasMax
<1>9. n - 1 \notin Bad
  BY <1>3, <1>6
<1>10. HasMax(T \ {x})
  BY <1>1, <1>4, <1>6, <1>7, <1>8, <1>9
<1>11. PICK m \in T \ {x} : \A y \in T \ {x} : m >= y
  BY <1>10 DEF HasMax
<1>12. CASE m >= x
  BY <1>4, <1>11, <1>12 DEF HasMax
<1>13. CASE x >= m
  <2>1. \A y \in T : x >= y
    BY <1>4, <1>11, <1>13
  <2> QED BY <1>4, <2>1 DEF HasMax
<1> QED BY <1>4, <1>11, <1>12, <1>13

LEMMA MaxIsMember ==
    ASSUME NEW S \in SUBSET Int, IsFiniteSet(S), S # {}
    PROVE  Max(S) \in S /\ \A y \in S : Max(S) >= y
BY FiniteHasMax DEF HasMax, Max

LEMMA ClampedWithin ==
    ASSUME NEW x \in Int, NEW top \in Nat
    PROVE  Clamped(x, top) \in 0..top
<1>1. Min({x, top}) \in {x, top} /\ Min({x, top}) <= x /\ Min({x, top}) <= top
  BY MinOfTwo
<1>2. PICK m \in Int : m = Min({x, top})
  BY <1>1
<1>3. Max({0, m}) \in {0, m} /\ Max({0, m}) >= 0 /\ Max({0, m}) >= m
  BY MaxOfTwo
<1> QED BY <1>1, <1>2, <1>3 DEF Clamped

LEMMA ShareIsInt ==
    ASSUME NEW percent \in Int, NEW cents \in Nat
    PROVE  Share(percent, cents) \in Int
<1>1. cents * percent \in Int
  OBVIOUS
<1>2. PICK n \in Int : n = cents * percent
  BY <1>1
<1>3. (2 * n + 100) \div 200 \in Int
  OBVIOUS
<1> QED BY <1>2, <1>3 DEF Share, Rounded

LEMMA ShareWithin ==
    ASSUME NEW percent \in 0..100, NEW cents \in Nat
    PROVE  Share(percent, cents) \in 0..cents
<1>1. cents * percent \in Int /\ cents * percent >= 0 /\ cents * percent <= cents * 100
  OBVIOUS
<1>2. PICK n \in Int : n = cents * percent
  BY <1>1
<1>3. n >= 0 /\ n <= 100 * cents
  BY <1>1, <1>2
<1>4. (2 * n + 100) \div 200 \in 0..cents
  BY <1>3
<1> QED BY <1>2, <1>4 DEF Share, Rounded

--------------------------------------------------------------------------------
(* Rows.                                                                   *)

LEMMA NewDiscountSound ==
    ASSUME NEW f, Body(f, DiscountFields)
    PROVE  DiscountSound(DiscountRow(f)) /\ DiscountRow(f).live /\ DiscountRow(f).used = 0
           /\ \A x \in DOMAIN DiscountFields : DiscountRow(f)[x] = f[x]
<1>1. PICK l : l = [live |-> TRUE, used |-> 0, deleted |-> FALSE]
  OBVIOUS
<1>2. PICK row : row = Over(l, f)
  OBVIOUS
<1>3. DOMAIN l = {"live", "used", "deleted"} /\ l.live = TRUE /\ l.used = 0 /\ l.deleted = FALSE
  BY <1>1
<1>4. \A x \in DOMAIN DiscountFields : x \notin DOMAIN l
  BY <1>3 DEF DiscountFields
<1>5. /\ DOMAIN row = DOMAIN l \cup DOMAIN f
      /\ \A x \in DOMAIN l : row[x] = l[x]
      /\ \A x \in DOMAIN f : x \notin DOMAIN l => row[x] = f[x]
  BY <1>2 DEF Over
<1>6. row.live = TRUE /\ row.used = 0 /\ row.deleted = FALSE
  BY <1>3, <1>5
<1>7. \A x \in DOMAIN DiscountFields : row[x] = f[x]
  BY <1>4, <1>5 DEF Body
<1>8. Typed(row, DiscountFields)
  BY <1>7 DEF Typed, Body
<1>9. DiscountSound(row)
  <2>1. DOMAIN DiscountFields \cup {"live", "used", "deleted"} \subseteq DOMAIN row
    BY <1>3, <1>5 DEF Body
  <2>2. row.live \in BOOLEAN /\ row.deleted \in BOOLEAN
    BY <1>6, Zenon
  <2>3. row.used \in Nat
    BY <1>6
  <2> QED BY <1>8, <2>1, <2>2, <2>3 DEF DiscountSound
<1> QED BY <1>1, <1>2, <1>6, <1>7, <1>9 DEF DiscountRow

LEMMA NewClubSound ==
    ASSUME NEW f, Body(f, ClubFields)
    PROVE  ClubSound(ClubRow(f)) /\ ClubRow(f).live
           /\ \A x \in DOMAIN ClubFields : ClubRow(f)[x] = f[x]
<1>1. PICK l : l = [live |-> TRUE, renamed |-> FALSE]
  OBVIOUS
<1>2. PICK row : row = Over(l, f)
  OBVIOUS
<1>3. DOMAIN l = {"live", "renamed"} /\ l.live = TRUE /\ l.renamed = FALSE
  BY <1>1
<1>4. \A x \in DOMAIN ClubFields : x \notin DOMAIN l
  BY <1>3 DEF ClubFields
<1>5. /\ DOMAIN row = DOMAIN l \cup DOMAIN f
      /\ \A x \in DOMAIN l : row[x] = l[x]
      /\ \A x \in DOMAIN f : x \notin DOMAIN l => row[x] = f[x]
  BY <1>2 DEF Over
<1>6. row.live = TRUE /\ row.renamed = FALSE
  BY <1>3, <1>5
<1>7. \A x \in DOMAIN ClubFields : row[x] = f[x]
  BY <1>4, <1>5 DEF Body
<1>8. Typed(row, ClubFields)
  BY <1>7 DEF Typed, Body
<1>9. ClubSound(row)
  BY <1>3, <1>5, <1>6, <1>8 DEF ClubSound, Body
<1> QED BY <1>1, <1>2, <1>6, <1>7, <1>9 DEF ClubRow

LEMMA NewReferralSound ==
    ASSUME NEW f, Change(f, ReferralFields), DOMAIN f = {"code", "discount", "cashback"}
    PROVE  ReferralSound(ReferralRow(f)) /\ ReferralRow(f).live
           /\ \A x \in DOMAIN f : ReferralRow(f)[x] = f[x]
<1>1. PICK l : l = [live |-> TRUE, deleted |-> FALSE, active |-> TRUE]
  OBVIOUS
<1>2. PICK row : row = Over(l, f)
  OBVIOUS
<1>3. DOMAIN l = {"live", "deleted", "active"} /\ l.live = TRUE /\ l.deleted = FALSE /\ l.active = TRUE
  BY <1>1
<1>5. /\ DOMAIN row = DOMAIN l \cup DOMAIN f
      /\ \A x \in DOMAIN l : row[x] = l[x]
      /\ \A x \in DOMAIN f : x \notin DOMAIN l => row[x] = f[x]
  BY <1>2 DEF Over
<1>6. row.live = TRUE /\ row.deleted = FALSE /\ row.active = TRUE
  BY <1>3, <1>5
<1>7. \A x \in DOMAIN f : row[x] = f[x]
  BY <1>3, <1>5
<1>8. Typed(row, ReferralFields)
  <2>1. row["active"] \in ReferralFields["active"]
    BY <1>6 DEF ReferralFields
  <2>2. \A x \in DOMAIN f : row[x] \in ReferralFields[x]
    BY <1>7 DEF Change
  <2>3. DOMAIN ReferralFields = DOMAIN f \cup {"active"}
    BY DEF ReferralFields
  <2> QED BY <2>1, <2>2, <2>3 DEF Typed
<1>9. DOMAIN ReferralFields \cup {"live", "deleted"} \subseteq DOMAIN row
  BY <1>3, <1>5 DEF ReferralFields
<1>10. ReferralSound(row)
  BY <1>6, <1>8, <1>9 DEF ReferralSound
<1> QED BY <1>1, <1>2, <1>6, <1>7, <1>10 DEF ReferralRow

(* A change over a row.                                                    *)
LEMMA NowTyped ==
    ASSUME NEW j, NEW fields, Change(j.change, fields), Typed(j.row, fields), NEW x \in DOMAIN fields
    PROVE  Now(j, x) \in fields[x]
BY DEF Now, Change, Typed

LEMMA ChangedDiscountSound ==
    ASSUME NEW j, JobSound(j), j.kind = "discount", NEW row, DiscountSound(row), row.live
    PROVE  LET new == DiscountChanged(j, row)
           IN  /\ DiscountSound(new) /\ new.live /\ new.used = row.used
               /\ \A x \in {"code", "type", "value", "max"} :
                      new[x] = IF x \in DOMAIN j.change THEN j.change[x] ELSE row[x]
               /\ \A x \in {"scope", "from", "to"} : new[x] = Now(j, x)
               /\ new.user = ForScope(j, "user", "SINGLE_USER")
               /\ new.eligible = IF Now(j, "scope") # "MULTIPLE_USERS" THEN {}
                                 ELSE IF Given(j, {"eligible"}) THEN j.change.eligible ELSE row.eligible
<1>1. PICK l : l =
        [scope |-> Now(j, "scope"), from |-> Now(j, "from"), to |-> Now(j, "to"),
         user |-> ForScope(j, "user", "SINGLE_USER"), group |-> ForScope(j, "group", "USER_GROUP"),
         eligible |-> IF Now(j, "scope") # "MULTIPLE_USERS" THEN {}
                      ELSE IF Given(j, {"eligible"}) THEN j.change.eligible ELSE row.eligible]
  OBVIOUS
<1>2. PICK k : k = Kept(j, {"eligible"})
  OBVIOUS
<1>3. PICK m : m = Over(k, row)
  OBVIOUS
<1>4. PICK new : new = Over(l, m)
  OBVIOUS
<1>5. DOMAIN l = {"scope", "from", "to", "user", "group", "eligible"}
  BY <1>1
<1>6. DOMAIN k = DOMAIN j.change \ {"eligible"} /\ \A x \in DOMAIN k : k[x] = j.change[x]
  BY <1>2 DEF Kept, Restrict
<1>7. /\ DOMAIN m = DOMAIN k \cup DOMAIN row
      /\ \A x \in DOMAIN k : m[x] = k[x]
      /\ \A x \in DOMAIN row : x \notin DOMAIN k => m[x] = row[x]
  BY <1>3 DEF Over
<1>8. /\ DOMAIN new = DOMAIN l \cup DOMAIN m
      /\ \A x \in DOMAIN l : new[x] = l[x]
      /\ \A x \in DOMAIN m : x \notin DOMAIN l => new[x] = m[x]
  BY <1>4 DEF Over
<1>9. /\ DOMAIN j.change \subseteq DOMAIN DiscountFields
      /\ \A x \in DOMAIN j.change : j.change[x] \in DiscountFields[x]
      /\ Change(j.change, DiscountFields) /\ Typed(j.row, DiscountFields)
  BY DEF JobSound, Change, DiscountSound
<1>10. /\ DOMAIN DiscountFields \cup {"live", "used", "deleted"} \subseteq DOMAIN row
       /\ Typed(row, DiscountFields) /\ row.used \in Nat /\ row.deleted \in BOOLEAN /\ row.live = TRUE
  BY DEF DiscountSound
<1>11. \A x \in {"live", "used", "deleted"} : x \notin DOMAIN DiscountFields /\ x \notin DOMAIN l
  BY <1>5 DEF DiscountFields
<1>12. \A x \in {"live", "used", "deleted"} : new[x] = row[x]
  BY <1>6, <1>7, <1>8, <1>9, <1>10, <1>11
<1>13. new.live = TRUE /\ new.used = row.used /\ new.deleted = row.deleted
  BY <1>10, <1>12
<1>14. \A x \in DOMAIN l : l[x] \in DiscountFields[x]
  <2>1. \A x \in DOMAIN DiscountFields : Now(j, x) \in DiscountFields[x]
    BY <1>9, NowTyped
  <2>2. /\ Now(j, "scope") \in DiscountFields["scope"] /\ Now(j, "from") \in DiscountFields["from"]
        /\ Now(j, "to") \in DiscountFields["to"] /\ Now(j, "user") \in DiscountFields["user"]
        /\ Now(j, "group") \in DiscountFields["group"]
    BY <2>1 DEF DiscountFields
  <2>3. /\ ForScope(j, "user", "SINGLE_USER") \in DiscountFields["user"]
        /\ ForScope(j, "group", "USER_GROUP") \in DiscountFields["group"]
    BY <2>2 DEF ForScope, DiscountFields
  <2>4. row.eligible \in DiscountFields["eligible"] /\ {} \in DiscountFields["eligible"]
    BY <1>10 DEF Typed, DiscountFields
  <2>5. Given(j, {"eligible"}) => j.change.eligible \in DiscountFields["eligible"]
    BY <1>9 DEF Given
  <2>6. l.eligible \in DiscountFields["eligible"]
    BY <1>1, <2>4, <2>5
  <2> QED BY <1>1, <1>5, <2>2, <2>3, <2>6
<1>15. \A x \in DOMAIN DiscountFields : x \notin DOMAIN l =>
           new[x] = (IF x \in DOMAIN j.change THEN j.change[x] ELSE row[x])
  BY <1>5, <1>6, <1>7, <1>8, <1>10
<1>16. Typed(new, DiscountFields)
  BY <1>8, <1>9, <1>10, <1>14, <1>15 DEF Typed
<1>17. DOMAIN DiscountFields \cup {"live", "used", "deleted"} \subseteq DOMAIN new
  BY <1>7, <1>8, <1>10
<1>18. DiscountSound(new)
  BY <1>10, <1>13, <1>16, <1>17 DEF DiscountSound
<1>19. \A x \in {"code", "type", "value", "max"} : x \in DOMAIN DiscountFields /\ x \notin DOMAIN l
  BY <1>5 DEF DiscountFields
<1>20. /\ new.scope = l.scope /\ new.from = l.from /\ new.to = l.to
       /\ new.user = l.user /\ new.eligible = l.eligible
  BY <1>5, <1>8
<1>21. new = DiscountChanged(j, row)
  BY <1>1, <1>2, <1>3, <1>4 DEF DiscountChanged
<1> QED BY <1>1, <1>13, <1>15, <1>18, <1>19, <1>20, <1>21

LEMMA ChangedClubSound ==
    ASSUME NEW j, JobSound(j), j.kind = "club", NEW row, ClubSound(row), row.live
    PROVE  LET new == ClubChanged(j, row)
           IN  /\ ClubSound(new) /\ new.live
               /\ \A x \in {"type", "value", "tier"} :
                      new[x] = IF x \in DOMAIN j.change THEN j.change[x] ELSE row[x]
               /\ new.code = Now(j, "code")
               /\ new.renamed = (row.renamed \/ Now(j, "code") # row.code)
               /\ new.tiers = IF ~Given(j, {"tier", "tiers"}) THEN row.tiers
                              ELSE IF Now(j, "tier") = "FLAT" THEN {} ELSE Now(j, "tiers")
<1>1. PICK l : l =
        [code |-> Now(j, "code"), from |-> Now(j, "from"), to |-> Now(j, "to"),
         renamed |-> row.renamed \/ Now(j, "code") # row.code,
         tiers |-> IF ~Given(j, {"tier", "tiers"}) THEN row.tiers
                   ELSE IF Now(j, "tier") = "FLAT" THEN {} ELSE Now(j, "tiers")]
  OBVIOUS
<1>2. PICK m : m = Over(j.change, row)
  OBVIOUS
<1>3. PICK new : new = Over(l, m)
  OBVIOUS
<1>4. DOMAIN l = {"code", "from", "to", "renamed", "tiers"}
  BY <1>1
<1>5. /\ DOMAIN m = DOMAIN j.change \cup DOMAIN row
      /\ \A x \in DOMAIN j.change : m[x] = j.change[x]
      /\ \A x \in DOMAIN row : x \notin DOMAIN j.change => m[x] = row[x]
  BY <1>2 DEF Over
<1>6. /\ DOMAIN new = DOMAIN l \cup DOMAIN m
      /\ \A x \in DOMAIN l : new[x] = l[x]
      /\ \A x \in DOMAIN m : x \notin DOMAIN l => new[x] = m[x]
  BY <1>3 DEF Over
<1>7. /\ DOMAIN j.change \subseteq DOMAIN ClubFields
      /\ \A x \in DOMAIN j.change : j.change[x] \in ClubFields[x]
      /\ Change(j.change, ClubFields) /\ Typed(j.row, ClubFields)
  BY DEF JobSound, Change, ClubSound
<1>8. /\ DOMAIN ClubFields \cup {"live", "renamed"} \subseteq DOMAIN row
      /\ Typed(row, ClubFields) /\ row.renamed \in BOOLEAN /\ row.live = TRUE
  BY DEF ClubSound
<1>9. "live" \notin DOMAIN ClubFields /\ "live" \notin DOMAIN l
  BY <1>4 DEF ClubFields
<1>10. new.live = TRUE
  BY <1>5, <1>6, <1>7, <1>8, <1>9
<1>11. new.renamed = (row.renamed \/ Now(j, "code") # row.code)
  BY <1>1, <1>4, <1>6
<1>12. \A x \in {"code", "from", "to", "tiers"} : l[x] \in ClubFields[x]
  <2>1. \A x \in DOMAIN ClubFields : Now(j, x) \in ClubFields[x]
    BY <1>7, NowTyped
  <2>2. /\ Now(j, "code") \in ClubFields["code"] /\ Now(j, "from") \in ClubFields["from"]
        /\ Now(j, "to") \in ClubFields["to"] /\ Now(j, "tiers") \in ClubFields["tiers"]
    BY <2>1 DEF ClubFields
  <2>3. row.tiers \in ClubFields["tiers"]
    BY <1>8 DEF Typed, ClubFields
  <2>4. {} \in ClubFields["tiers"]
    BY FS_EmptySet DEF ClubFields
  <2>5. l.tiers \in ClubFields["tiers"]
    BY <1>1, <2>2, <2>3, <2>4
  <2> QED BY <1>1, <2>2, <2>5
<1>13. \A x \in DOMAIN ClubFields : x \notin DOMAIN l =>
           new[x] = (IF x \in DOMAIN j.change THEN j.change[x] ELSE row[x])
  BY <1>5, <1>6, <1>8
<1>14. \A x \in DOMAIN ClubFields : x \in DOMAIN l => x \in {"code", "from", "to", "tiers"}
  BY <1>4 DEF ClubFields
<1>15. Typed(new, ClubFields)
  BY <1>6, <1>7, <1>8, <1>12, <1>13, <1>14 DEF Typed
<1>16. DOMAIN ClubFields \cup {"live", "renamed"} \subseteq DOMAIN new
  BY <1>5, <1>6, <1>8
<1>17. new.renamed \in BOOLEAN /\ new.live \in BOOLEAN
  BY <1>10, <1>11
<1>18. ClubSound(new)
  BY <1>15, <1>16, <1>17 DEF ClubSound
<1>19. \A x \in {"type", "value", "tier"} : x \in DOMAIN ClubFields /\ x \notin DOMAIN l
  BY <1>4 DEF ClubFields
<1>20. new.code = l.code /\ new.tiers = l.tiers
  BY <1>4, <1>6
<1>21. new = ClubChanged(j, row)
  BY <1>1, <1>2, <1>3 DEF ClubChanged
<1> QED BY <1>1, <1>10, <1>11, <1>13, <1>18, <1>19, <1>20, <1>21

LEMMA ChangedReferralSound ==
    ASSUME NEW j, JobSound(j), j.kind = "referral", NEW row, ReferralSound(row), row.live
    PROVE  LET new == Over(j.change, row)
           IN  /\ ReferralSound(new) /\ new.live /\ new.code = row.code
               /\ \A x \in {"discount", "cashback"} :
                      new[x] = IF x \in DOMAIN j.change THEN j.change[x] ELSE row[x]
<1>1. PICK new : new = Over(j.change, row)
  OBVIOUS
<1>2. /\ DOMAIN new = DOMAIN j.change \cup DOMAIN row
      /\ \A x \in DOMAIN j.change : new[x] = j.change[x]
      /\ \A x \in DOMAIN row : x \notin DOMAIN j.change => new[x] = row[x]
  BY <1>1 DEF Over
<1>3. /\ DOMAIN j.change \subseteq DOMAIN ReferralFields /\ "code" \notin DOMAIN j.change
      /\ \A x \in DOMAIN j.change : j.change[x] \in ReferralFields[x]
  BY DEF JobSound, Change
<1>4. /\ DOMAIN ReferralFields \cup {"live", "deleted"} \subseteq DOMAIN row
      /\ Typed(row, ReferralFields) /\ row.deleted \in BOOLEAN /\ row.live = TRUE
  BY DEF ReferralSound
<1>5. \A x \in {"live", "deleted"} : x \notin DOMAIN ReferralFields
  BY DEF ReferralFields
<1>6. new.live = TRUE /\ new.deleted = row.deleted
  BY <1>2, <1>3, <1>4, <1>5
<1>7. \A x \in DOMAIN ReferralFields : new[x] = (IF x \in DOMAIN j.change THEN j.change[x] ELSE row[x])
  BY <1>2, <1>4
<1>8. Typed(new, ReferralFields)
  BY <1>3, <1>4, <1>7 DEF Typed
<1>9. DOMAIN ReferralFields \cup {"live", "deleted"} \subseteq DOMAIN new
  BY <1>2, <1>4
<1>10. new.live \in BOOLEAN /\ new.deleted \in BOOLEAN
  BY <1>4, <1>6
<1>11. ReferralSound(new)
  BY <1>8, <1>9, <1>10 DEF ReferralSound
<1>12. \A x \in {"code", "discount", "cashback"} : x \in DOMAIN ReferralFields
  BY DEF ReferralFields
<1> QED BY <1>1, <1>3, <1>6, <1>7, <1>11, <1>12

--------------------------------------------------------------------------------
(* Prices.                                                                 *)

LEMMA CountsFinite ==
    ASSUME NEW b
    PROVE  /\ IsFiniteSet(OrdersOf(b))
           /\ \A i : /\ ReferralUses(i, b) \in Nat /\ OnlineUses(i, b) \in Nat
                     /\ IsFiniteSet({o \in OrdersOf(b) : order[o].by = "referral" /\ order[o].id = i})
<1>1. IsFiniteSet(OrdersOf(b))
  BY AmountsAssumption, FS_Subset DEF OrdersOf
<1>2. ASSUME NEW i
      PROVE  /\ ReferralUses(i, b) \in Nat /\ OnlineUses(i, b) \in Nat
             /\ IsFiniteSet({o \in OrdersOf(b) : order[o].by = "referral" /\ order[o].id = i})
  <2>1. IsFiniteSet({o \in OrdersOf(b) : order[o].by = "referral" /\ order[o].id = i})
    BY <1>1, FS_Subset
  <2>2. IsFiniteSet({o \in OrdersOf(b) : order[o].by = "club" /\ order[o].id = i})
    BY <1>1, FS_Subset
  <2> QED BY <2>1, <2>2, FS_CardinalityType DEF ReferralUses, OnlineUses
<1> QED BY <1>1, <1>2

LEMMA DiscountWithin ==
    ASSUME NEW row, DiscountSound(row), row.live, NEW cents \in Nat
    PROVE  DiscountCents(row, cents) \in 0..cents
<1>1. row.value \in Int
  BY DEF DiscountSound, Typed, DiscountFields
<1>2. Share(row.value, cents) \in Int
  BY <1>1, ShareIsInt
<1>3. PICK x \in Int : x = (IF row.type = "PERCENT" THEN Share(row.value, cents) ELSE 100 * row.value)
  BY <1>1, <1>2
<1>4. Clamped(x, cents) \in 0..cents
  BY ClampedWithin
<1> QED BY <1>3, <1>4 DEF DiscountCents

LEMMA ClubWithin ==
    ASSUME NEW row, ClubSound(row), row.live, NEW cents \in Nat, NEW uses \in Nat
    PROVE  ClubCents(row, cents, uses) \in 0..cents
<1>1. row.value \in Int /\ row.tiers \in SUBSET Tier /\ IsFiniteSet(row.tiers)
  <2>1. row.value \in ClubFields["value"] /\ row.tiers \in ClubFields["tiers"]
    BY DEF ClubSound, Typed, ClubFields
  <2> QED BY <2>1 DEF ClubFields
<1>2. PICK reached : reached = {t \in row.tiers : 100 * t.at <= cents}
  OBVIOUS
<1>3. PICK steps : steps = IF row.tier = "USAGE_STEPPED" THEN {t \in row.tiers : t.at = uses + 1}
                           ELSE {t \in reached : \A u \in reached : u.at <= t.at}
  OBVIOUS
<1>4. steps \in SUBSET row.tiers /\ IsFiniteSet(steps)
  <2>1. steps \in SUBSET row.tiers
    BY <1>2, <1>3
  <2> QED BY <1>1, <2>1, FS_Subset
<1>5. PICK values : values = {t.value : t \in steps}
  OBVIOUS
<1>6. IsFiniteSet(values)
  <2>1. PICK v : v = [t \in steps |-> t.value]
    OBVIOUS
  <2>2. v \in Surjection(steps, values)
    BY <1>5, <2>1 DEF Surjection
  <2> QED BY <1>4, <2>2, FS_Surjection
<1>7. values \cup {0} \in SUBSET Int
  BY <1>1, <1>4, <1>5 DEF Tier
<1>8. IsFiniteSet(values \cup {0})
  BY <1>6, FS_AddElement
<1>9. Max(values \cup {0}) \in Int
  <2>1. PICK all \in SUBSET Int : all = values \cup {0}
    BY <1>7
  <2>2. Max(all) \in all
    BY <1>8, <2>1, MaxIsMember
  <2> QED BY <2>1, <2>2
<1>10. Rate(row, cents, uses) = IF row.tier = "FLAT" THEN row.value ELSE Max(values \cup {0})
  BY <1>2, <1>3, <1>5 DEF Rate
<1>11. PICK rate \in Int : rate = Rate(row, cents, uses)
  BY <1>1, <1>9, <1>10
<1>12. Share(rate, cents) \in Int
  BY ShareIsInt
<1>13. PICK x \in Int : x = (IF row.type = "PERCENT" THEN Share(rate, cents) ELSE 100 * rate)
  BY <1>12
<1>14. Clamped(x, cents) \in 0..cents
  BY ClampedWithin
<1> QED BY <1>11, <1>13, <1>14 DEF ClubCents

(* What a pricing may come to.                                             *)
ShopPrice(p, b, cents) ==
    p.by = "shop" /\ p.id \in Discounts /\ discount[p.id].live /\ p.cents = DiscountCents(discount[p.id], cents)
ClubPrice(p, b, cents) ==
    p.by = "club" /\ p.id \in Clubs /\ club[p.id].live
    /\ p.cents = ClubCents(club[p.id], cents, ClubUses(p.id, b))
ReferralPrice(p, b, cents) ==
    p.by = "referral" /\ p.id \in Referrals /\ referral[p.id].live
    /\ p.cents = Share(referral[p.id].discount, cents) /\ ReferralUses(p.id, b) < MaxReferralUses
WelcomePrice(p, b, cents) ==
    p.by = "welcome" /\ p.id \in DOMAIN WelcomeTiers /\ p.cents = Share(WelcomeTiers[p.id], cents)
NoPrice(p) == p.by = "none" /\ p.cents = 0
Outcome(p, b, cents) ==
    \/ ShopPrice(p, b, cents) \/ ClubPrice(p, b, cents) \/ ReferralPrice(p, b, cents)
    \/ WelcomePrice(p, b, cents) \/ NoPrice(p)

LEMMA ElsewhereOutcome ==
    ASSUME Shapes, NEW b, NEW c, NEW cents
    PROVE  \/ Elsewhere(b, c, cents) = Refused
           \/ Elsewhere(b, c, cents).ok = TRUE /\ Outcome(Elsewhere(b, c, cents), b, cents)
<1>1. CASE WithCode(club, c) # {}
  <2>1. PICK i : i = CHOOSE x \in WithCode(club, c) : TRUE
    OBVIOUS
  <2>2. i \in WithCode(club, c)
    BY <1>1, <2>1
  <2>3. i \in Clubs /\ club[i].live
    BY <2>2 DEF WithCode, Live, Shapes, ClubsSound
  <2>4. Elsewhere(b, c, cents) = ByClub(i, b, cents)
    BY <1>1, <2>1 DEF Elsewhere
  <2> QED BY <2>3, <2>4 DEF ByClub, Result, Outcome, ClubPrice
<1>2. CASE WithCode(club, c) = {} /\ WithCode(referral, c) # {}
  <2>1. PICK i : i = CHOOSE x \in WithCode(referral, c) : TRUE
    OBVIOUS
  <2>2. i \in WithCode(referral, c)
    BY <1>2, <2>1
  <2>3. i \in Referrals /\ referral[i].live
    BY <2>2 DEF WithCode, Live, Shapes, ReferralsSound
  <2>4. Elsewhere(b, c, cents) = ByReferral(i, b, cents)
    BY <1>2, <2>1 DEF Elsewhere
  <2> QED BY <2>3, <2>4 DEF ByReferral, Result, Outcome, ReferralPrice
<1>3. CASE WithCode(club, c) = {} /\ WithCode(referral, c) = {}
  BY <1>3 DEF Elsewhere
<1> QED BY <1>1, <1>2, <1>3

LEMMA WelcomeOutcome ==
    ASSUME NEW b, NEW cents
    PROVE  Welcome(b, cents).ok = TRUE /\ Outcome(Welcome(b, cents), b, cents)
BY DEF Welcome, Result, Outcome, WelcomePrice, NoPrice

LEMMA PricedOutcome ==
    ASSUME Shapes, NEW b, NEW c, NEW cents
    PROVE  \/ Priced(b, c, cents) = Refused
           \/ Priced(b, c, cents).ok = TRUE /\ Outcome(Priced(b, c, cents), b, cents)
<1>1. CASE c = None
  BY <1>1, WelcomeOutcome DEF Priced
<1>2. CASE c # None /\ WithCode(discount, c) # {}
  <2>1. PICK i : i = CHOOSE x \in WithCode(discount, c) : TRUE
    OBVIOUS
  <2>2. i \in WithCode(discount, c)
    BY <1>2, <2>1
  <2>3. i \in Discounts /\ discount[i].live
    BY <2>2 DEF WithCode, Live, Shapes, DiscountsSound
  <2>4. Priced(b, c, cents) = IF Admits(discount[i], b, cents)
                              THEN Result(DiscountCents(discount[i], cents), "shop", i) ELSE Refused
    BY <1>2, <2>1 DEF Priced
  <2> QED BY <2>3, <2>4 DEF Result, Outcome, ShopPrice
<1>3. CASE c # None /\ WithCode(discount, c) = {}
  <2>1. Priced(b, c, cents) = Elsewhere(b, c, cents)
    BY <1>3 DEF Priced
  <2> QED BY <2>1, ElsewhereOutcome
<1> QED BY <1>1, <1>2, <1>3

--------------------------------------------------------------------------------
(* The preview.                                                            *)

(* Both ways to put the conditions on a shop code.                         *)
LEMMA SameConditions ==
    ASSUME Counters, NEW row, DiscountSound(row), row.live, NEW b \in Buyers, NEW cents \in Nat
    PROVE  Admits(row, b, cents) <=> ~PreviewBars(row, b, cents)
<1>1. /\ row.from \in Int /\ row.to \in Int /\ row.min \in Nat \cup {None} /\ row.max \in Nat \cup {None}
      /\ row.active \in BOOLEAN /\ row.deleted \in BOOLEAN /\ row.used \in Nat
      /\ row.user \in Buyers \cup {None}
  BY DEF DiscountSound, Typed, DiscountFields
<1>2. now \in Int
  BY AmountsAssumption DEF Counters
<1>3. Open(row) <=> row.active /\ ~(now < row.from) /\ ~(now > row.to)
  BY <1>1, <1>2 DEF Open
<1>4. (row.max # None => row.used < row.max) <=> ~(row.max # None /\ row.used >= row.max)
  BY <1>1, NoneAssumption
<1>5. (row.min # None => cents >= 100 * row.min) <=> ~(row.min # None /\ cents < 100 * row.min)
  BY <1>1, NoneAssumption
<1>6. (row.scope = "SINGLE_USER" /\ row.user # None => row.user = b)
          <=> ~(row.scope = "SINGLE_USER" /\ row.user \notin {None, b})
  BY <1>1
<1> QED BY <1>3, <1>4, <1>5, <1>6 DEF Admits, PreviewBars

LEMMA SameShipping ==
    ASSUME Counters, NEW b \in Buyers, NEW cents \in Nat
    PROVE  Shipping(b, cents) =
             IF (FreeFrom > 0 /\ cents >= FreeFrom) \/ grant[b] > 0 THEN 0 ELSE ShippingPrice
BY AmountsAssumption DEF Shipping, FreeByThreshold, UsesGrant, Counters

LEMMA PreviewHolds ==
    ASSUME Shapes, Unique(discount)
    PROVE  PreviewAgrees
<1> SUFFICES ASSUME NEW b \in Buyers, NEW c \in Codes \cup {None}, NEW s \in Subtotals \cup {FreeFrom}
             PROVE  Preview(b, c, s) = IF Priced(b, c, s).ok
                        THEN [ok |-> TRUE, cents |-> Priced(b, c, s).cents, shipping |-> Shipping(b, s)]
                        ELSE Refused
  BY DEF PreviewAgrees
<1>1. s \in Nat
  BY AmountsAssumption
<1>2. PICK free \in BOOLEAN : free = ((FreeFrom > 0 /\ s >= FreeFrom) \/ grant[b] > 0)
  OBVIOUS
<1>3. Shipping(b, s) = IF free THEN 0 ELSE ShippingPrice
  BY <1>1, <1>2, SameShipping DEF Shapes
<1>4. CASE WithCode(discount, c) = {}
  <2>1. PICK other : other = IF c = None THEN Welcome(b, s) ELSE Elsewhere(b, c, s)
    OBVIOUS
  <2>2. Priced(b, c, s) = other
    BY <1>4, <2>1 DEF Priced
  <2>3. Preview(b, c, s) = IF ~other.ok THEN Refused
            ELSE [ok |-> TRUE, shipping |-> IF free THEN 0 ELSE ShippingPrice, cents |-> other.cents]
    BY <1>2, <1>4, <2>1 DEF Preview
  <2> QED BY <1>3, <2>2, <2>3
<1>5. CASE WithCode(discount, c) # {}
  <2>1. PICK i : i = CHOOSE x \in WithCode(discount, c) : TRUE
    OBVIOUS
  <2>2. i \in WithCode(discount, c)
    BY <1>5, <2>1
  <2>3. i \in Discounts /\ discount[i].live /\ discount[i].code = c
    BY <2>2 DEF WithCode, Live, Shapes, DiscountsSound
  <2>4. WithCode(discount, c) = {i}
    BY <2>2, <2>3 DEF Unique, CodeFree, WithCode
  <2>5. DiscountSound(discount[i]) /\ discount[i].code \in Codes
    BY <2>3 DEF Shapes, DiscountsSound, DiscountSound, Typed, DiscountFields
  <2>6. c # None
    BY <2>3, <2>5, NoneAssumption
  <2>7. PICK row : row = discount[i]
    OBVIOUS
  <2>8. DiscountCents(row, s) \in 0..s
    BY <1>1, <2>3, <2>5, <2>7, DiscountWithin
  <2>9. Max({DiscountCents(row, s)}) = DiscountCents(row, s)
    <3>1. PICK n \in Int : n = DiscountCents(row, s)
      BY <1>1, <2>8
    <3>2. Max({n, n}) \in {n, n}
      BY MaxOfTwo
    <3> QED BY <3>1, <3>2
  <2>10. {discount[k] : k \in WithCode(discount, c)} = {row}
    BY <2>4, <2>7
  <2>11. Preview(b, c, s) = IF PreviewBars(row, b, s) THEN Refused
            ELSE [ok |-> TRUE, shipping |-> IF free THEN 0 ELSE ShippingPrice,
                  cents |-> Max({DiscountCents(row, s)})]
    <3>1. {DiscountCents(r, s) : r \in {row}} = {DiscountCents(row, s)}
      OBVIOUS
    <3>2. PICK shop : shop = {discount[k] : k \in WithCode(discount, c)}
      OBVIOUS
    <3>3. shop = {row}
      BY <2>10, <3>2
    <3>4. (\A r \in shop : ~PreviewBars(r, b, s)) <=> ~PreviewBars(row, b, s)
      BY <3>3
    <3> QED BY <1>2, <2>10, <3>1, <3>2, <3>3, <3>4 DEF Preview
  <2>12. Priced(b, c, s) = IF Admits(row, b, s) THEN Result(DiscountCents(row, s), "shop", i) ELSE Refused
    BY <1>5, <2>1, <2>6, <2>7 DEF Priced
  <2>13. Admits(row, b, s) <=> ~PreviewBars(row, b, s)
    BY <1>1, <2>3, <2>5, <2>7, SameConditions DEF Shapes
  <2>14. Refused.ok = FALSE /\ Result(DiscountCents(row, s), "shop", i).ok = TRUE
         /\ Result(DiscountCents(row, s), "shop", i).cents = DiscountCents(row, s)
    BY DEF Refused, Result
  <2>15. CASE Admits(row, b, s)
    BY <1>3, <2>9, <2>11, <2>12, <2>13, <2>14, <2>15
  <2>16. CASE ~Admits(row, b, s)
    BY <2>11, <2>12, <2>13, <2>14, <2>16
  <2> QED BY <2>15, <2>16
<1> QED BY <1>4, <1>5

--------------------------------------------------------------------------------
(* Writing one row, one order or one job.                                  *)

LEMMA DiscountWrite ==
    ASSUME DiscountsSound, NEW i \in Discounts, NEW row, DiscountSound(row), row.live,
           discount' = [discount EXCEPT ![i] = row]
    PROVE  /\ DiscountsSound' /\ discount'[i] = row
           /\ \A k \in Discounts \ {i} : discount'[k] = discount[k]
           /\ \A k \in Discounts : discount[k].live => discount'[k].live
<1>1. discount'[i] = row /\ \A k \in Discounts \ {i} : discount'[k] = discount[k]
  BY DEF DiscountsSound
<1>2. discount' = [k \in Discounts |-> discount'[k]]
  BY DEF DiscountsSound
<1> QED BY <1>1, <1>2 DEF DiscountsSound

LEMMA ClubWrite ==
    ASSUME ClubsSound, NEW i \in Clubs, NEW row, ClubSound(row), row.live,
           club' = [club EXCEPT ![i] = row]
    PROVE  /\ ClubsSound' /\ club'[i] = row
           /\ \A k \in Clubs \ {i} : club'[k] = club[k]
           /\ \A k \in Clubs : club[k].live => club'[k].live
<1>1. club'[i] = row /\ \A k \in Clubs \ {i} : club'[k] = club[k]
  BY DEF ClubsSound
<1>2. club' = [k \in Clubs |-> club'[k]]
  BY DEF ClubsSound
<1> QED BY <1>1, <1>2 DEF ClubsSound

LEMMA ReferralWrite ==
    ASSUME ReferralsSound, NEW i \in Referrals, NEW row, ReferralSound(row), row.live,
           referral' = [referral EXCEPT ![i] = row]
    PROVE  /\ ReferralsSound' /\ referral'[i] = row
           /\ \A k \in Referrals \ {i} : referral'[k] = referral[k]
           /\ \A k \in Referrals : referral[k].live => referral'[k].live
<1>1. referral'[i] = row /\ \A k \in Referrals \ {i} : referral'[k] = referral[k]
  BY DEF ReferralsSound
<1>2. referral' = [k \in Referrals |-> referral'[k]]
  BY DEF ReferralsSound
<1> QED BY <1>1, <1>2 DEF ReferralsSound

LEMMA OrderWrite ==
    ASSUME OrdersSound, NEW o \in Orders, NEW w, OrderSound(w), order' = [order EXCEPT ![o] = w]
    PROVE  /\ OrdersSound' /\ order'[o] = w
           /\ \A p \in Orders \ {o} : order'[p] = order[p]
<1>1. order'[o] = w /\ \A p \in Orders \ {o} : order'[p] = order[p]
  BY DEF OrdersSound
<1>2. order' = [p \in Orders |-> order'[p]]
  BY DEF OrdersSound
<1> QED BY <1>1, <1>2 DEF OrdersSound

LEMMA JobWrite ==
    ASSUME JobsSound, NEW r \in Workers, NEW w, JobSound(w), job' = [job EXCEPT ![r] = w]
    PROVE  /\ JobsSound' /\ job'[r] = w
           /\ \A q \in Workers \ {r} : job'[q] = job[q]
<1>1. job'[r] = w /\ \A q \in Workers \ {r} : job'[q] = job[q]
  BY DEF JobsSound
<1>2. job' = [q \in Workers |-> job'[q]]
  BY DEF JobsSound
<1> QED BY <1>1, <1>2 DEF JobsSound

LEMMA IdleSound == JobSound(Idle) /\ Linked(Idle) /\ Idle.kind = "idle"
BY DEF JobSound, Linked, Idle

RowsStayLive ==
    /\ \A k \in Discounts : discount[k].live => discount'[k].live
    /\ \A k \in Clubs : club[k].live => club'[k].live
    /\ \A k \in Referrals : referral[k].live => referral'[k].live

LEMMA LinksStay ==
    ASSUME Shapes, RowsStayLive,
           \A q \in Workers : job'[q] = job[q] \/ job'[q].kind = "idle" \/ Linked(job[q])'
    PROVE  JobsLinked'
<1> SUFFICES ASSUME NEW q \in Workers PROVE Linked(job[q])'
  BY DEF JobsLinked
<1>1. CASE job'[q] = job[q]
  BY <1>1 DEF Shapes, JobsSound, JobSound, PriceSound, JobsLinked, Linked, RowsStayLive
<1>2. CASE job'[q].kind = "idle"
  BY <1>2 DEF Linked
<1> QED BY <1>1, <1>2

LEMMA LimitIsNat ==
    ASSUME NEW row, DiscountSound(row)
    PROVE  Limit(row) \in Nat
<1>1. Cardinality(Orders) \in Nat
  BY AmountsAssumption, FS_CardinalityType
<1>2. row.live => row.max \in Nat \cup {None}
  BY DEF DiscountSound, Typed, DiscountFields
<1>3. row.live \in BOOLEAN
  BY DEF DiscountSound
<1> QED BY <1>1, <1>2, <1>3 DEF Limit

LEMMA RaisedPeak ==
    ASSUME peak \in [Discounts -> Nat], NEW i \in Discounts, NEW row, DiscountSound(row), peak' = Raised(i, row)
    PROVE  /\ peak' \in [Discounts -> Nat] /\ peak'[i] >= peak[i] /\ peak'[i] >= Limit(row)
           /\ \A k \in Discounts \ {i} : peak'[k] = peak[k]
<1>1. peak[i] \in Int /\ Limit(row) \in Int /\ peak[i] \in Nat /\ Limit(row) \in Nat
  BY LimitIsNat
<1>2. PICK a \in Nat : a = peak[i]
  BY <1>1
<1>3. PICK b \in Nat : b = Limit(row)
  BY <1>1
<1>4. Max({a, b}) \in {a, b} /\ Max({a, b}) >= a /\ Max({a, b}) >= b
  BY MaxOfTwo
<1>5. PICK m : m = Max({a, b})
  OBVIOUS
<1>6. peak' = [peak EXCEPT ![i] = m]
  BY <1>2, <1>3, <1>5 DEF Raised
<1>7. m \in Nat /\ m >= a /\ m >= b
  BY <1>4, <1>5
<1>8. peak'[i] = m /\ \A k \in Discounts \ {i} : peak'[k] = peak[k]
  BY <1>6
<1>9. peak' \in [Discounts -> Nat]
  BY <1>6, <1>7
<1> QED BY <1>2, <1>3, <1>7, <1>8, <1>9

(* Only one row changes, and its code is free or stays.                    *)
LEMMA UniqueStays ==
    ASSUME DiscountsSound, DiscountsSound', Unique(discount), NEW i \in Discounts,
           \A k \in Discounts \ {i} : discount'[k] = discount[k],
           \/ CodeFree(discount, i, discount'[i].code)
           \/ discount[i].live /\ discount'[i].code = discount[i].code
    PROVE  Unique(discount)'
<1>1. DOMAIN discount = Discounts /\ DOMAIN discount' = Discounts
  BY DEF DiscountsSound
<1>2. CodeFree(discount, i, discount'[i].code)
  BY <1>1 DEF Unique, CodeFree, Live
<1>3. \A k \in Discounts \ {i} : discount[k].live => discount[k].code # discount'[i].code
  BY <1>1, <1>2 DEF CodeFree, WithCode, Live
<1>4. \A k, l \in Discounts : discount[k].live /\ discount[l].live /\ discount[k].code = discount[l].code => k = l
  BY <1>1 DEF Unique, CodeFree, WithCode, Live
<1>5. \A k, l \in Discounts : discount'[k].live /\ discount'[l].live /\ discount'[k].code = discount'[l].code => k = l
  BY <1>3, <1>4
<1> QED BY <1>1, <1>5 DEF Unique, CodeFree, WithCode, Live

(* Rows keep their codes.                                                  *)
LEMMA UniqueKept ==
    ASSUME DiscountsSound, DiscountsSound', Unique(discount),
           \A k \in Discounts : discount'[k].live = discount[k].live
                                /\ (discount[k].live => discount'[k].code = discount[k].code)
    PROVE  Unique(discount)'
<1>1. DOMAIN discount = Discounts /\ DOMAIN discount' = Discounts
  BY DEF DiscountsSound
<1> QED BY <1>1 DEF Unique, CodeFree, WithCode, Live

CodesApart == Shapes /\ Unique(discount)

--------------------------------------------------------------------------------
(* Every step keeps rows and jobs well-formed and codes apart.             *)

LEMMA PriceOfCheckout ==
    ASSUME Shapes, NEW p, NEW b, NEW cents, Outcome(p, b, cents)
    PROVE  /\ PriceSound(p)
           /\ p.by = "shop" => discount[p.id].live /\ discount[p.id].max \in Nat \cup {None}
           /\ p.by = "referral" => p.id \in Referrals /\ ReferralUses(p.id, b) < MaxReferralUses
<1>1. PriceSound(p)
  BY DEF Outcome, ShopPrice, ClubPrice, ReferralPrice, WelcomePrice, NoPrice, PriceSound
<1>2. p.by = "shop" => p.id \in Discounts /\ discount[p.id].live
  BY DEF Outcome, ShopPrice, ClubPrice, ReferralPrice, WelcomePrice, NoPrice
<1>3. p.by = "shop" => discount[p.id].max \in Nat \cup {None}
  BY <1>2 DEF Shapes, DiscountsSound, DiscountSound, Typed, DiscountFields
<1>4. p.by = "referral" => p.id \in Referrals /\ ReferralUses(p.id, b) < MaxReferralUses
  BY DEF Outcome, ShopPrice, ClubPrice, ReferralPrice, WelcomePrice, NoPrice
<1> QED BY <1>1, <1>2, <1>3, <1>4

LEMMA CheckoutBegins ==
    ASSUME CodesApart, NEW r \in Requests, NEW b \in Buyers, NEW c \in Codes \cup {None},
           NEW cents \in Subtotals, BeginCheckout(r, b, c, cents)
    PROVE  CodesApart'
<1>1. PICK p : p = Priced(b, c, cents)
  OBVIOUS
<1>2. p.ok = TRUE /\ Outcome(p, b, cents)
  <2>1. p.ok
    BY <1>1 DEF BeginCheckout
  <2>2. p = Refused \/ (p.ok = TRUE /\ Outcome(p, b, cents))
    BY <1>1, PricedOutcome DEF CodesApart
  <2> QED BY <2>1, <2>2 DEF Refused
<1>3. /\ PriceSound(p)
      /\ p.by = "shop" => discount[p.id].live /\ discount[p.id].max \in Nat \cup {None}
  BY <1>2, PriceOfCheckout DEF CodesApart
<1>4. PICK w : w = [kind |-> "checkout", buyer |-> b, code |-> c, cents |-> cents, price |-> p,
                    max |-> IF p.by = "shop" THEN discount[p.id].max ELSE None,
                    grant |-> UsesGrant(b, cents), shipping |-> Shipping(b, cents),
                    seen |-> SeenUses(p, b)]
  OBVIOUS
<1>5. Shipping(b, cents) \in Nat /\ UsesGrant(b, cents) \in BOOLEAN
  BY AmountsAssumption DEF Shipping, UsesGrant
<1>6. cents \in Nat
  BY AmountsAssumption
<1>7. w.max \in Nat \cup {None}
  BY <1>3, <1>4
<1>8. JobSound(w)
  BY <1>3, <1>4, <1>5, <1>6, <1>7 DEF JobSound
<1>9. job' = [job EXCEPT ![r] = w] /\ UNCHANGED <<now, rowVars, order, till, member, grant, shopSales, peak, edits>>
      /\ acts < MaxActs /\ acts' = acts + 1
  BY <1>1, <1>4 DEF BeginCheckout, Act
<1>10. r \in Workers
  BY DEF Workers
<1>11. JobsSound' /\ job'[r] = w /\ \A q \in Workers \ {r} : job'[q] = job[q]
  BY <1>8, <1>9, <1>10, JobWrite DEF CodesApart, Shapes
<1>12. Linked(job[r])'
  BY <1>3, <1>4, <1>9, <1>11 DEF Linked, rowVars
<1>13. RowsStayLive
  BY <1>9 DEF RowsStayLive, rowVars
<1>14. JobsLinked'
  BY <1>11, <1>12, <1>13, LinksStay DEF CodesApart
<1>15. Counters'
  BY <1>9, AmountsAssumption DEF CodesApart, Shapes, Counters
<1>16. DiscountsSound' /\ ClubsSound' /\ ReferralsSound' /\ OrdersSound' /\ Unique(discount)'
  BY <1>9 DEF CodesApart, Shapes, DiscountsSound, ClubsSound, ReferralsSound, OrdersSound, rowVars,
              Unique, CodeFree, WithCode, Live
<1> QED BY <1>11, <1>14, <1>15, <1>16 DEF CodesApart, Shapes

(* The order that a checkout creates, and the use it counts.               *)
Ordered(j, o) ==
    /\ order'[o].buyer = j.buyer /\ order'[o].by = j.price.by /\ order'[o].id = j.price.id
    /\ order'[o].cents = j.cents /\ order'[o].discount = j.price.cents /\ order'[o].revived = FALSE
    /\ order'[o].payable = j.cents - j.price.cents + j.shipping
    /\ \A p \in Orders \ {o} : order'[p] = order[p]
UseCounted(j) ==
    /\ j.price.by = "shop"
    /\ discount'[j.price.id].used = discount[j.price.id].used + 1
    /\ \A x \in DOMAIN DiscountFields \cup {"live"} : discount'[j.price.id][x] = discount[j.price.id][x]
    /\ \A k \in Discounts \ {j.price.id} : discount'[k] = discount[k]

LEMMA CheckoutEnds ==
    ASSUME CodesApart, NEW r \in Requests, FinishCheckout(r)
    PROVE  /\ CodesApart' /\ job' = [job EXCEPT ![r] = Idle]
           /\ job'[r] = Idle /\ \A q \in Workers \ {r} : job'[q] = job[q]
           /\ UNCHANGED <<club, referral, till, member, peak>>
           /\ \/ UNCHANGED <<order, discount, grant>>
              \/ /\ TakesUse(job[r])
                 /\ \E o \in Free : Ordered(job[r], o)
                 /\ grant' = IF job[r].grant THEN [grant EXCEPT ![job[r].buyer] = @ - 1] ELSE grant
                 /\ \/ job[r].price.by # "shop" /\ UNCHANGED discount
                    \/ UseCounted(job[r])
<1> DEFINE j == job[r]
           i == job[r].price.id
<1>1. /\ r \in Workers /\ j.kind = "checkout" /\ job' = [job EXCEPT ![r] = Idle]
      /\ UNCHANGED <<now, club, referral, till, member, shopSales, peak, acts, edits>>
  BY DEF FinishCheckout, Workers
<1>2. /\ j.buyer \in Buyers /\ PriceSound(j.price) /\ (j.price.by = "shop" => i \in Discounts /\ discount[i].live)
  BY <1>1 DEF CodesApart, Shapes, JobsSound, JobSound, JobsLinked, Linked, PriceSound
<1>3. JobsSound' /\ job'[r] = Idle /\ \A q \in Workers \ {r} : job'[q] = job[q]
  BY <1>1, IdleSound, JobWrite DEF CodesApart, Shapes
<1>4. CASE TakesUse(j)
  <2>1. PICK o : o = Min(Free)
    OBVIOUS
  <2>2. o \in Free /\ o \in Orders
    <3>1. Free \in SUBSET Nat /\ Free # {}
      BY AmountsAssumption DEF FinishCheckout, Free
    <3> QED BY <2>1, <3>1, MinIsMember DEF Free
  <2>3. PICK w : w = [buyer |-> j.buyer, code |-> j.code, by |-> j.price.by, id |-> j.price.id,
                      cents |-> j.cents, discount |-> j.price.cents, pay |-> "PENDING",
                      payable |-> j.cents - j.price.cents + j.shipping, revived |-> FALSE]
    OBVIOUS
  <2>4. /\ order' = [order EXCEPT ![o] = w]
        /\ discount' = IF j.price.by = "shop" THEN [discount EXCEPT ![i].used = @ + 1] ELSE discount
        /\ grant' = IF j.grant THEN [grant EXCEPT ![j.buyer] = @ - 1] ELSE grant
    BY <1>4, <2>1, <2>3 DEF FinishCheckout
  <2>5. OrderSound(w)
    BY <1>2, <2>3, NoneAssumption DEF OrderSound
  <2>6. OrdersSound' /\ order'[o] = w /\ \A p \in Orders \ {o} : order'[p] = order[p]
    BY <2>2, <2>4, <2>5, OrderWrite DEF CodesApart, Shapes
  <2>7. grant' \in [Buyers -> Int]
    BY <1>2, <2>4 DEF CodesApart, Shapes, Counters
  <2>7a. Ordered(j, o)
    BY <2>3, <2>6 DEF Ordered
  <2>8. CASE j.price.by = "shop"
    <3>1. PICK row : row = [discount[i] EXCEPT !.used = @ + 1]
      OBVIOUS
    <3>2. discount' = [discount EXCEPT ![i] = row]
      BY <2>4, <2>8, <3>1
    <3>3. DiscountSound(discount[i]) /\ discount[i].live /\ i \in Discounts
      BY <1>2, <2>8 DEF CodesApart, Shapes, DiscountsSound
    <3>4. \A x \in DOMAIN DiscountFields \cup {"live", "deleted"} : row[x] = discount[i][x] /\ x \in DOMAIN row
      BY <3>1, <3>3 DEF DiscountSound, DiscountFields
    <3>5. row.used = discount[i].used + 1 /\ row.live = discount[i].live /\ row.deleted = discount[i].deleted
      BY <3>1, <3>3, <3>4 DEF DiscountSound
    <3>6. DiscountSound(row) /\ row.live
      <4>1. Typed(row, DiscountFields)
        BY <3>3, <3>4 DEF DiscountSound, Typed
      <4>2. DOMAIN DiscountFields \cup {"live", "used", "deleted"} \subseteq DOMAIN row
        BY <3>1, <3>3 DEF DiscountSound
      <4>3. row.used \in Nat
        BY <3>3, <3>5 DEF DiscountSound
      <4> QED BY <3>3, <3>5, <4>1, <4>2, <4>3 DEF DiscountSound
    <3>7. /\ DiscountsSound' /\ discount'[i] = row
          /\ \A k \in Discounts \ {i} : discount'[k] = discount[k]
          /\ \A k \in Discounts : discount[k].live => discount'[k].live
      BY <3>2, <3>3, <3>6, DiscountWrite DEF CodesApart, Shapes
    <3>8. row.code = discount[i].code
      BY <3>4 DEF DiscountFields
    <3>9. Unique(discount)'
      BY <3>3, <3>7, <3>8, UniqueStays DEF CodesApart, Shapes
    <3>10. RowsStayLive
      BY <1>1, <3>7 DEF RowsStayLive
    <3>11. JobsLinked'
      BY <1>3, <3>10, IdleSound, LinksStay DEF CodesApart
    <3>12. ClubsSound' /\ ReferralsSound' /\ Counters'
      BY <1>1, <2>7 DEF CodesApart, Shapes, ClubsSound, ReferralsSound, Counters
    <3>13. CodesApart'
      BY <1>3, <2>6, <3>7, <3>9, <3>11, <3>12 DEF CodesApart, Shapes
    <3>14. UseCounted(j)
      BY <2>8, <3>4, <3>5, <3>7 DEF UseCounted
    <3> QED BY <1>1, <1>3, <1>4, <2>2, <2>4, <2>7a, <3>13, <3>14
  <2>9. CASE j.price.by # "shop"
    <3>1. UNCHANGED discount
      BY <2>4, <2>9
    <3>2. RowsStayLive
      BY <1>1, <3>1 DEF RowsStayLive
    <3>3. JobsLinked'
      BY <1>3, <3>2, IdleSound, LinksStay DEF CodesApart
    <3>4. DiscountsSound' /\ Unique(discount)' /\ ClubsSound' /\ ReferralsSound' /\ Counters'
      BY <1>1, <2>7, <3>1 DEF CodesApart, Shapes, DiscountsSound, ClubsSound, ReferralsSound, Counters,
                              Unique, CodeFree, WithCode, Live
    <3>5. CodesApart'
      BY <1>3, <2>6, <3>3, <3>4 DEF CodesApart, Shapes
    <3> QED BY <1>1, <1>3, <1>4, <2>2, <2>4, <2>7a, <2>9, <3>1, <3>5
  <2> QED BY <2>8, <2>9
<1>5. CASE ~TakesUse(j)
  <2>1. UNCHANGED <<order, discount, grant>>
    BY <1>5 DEF FinishCheckout
  <2>2. RowsStayLive
    BY <1>1, <2>1 DEF RowsStayLive
  <2>3. JobsLinked'
    BY <1>3, <2>2, IdleSound, LinksStay DEF CodesApart
  <2>4. DiscountsSound' /\ Unique(discount)' /\ ClubsSound' /\ ReferralsSound' /\ OrdersSound' /\ Counters'
    BY <1>1, <2>1 DEF CodesApart, Shapes, DiscountsSound, ClubsSound, ReferralsSound, OrdersSound, Counters,
                      Unique, CodeFree, WithCode, Live
  <2> QED BY <1>1, <1>3, <2>1, <2>3, <2>4 DEF CodesApart, Shapes
<1> QED BY <1>4, <1>5

LEMMA TillBegins ==
    ASSUME CodesApart, NEW r \in Requests, NEW b \in Buyers, NEW c, NEW cents, BeginRedeem(r, b, c, cents)
    PROVE  CodesApart'
<1>1. PICK i \in WithCode(club, c) :
          job' = [job EXCEPT ![r] = [kind |-> "till", buyer |-> b, code |-> c, id |-> i, seen |-> till[i][b]]]
  BY DEF BeginRedeem
<1>2. i \in Clubs /\ club[i].live
  BY DEF WithCode, Live, CodesApart, Shapes, ClubsSound
<1>3. PICK w : w = [kind |-> "till", buyer |-> b, code |-> c, id |-> i, seen |-> till[i][b]]
  OBVIOUS
<1>4. JobSound(w) /\ r \in Workers
  BY <1>2, <1>3 DEF JobSound, Workers
<1>5. JobsSound' /\ job'[r] = w /\ \A q \in Workers \ {r} : job'[q] = job[q]
  <2>1. JobsSound /\ job' = [job EXCEPT ![r] = w]
    BY <1>1, <1>3 DEF CodesApart, Shapes
  <2> QED BY <1>4, <2>1, JobWrite
<1>6. UNCHANGED <<now, discount, club, referral, order, till, member, grant, shopSales, peak, edits>>
      /\ acts < MaxActs /\ acts' = acts + 1
  BY DEF BeginRedeem, Act, rowVars
<1>7. Linked(job[r])'
  BY <1>2, <1>3, <1>5, <1>6 DEF Linked
<1>8. RowsStayLive
  BY <1>6 DEF RowsStayLive
<1>9. JobsLinked'
  BY <1>5, <1>7, <1>8, LinksStay DEF CodesApart
<1>10. Counters'
  BY <1>6, AmountsAssumption DEF CodesApart, Shapes, Counters
<1>11. DiscountsSound' /\ ClubsSound' /\ ReferralsSound' /\ OrdersSound' /\ Unique(discount)'
  BY <1>6 DEF CodesApart, Shapes, DiscountsSound, ClubsSound, ReferralsSound, OrdersSound,
              Unique, CodeFree, WithCode, Live
<1> QED BY <1>5, <1>9, <1>10, <1>11 DEF CodesApart, Shapes

LEMMA TillEnds ==
    ASSUME CodesApart, NEW r \in Requests, FinishRedeem(r)
    PROVE  /\ CodesApart'
           /\ job'[r] = Idle /\ \A q \in Workers \ {r} : job'[q] = job[q]
           /\ job[r].id \in Clubs /\ job[r].buyer \in Buyers /\ job[r].kind = "till"
           /\ \A i \in Clubs, b \in Buyers : i # job[r].id \/ b # job[r].buyer => till'[i][b] = till[i][b]
           /\ UNCHANGED <<now, discount, club, referral, order, member, grant, shopSales, peak>>
<1>1. r \in Workers /\ job[r].kind = "till" /\ job' = [job EXCEPT ![r] = Idle]
  BY DEF FinishRedeem, Workers
<1>2. JobsSound' /\ job'[r] = Idle /\ \A q \in Workers \ {r} : job'[q] = job[q]
  BY <1>1, IdleSound, JobWrite DEF CodesApart, Shapes
<1>3. UNCHANGED <<now, discount, club, referral, order, member, grant, shopSales, peak, acts, edits>>
  BY DEF FinishRedeem, rowVars
<1>4. PICK i \in Clubs, b \in Buyers : i = job[r].id /\ b = job[r].buyer
  BY <1>1 DEF CodesApart, Shapes, JobsSound, JobSound
<1>5. till' = [till EXCEPT ![i][b] = @ + 1] /\ till \in [Clubs -> [Buyers -> Nat]]
  BY <1>4 DEF FinishRedeem, CodesApart, Shapes, Counters
<1>6. till' \in [Clubs -> [Buyers -> Nat]] /\ \A k \in Clubs, a \in Buyers : k # i \/ a # b => till'[k][a] = till[k][a]
  BY <1>5
<1>7. RowsStayLive
  BY <1>3 DEF RowsStayLive
<1>8. JobsLinked'
  BY <1>2, <1>7, IdleSound, LinksStay DEF CodesApart
<1>9. Counters'
  BY <1>3, <1>6 DEF CodesApart, Shapes, Counters
<1>10. DiscountsSound' /\ ClubsSound' /\ ReferralsSound' /\ OrdersSound' /\ Unique(discount)'
  BY <1>3 DEF CodesApart, Shapes, DiscountsSound, ClubsSound, ReferralsSound, OrdersSound,
              Unique, CodeFree, WithCode, Live
<1>11. CodesApart'
  BY <1>2, <1>8, <1>9, <1>10 DEF CodesApart, Shapes
<1> QED BY <1>1, <1>2, <1>3, <1>4, <1>6, <1>11

(* A row gets another number of uses.                                      *)
UsesMove(i) ==
    /\ discount'[i].live = discount[i].live
    /\ discount[i].live => /\ discount'[i].used \in Nat /\ discount'[i].used <= discount[i].used + 1
                           /\ \A x \in DOMAIN DiscountFields : discount'[i][x] = discount[i][x]

LEMMA CountedRow ==
    ASSUME CodesApart, NEW o \in Orders, NEW by \in {-1, 1}, discount' = Counted(o, by)
    PROVE  /\ DiscountsSound' /\ Unique(discount)'
           /\ \A i \in Discounts : UsesMove(i) /\ (by = -1 /\ discount[i].live => discount'[i].used <= discount[i].used)
<1>1. ASSUME NEW i \in Discounts
      PROVE  /\ DiscountSound(discount'[i]) /\ UsesMove(i)
             /\ by = -1 /\ discount[i].live => discount'[i].used <= discount[i].used
  <2>1. CASE discount'[i] = discount[i]
    BY <2>1 DEF CodesApart, Shapes, DiscountsSound, DiscountSound, UsesMove
  <2>2. CASE discount'[i] # discount[i]
    <3>1. i \in WithCode(discount, order[o].code)
      BY <2>2 DEF Counted
    <3>2. discount[i].live /\ DiscountSound(discount[i])
      BY <3>1 DEF WithCode, Live, CodesApart, Shapes, DiscountsSound
    <3>3. PICK n : n = Max({0, discount[i].used + by})
      OBVIOUS
    <3>4. discount'[i] = [discount[i] EXCEPT !.used = n]
      BY <2>2, <3>3 DEF Counted
    <3>5. PICK u \in Nat : u = discount[i].used
      BY <3>2 DEF DiscountSound
    <3>6. PICK k \in Int : k = u + by
      OBVIOUS
    <3>7. Max({0, k}) \in {0, k} /\ Max({0, k}) >= 0 /\ Max({0, k}) >= k
      BY <3>6, MaxOfTwo
    <3>8. n = Max({0, k})
      BY <3>3, <3>5, <3>6
    <3>9. n \in Nat /\ n <= u + 1 /\ (by = -1 => n <= u)
      BY <3>6, <3>7, <3>8
    <3>10. DOMAIN DiscountFields \cup {"live", "used", "deleted"} \subseteq DOMAIN discount[i]
      BY <3>2 DEF DiscountSound
    <3>11. /\ DOMAIN discount'[i] = DOMAIN discount[i] /\ discount'[i].used = n
           /\ \A x \in DOMAIN discount[i] : x # "used" => discount'[i][x] = discount[i][x]
      BY <3>4, <3>10
    <3>12. \A x \in DOMAIN DiscountFields : x # "used"
      BY DEF DiscountFields
    <3>13. \A x \in DOMAIN DiscountFields : discount'[i][x] = discount[i][x]
      BY <3>10, <3>11, <3>12
    <3>14. discount'[i].live = discount[i].live /\ discount'[i].deleted = discount[i].deleted
      BY <3>10, <3>11
    <3>15. Typed(discount'[i], DiscountFields)
      BY <3>2, <3>13 DEF DiscountSound, Typed
    <3>16. DOMAIN DiscountFields \cup {"live", "used", "deleted"} \subseteq DOMAIN discount'[i]
      BY <3>10, <3>11
    <3>17. discount'[i].used \in Nat
      BY <3>9, <3>11
    <3>18. DiscountSound(discount'[i])
      BY <3>2, <3>14, <3>15, <3>16, <3>17 DEF DiscountSound
    <3> QED BY <3>5, <3>9, <3>11, <3>13, <3>14, <3>17, <3>18 DEF UsesMove
  <2> QED BY <2>1, <2>2
<1>2. discount' = [i \in Discounts |-> discount'[i]]
  BY DEF Counted
<1>3. DiscountsSound'
  BY <1>1, <1>2 DEF DiscountsSound
<1>4. \A i \in Discounts : discount[i].live => discount'[i].code = discount[i].code
  BY <1>1 DEF UsesMove, DiscountFields
<1>5. Unique(discount)'
  BY <1>1, <1>3, <1>4, UniqueKept DEF CodesApart, Shapes, UsesMove
<1> QED BY <1>1, <1>3, <1>5

(* Settlement of order o.                                                  *)
Settles(o) == Pay(o) \/ Release(o) \/ Revive(o)
LEMMA SettleStep ==
    ASSUME CodesApart, NEW o \in Orders, Settles(o)
    PROVE  /\ CodesApart'
           /\ UNCHANGED <<club, referral, till, member, grant, shopSales, job, peak>>
           /\ \A x \in {"buyer", "by", "id", "cents", "discount", "payable"} : order'[o][x] = order[o][x]
           /\ \A p \in Orders \ {o} : order'[p] = order[p]
           /\ \A i \in Discounts : UsesMove(i)
           /\ \/ /\ order'[o].revived = order[o].revived
                 /\ \A i \in Discounts : discount[i].live => discount'[i].used <= discount[i].used
              \/ ~order[o].revived /\ order'[o].revived
<1>1. OrderSound(order[o])
  BY DEF CodesApart, Shapes, OrdersSound
<1>2. UNCHANGED <<now, club, referral, till, member, grant, shopSales, job, peak, acts, edits>>
  BY DEF Settles, Pay, Release, Revive, rowVars
<1>3. ASSUME NEW w, OrderSound(w), order' = [order EXCEPT ![o] = w],
             DiscountsSound', Unique(discount)', \A i \in Discounts : UsesMove(i)
      PROVE  CodesApart' /\ order'[o] = w /\ \A p \in Orders \ {o} : order'[p] = order[p]
  <2>1. OrdersSound' /\ order'[o] = w /\ \A p \in Orders \ {o} : order'[p] = order[p]
    BY <1>3, OrderWrite DEF CodesApart, Shapes
  <2>2. RowsStayLive
    BY <1>2, <1>3 DEF RowsStayLive, UsesMove
  <2>3. JobsLinked'
    BY <1>2, <2>2, LinksStay DEF CodesApart
  <2>4. ClubsSound' /\ ReferralsSound' /\ JobsSound' /\ Counters'
    BY <1>2 DEF CodesApart, Shapes, ClubsSound, ReferralsSound, JobsSound, Counters
  <2> QED BY <1>3, <2>1, <2>3, <2>4 DEF CodesApart, Shapes
<1>4. CASE Pay(o)
  <2>1. PICK w : w = [order[o] EXCEPT !.pay = "PAID"]
    OBVIOUS
  <2>2. order' = [order EXCEPT ![o] = w] /\ UNCHANGED discount
    BY <1>4, <2>1 DEF Pay, rowVars
  <2>3. /\ \A x \in {"buyer", "by", "id", "cents", "discount", "payable", "revived"} : w[x] = order[o][x]
        /\ DOMAIN w = DOMAIN order[o] /\ w.pay = "PAID"
    BY <1>1, <2>1 DEF OrderSound
  <2>4. OrderSound(w)
    BY <1>1, <1>4, <2>3 DEF OrderSound, Pay
  <2>5. DiscountsSound' /\ Unique(discount)'
    BY <2>2 DEF CodesApart, Shapes, DiscountsSound, Unique, CodeFree, WithCode, Live
  <2>6. \A i \in Discounts : UsesMove(i) /\ (discount[i].live => discount'[i].used <= discount[i].used)
    BY <2>2 DEF UsesMove, CodesApart, Shapes, DiscountsSound, DiscountSound
  <2>7. CodesApart' /\ order'[o] = w /\ \A p \in Orders \ {o} : order'[p] = order[p]
    BY <1>3, <2>2, <2>4, <2>5, <2>6
  <2> QED BY <1>2, <2>3, <2>6, <2>7
<1>5. CASE Release(o)
  <2>1. PICK w : w = [order[o] EXCEPT !.pay = "FAILED"]
    OBVIOUS
  <2>2. order' = [order EXCEPT ![o] = w] /\ discount' = Counted(o, -1)
    BY <1>5, <2>1 DEF Release
  <2>3. /\ \A x \in {"buyer", "by", "id", "cents", "discount", "payable", "revived"} : w[x] = order[o][x]
        /\ DOMAIN w = DOMAIN order[o] /\ w.pay = "FAILED"
    BY <1>1, <2>1 DEF OrderSound
  <2>4. OrderSound(w)
    BY <1>1, <1>5, <2>3 DEF OrderSound, Release
  <2>5. /\ DiscountsSound' /\ Unique(discount)'
        /\ \A i \in Discounts : UsesMove(i) /\ (discount[i].live => discount'[i].used <= discount[i].used)
    BY <2>2, CountedRow
  <2>6. CodesApart' /\ order'[o] = w /\ \A p \in Orders \ {o} : order'[p] = order[p]
    BY <1>3, <2>2, <2>4, <2>5
  <2> QED BY <1>2, <2>3, <2>5, <2>6
<1>6. CASE Revive(o)
  <2>1. PICK w : w = [order[o] EXCEPT !.pay = "PAID", !.revived = TRUE]
    OBVIOUS
  <2>2. order' = [order EXCEPT ![o] = w] /\ discount' = Counted(o, 1)
    BY <1>1, <1>6, <2>1 DEF Revive, OrderSound
  <2>3. /\ \A x \in {"buyer", "by", "id", "cents", "discount", "payable"} : w[x] = order[o][x]
        /\ DOMAIN w = DOMAIN order[o] /\ w.pay = "PAID" /\ w.revived = TRUE
    BY <1>1, <2>1 DEF OrderSound
  <2>4. OrderSound(w)
    BY <1>1, <1>6, <2>3 DEF OrderSound, Revive
  <2>5. DiscountsSound' /\ Unique(discount)' /\ \A i \in Discounts : UsesMove(i)
    BY <2>2, CountedRow
  <2>6. CodesApart' /\ order'[o] = w /\ \A p \in Orders \ {o} : order'[p] = order[p]
    BY <1>3, <2>2, <2>4, <2>5
  <2>7. ~order[o].revived
    BY <1>1, <1>6 DEF OrderSound, Revive
  <2> QED BY <1>2, <2>3, <2>5, <2>6, <2>7
<1> QED BY <1>4, <1>5, <1>6 DEF Settles

(* What the steps of administrators and of the world leave as it was.      *)
RowManaged(i) ==
    \/ discount'[i] = discount[i]
    \/ /\ discount[i].live /\ discount'[i].live /\ discount'[i].used = discount[i].used
       /\ discount'[i].max = discount[i].max
    \/ /\ discount'[i].live /\ discount'[i].used = (IF discount[i].live THEN discount[i].used ELSE 0)
       /\ peak'[i] >= Limit(discount'[i])
ClubKept(i) ==
    club[i].live => /\ club'[i].live
                    /\ ~club'[i].renamed => ~club[i].renamed /\ club'[i].code = club[i].code
JobKept(q) == job'[q] = job[q] \/ job'[q].kind \in {"idle", "discount", "club", "referral"}
Managed ==
    /\ UNCHANGED <<order, till>>
    /\ \A i \in Discounts : RowManaged(i) /\ peak'[i] >= peak[i]
    /\ \A i \in Clubs : ClubKept(i)
    /\ \A b \in Buyers : grant'[b] >= grant[b]
    /\ \A q \in Workers : JobKept(q)

LEMMA NothingManaged ==
    ASSUME CodesApart
    PROVE  /\ UNCHANGED discount /\ UNCHANGED peak => \A i \in Discounts : RowManaged(i) /\ peak'[i] >= peak[i]
           /\ UNCHANGED club => \A i \in Clubs : ClubKept(i)
           /\ UNCHANGED grant => \A b \in Buyers : grant'[b] >= grant[b]
           /\ UNCHANGED job => \A q \in Workers : JobKept(q)
<1>1. peak \in [Discounts -> Nat] /\ grant \in [Buyers -> Int]
  BY DEF CodesApart, Shapes, Counters
<1>2. UNCHANGED peak => \A i \in Discounts : peak'[i] >= peak[i]
  BY <1>1
<1>3. UNCHANGED discount => \A i \in Discounts : RowManaged(i)
  BY DEF RowManaged
<1>4. UNCHANGED club => \A i \in Clubs : ClubKept(i)
  BY DEF ClubKept
<1>5. UNCHANGED grant => \A b \in Buyers : grant'[b] >= grant[b]
  BY <1>1
<1>6. UNCHANGED job => \A q \in Workers : JobKept(q)
  BY DEF JobKept
<1> QED BY <1>2, <1>3, <1>4, <1>5, <1>6

(* The unchanged parts of the shapes.                                      *)
LEMMA PartsStay ==
    ASSUME CodesApart
    PROVE  /\ UNCHANGED discount => DiscountsSound' /\ Unique(discount)'
           /\ UNCHANGED club => ClubsSound'
           /\ UNCHANGED referral => ReferralsSound'
           /\ UNCHANGED order => OrdersSound'
           /\ UNCHANGED job => JobsSound'
<1>1. UNCHANGED discount => DiscountsSound' /\ Unique(discount)'
  BY DEF CodesApart, Shapes, DiscountsSound, Unique, CodeFree, WithCode, Live
<1>2. UNCHANGED club => ClubsSound'
  BY DEF CodesApart, Shapes, ClubsSound
<1>3. UNCHANGED referral => ReferralsSound'
  BY DEF CodesApart, Shapes, ReferralsSound
<1>4. UNCHANGED order => OrdersSound'
  BY DEF CodesApart, Shapes, OrdersSound
<1>5. UNCHANGED job => JobsSound'
  BY DEF CodesApart, Shapes, JobsSound
<1> QED BY <1>1, <1>2, <1>3, <1>4, <1>5

(* A row of one table is written and no job changes.                       *)
LEMMA DiscountManaged ==
    ASSUME CodesApart, NEW i \in Discounts, NEW row, DiscountSound(row), row.live,
           discount' = [discount EXCEPT ![i] = row],
           CodeFree(discount, i, row.code) \/ (discount[i].live /\ row.code = discount[i].code),
           UNCHANGED <<club, referral, order, till, grant>>, Counters', JobsSound',
           \A q \in Workers : job'[q] = job[q] \/ job'[q].kind = "idle",
           \A k \in Discounts \ {i} : peak'[k] = peak[k], peak'[i] >= peak[i],
           \/ row.used = (IF discount[i].live THEN discount[i].used ELSE 0) /\ peak'[i] >= Limit(row)
           \/ discount[i].live /\ row.used = discount[i].used /\ row.max = discount[i].max
    PROVE  CodesApart' /\ Managed
<1>1. /\ DiscountsSound' /\ discount'[i] = row
      /\ \A k \in Discounts \ {i} : discount'[k] = discount[k]
      /\ \A k \in Discounts : discount[k].live => discount'[k].live
  BY DiscountWrite DEF CodesApart, Shapes
<1>2. Unique(discount)'
  BY <1>1, UniqueStays DEF CodesApart, Shapes
<1>3. RowsStayLive
  BY <1>1 DEF RowsStayLive
<1>4. JobsLinked'
  BY <1>3, LinksStay DEF CodesApart
<1>5. ClubsSound' /\ ReferralsSound' /\ OrdersSound'
  BY PartsStay
<1>6. \A k \in Discounts : RowManaged(k)
  BY <1>1 DEF RowManaged
<1>7. \A k \in Discounts : peak'[k] >= peak[k]
  BY DEF CodesApart, Shapes, Counters
<1>8. /\ \A k \in Clubs : ClubKept(k)
      /\ \A b \in Buyers : grant'[b] >= grant[b]
  BY NothingManaged
<1>9. \A q \in Workers : JobKept(q)
  BY DEF JobKept
<1>10. Managed
  BY <1>6, <1>7, <1>8, <1>9 DEF Managed
<1> QED BY <1>1, <1>2, <1>4, <1>5, <1>10 DEF CodesApart, Shapes

LEMMA ClubManaged ==
    ASSUME CodesApart, NEW i \in Clubs, NEW row, ClubSound(row), row.live,
           club' = [club EXCEPT ![i] = row],
           club[i].live => (~row.renamed => ~club[i].renamed /\ row.code = club[i].code),
           UNCHANGED <<discount, referral, order, till, grant, peak>>, Counters', JobsSound',
           \A q \in Workers : job'[q] = job[q] \/ job'[q].kind = "idle"
    PROVE  CodesApart' /\ Managed
<1>1. /\ ClubsSound' /\ club'[i] = row
      /\ \A k \in Clubs \ {i} : club'[k] = club[k]
      /\ \A k \in Clubs : club[k].live => club'[k].live
  BY ClubWrite DEF CodesApart, Shapes
<1>2. RowsStayLive
  BY <1>1 DEF RowsStayLive
<1>3. JobsLinked'
  BY <1>2, LinksStay DEF CodesApart
<1>4. DiscountsSound' /\ Unique(discount)' /\ ReferralsSound' /\ OrdersSound'
  BY PartsStay
<1>5. \A k \in Clubs : ClubKept(k)
  BY <1>1 DEF ClubKept
<1>6. /\ \A k \in Discounts : RowManaged(k) /\ peak'[k] >= peak[k]
      /\ \A b \in Buyers : grant'[b] >= grant[b]
  BY NothingManaged
<1>7. \A q \in Workers : JobKept(q)
  BY DEF JobKept
<1>8. Managed
  BY <1>5, <1>6, <1>7 DEF Managed
<1> QED BY <1>1, <1>3, <1>4, <1>8 DEF CodesApart, Shapes

LEMMA ReferralManaged ==
    ASSUME CodesApart, NEW i \in Referrals, NEW row, ReferralSound(row), row.live,
           referral' = [referral EXCEPT ![i] = row],
           UNCHANGED <<discount, club, order, till, grant, peak>>, Counters', JobsSound',
           \A q \in Workers : job'[q] = job[q] \/ job'[q].kind = "idle"
    PROVE  CodesApart' /\ Managed
<1>1. /\ ReferralsSound'
      /\ \A k \in Referrals : referral[k].live => referral'[k].live
  BY ReferralWrite DEF CodesApart, Shapes
<1>2. RowsStayLive
  BY <1>1 DEF RowsStayLive
<1>3. JobsLinked'
  BY <1>2, LinksStay DEF CodesApart
<1>4. DiscountsSound' /\ Unique(discount)' /\ ClubsSound' /\ OrdersSound'
  BY PartsStay
<1>5. /\ \A k \in Discounts : RowManaged(k) /\ peak'[k] >= peak[k]
      /\ \A k \in Clubs : ClubKept(k)
      /\ \A b \in Buyers : grant'[b] >= grant[b]
  BY NothingManaged
<1>6. \A q \in Workers : JobKept(q)
  BY DEF JobKept
<1>7. Managed
  BY <1>5, <1>6 DEF Managed
<1> QED BY <1>1, <1>3, <1>4, <1>7 DEF CodesApart, Shapes

(* No row is written.                                                      *)
LEMMA NoneManaged ==
    ASSUME CodesApart, UNCHANGED <<discount, club, referral, order, till, peak>>, Counters', JobsSound',
           \A q \in Workers : JobKept(q) /\ (job'[q] = job[q] \/ job'[q].kind = "idle" \/ Linked(job[q])'),
           \A b \in Buyers : grant'[b] >= grant[b]
    PROVE  CodesApart' /\ Managed
<1>1. RowsStayLive
  BY DEF RowsStayLive
<1>2. JobsLinked'
  BY <1>1, LinksStay DEF CodesApart
<1>3. DiscountsSound' /\ Unique(discount)' /\ ClubsSound' /\ ReferralsSound' /\ OrdersSound'
  BY PartsStay
<1>4. /\ \A k \in Discounts : RowManaged(k) /\ peak'[k] >= peak[k]
      /\ \A k \in Clubs : ClubKept(k)
  BY NothingManaged
<1>5. Managed
  BY <1>4 DEF Managed
<1> QED BY <1>2, <1>3, <1>5 DEF CodesApart, Shapes

LEMMA EditCounters ==
    ASSUME CodesApart, Edit, UNCHANGED <<now, till, member, grant, shopSales>>, peak' \in [Discounts -> Nat]
    PROVE  Counters'
BY AmountsAssumption DEF CodesApart, Shapes, Counters, Edit

LEMMA CreateDiscountStep ==
    ASSUME CodesApart, NEW i \in Discounts, NEW f \in DiscountForms, CreateDiscount(i, f)
    PROVE  CodesApart' /\ Managed
<1>1. PICK row : row = DiscountRow(f)
  OBVIOUS
<1>2. /\ DiscountSound(row) /\ row.live /\ row.used = 0
      /\ \A x \in DOMAIN DiscountFields : row[x] = f[x]
  BY <1>1, BodiesAssumption, NewDiscountSound
<1>3. row.code = f.code
  BY <1>2 DEF DiscountFields
<1>4. /\ ~discount[i].live /\ CodeFree(discount, i, row.code) /\ Edit
      /\ discount' = [discount EXCEPT ![i] = row] /\ peak' = Raised(i, row)
      /\ UNCHANGED <<now, club, referral, order, till, member, grant, shopSales, job>>
  BY <1>1, <1>3 DEF CreateDiscount
<1>5. /\ peak' \in [Discounts -> Nat] /\ peak'[i] >= peak[i] /\ peak'[i] >= Limit(row)
      /\ \A k \in Discounts \ {i} : peak'[k] = peak[k]
  BY <1>2, <1>4, RaisedPeak DEF CodesApart, Shapes, Counters
<1>6. Counters' /\ JobsSound'
  BY <1>4, <1>5, EditCounters, PartsStay
<1>7. row.used = (IF discount[i].live THEN discount[i].used ELSE 0)
  BY <1>2, <1>4
<1> QED BY <1>2, <1>4, <1>5, <1>6, <1>7, DiscountManaged

LEMMA CreateClubStep ==
    ASSUME CodesApart, NEW i \in Clubs, NEW f \in ClubForms, CreateClub(i, f)
    PROVE  CodesApart' /\ Managed
<1>1. PICK row : row = ClubRow(f)
  OBVIOUS
<1>2. ClubSound(row) /\ row.live
  BY <1>1, BodiesAssumption, NewClubSound
<1>3. /\ ~club[i].live /\ Edit /\ club' = [club EXCEPT ![i] = row]
      /\ UNCHANGED <<now, discount, referral, order, till, member, grant, shopSales, job, peak>>
  BY <1>1 DEF CreateClub
<1>4. Counters' /\ JobsSound'
  BY <1>3, EditCounters, PartsStay DEF CodesApart, Shapes, Counters
<1> QED BY <1>2, <1>3, <1>4, ClubManaged

LEMMA CreateReferralStep ==
    ASSUME CodesApart, NEW i \in Referrals, NEW f \in ReferralForms, NEW blogger, CreateReferral(i, f, blogger)
    PROVE  CodesApart' /\ Managed
<1>1. PICK row : row = ReferralRow(f)
  OBVIOUS
<1>2. ReferralSound(row) /\ row.live
  BY <1>1, BodiesAssumption, NewReferralSound
<1>3. /\ Edit /\ referral' = [referral EXCEPT ![i] = row]
      /\ UNCHANGED <<now, discount, club, order, till, member, grant, shopSales, job, peak>>
  BY <1>1 DEF CreateReferral
<1>4. Counters' /\ JobsSound'
  BY <1>3, EditCounters, PartsStay DEF CodesApart, Shapes, Counters
<1> QED BY <1>2, <1>3, <1>4, ReferralManaged

LEMMA RemoveDiscountStep ==
    ASSUME CodesApart, NEW i \in Discounts, RemoveDiscount(i)
    PROVE  CodesApart' /\ Managed
<1>1. DiscountSound(discount[i]) /\ discount[i].live
  BY DEF RemoveDiscount, CodesApart, Shapes, DiscountsSound
<1>2. PICK row : row = [discount[i] EXCEPT !.deleted = TRUE, !.active = FALSE]
  OBVIOUS
<1>3. DOMAIN DiscountFields \cup {"live", "used", "deleted"} \subseteq DOMAIN discount[i]
  BY <1>1 DEF DiscountSound
<1>4. "active" \in DOMAIN DiscountFields /\ "deleted" \notin DOMAIN DiscountFields
  BY DEF DiscountFields
<1>5. /\ DOMAIN row = DOMAIN discount[i] /\ row.deleted = TRUE /\ row.active = FALSE
      /\ \A x \in DOMAIN discount[i] : x \notin {"deleted", "active"} => row[x] = discount[i][x]
  BY <1>2, <1>3, <1>4
<1>6. row.live = discount[i].live /\ row.used = discount[i].used
  BY <1>3, <1>5
<1>7. row.code = discount[i].code /\ row.max = discount[i].max
  BY <1>3, <1>5 DEF DiscountFields
<1>8. Typed(row, DiscountFields)
  <2>1. ASSUME NEW x \in DOMAIN DiscountFields, x # "active" PROVE row[x] \in DiscountFields[x]
    BY <1>1, <1>3, <1>4, <1>5, <2>1 DEF DiscountSound, Typed
  <2>2. row["active"] \in DiscountFields["active"]
    BY <1>5 DEF DiscountFields
  <2> QED BY <2>1, <2>2 DEF Typed
<1>9. row.live \in BOOLEAN /\ row.deleted \in BOOLEAN /\ row.live
  BY <1>1, <1>5, <1>6 DEF DiscountSound
<1>10. row.used \in Nat
  BY <1>1, <1>6 DEF DiscountSound
<1>11. DiscountSound(row)
  BY <1>3, <1>5, <1>8, <1>9, <1>10 DEF DiscountSound
<1>12. /\ Edit /\ discount' = [discount EXCEPT ![i] = row]
       /\ UNCHANGED <<now, club, referral, order, till, member, grant, shopSales, job, peak>>
  BY <1>2, <1>3, <1>4 DEF RemoveDiscount
<1>13. Counters' /\ JobsSound' /\ \A k \in Discounts : peak'[k] = peak[k] /\ peak'[k] >= peak[k]
  BY <1>12, EditCounters, PartsStay DEF CodesApart, Shapes, Counters
<1> QED BY <1>1, <1>6, <1>7, <1>9, <1>11, <1>12, <1>13, DiscountManaged

LEMMA DeactivateClubStep ==
    ASSUME CodesApart, NEW i \in Clubs, DeactivateClub(i)
    PROVE  CodesApart' /\ Managed
<1>1. ClubSound(club[i]) /\ club[i].live
  BY DEF DeactivateClub, CodesApart, Shapes, ClubsSound
<1>2. PICK row : row = [club[i] EXCEPT !.active = FALSE]
  OBVIOUS
<1>3. DOMAIN ClubFields \cup {"live", "renamed"} \subseteq DOMAIN club[i]
  BY <1>1 DEF ClubSound
<1>4. "active" \in DOMAIN ClubFields
  BY DEF ClubFields
<1>5. /\ DOMAIN row = DOMAIN club[i] /\ row.active = FALSE
      /\ \A x \in DOMAIN club[i] : x # "active" => row[x] = club[i][x]
  BY <1>2, <1>3, <1>4
<1>6. row.live = club[i].live /\ row.renamed = club[i].renamed
  BY <1>3, <1>5
<1>7. row.code = club[i].code
  BY <1>3, <1>5 DEF ClubFields
<1>8. Typed(row, ClubFields)
  <2>1. ASSUME NEW x \in DOMAIN ClubFields, x # "active" PROVE row[x] \in ClubFields[x]
    BY <1>1, <1>3, <1>4, <1>5, <2>1 DEF ClubSound, Typed
  <2>2. row["active"] \in ClubFields["active"]
    BY <1>5 DEF ClubFields
  <2> QED BY <2>1, <2>2 DEF Typed
<1>9. ClubSound(row) /\ row.live
  BY <1>1, <1>3, <1>5, <1>6, <1>8 DEF ClubSound
<1>10. /\ Edit /\ club' = [club EXCEPT ![i] = row]
       /\ UNCHANGED <<now, discount, referral, order, till, member, grant, shopSales, job, peak>>
  BY <1>2 DEF DeactivateClub
<1>11. Counters' /\ JobsSound'
  BY <1>10, EditCounters, PartsStay DEF CodesApart, Shapes, Counters
<1> QED BY <1>6, <1>7, <1>9, <1>10, <1>11, ClubManaged

LEMMA DeactivateReferralStep ==
    ASSUME CodesApart, NEW i \in Referrals, DeactivateReferral(i)
    PROVE  CodesApart' /\ Managed
<1>1. ReferralSound(referral[i]) /\ referral[i].live
  BY DEF DeactivateReferral, CodesApart, Shapes, ReferralsSound
<1>2. PICK row : row = [referral[i] EXCEPT !.active = FALSE, !.deleted = TRUE]
  OBVIOUS
<1>3. DOMAIN ReferralFields \cup {"live", "deleted"} \subseteq DOMAIN referral[i]
  BY <1>1 DEF ReferralSound
<1>4. "active" \in DOMAIN ReferralFields /\ "deleted" \notin DOMAIN ReferralFields
  BY DEF ReferralFields
<1>5. /\ DOMAIN row = DOMAIN referral[i] /\ row.active = FALSE /\ row.deleted = TRUE
      /\ \A x \in DOMAIN referral[i] : x \notin {"deleted", "active"} => row[x] = referral[i][x]
  BY <1>2, <1>3, <1>4
<1>6. row.live = referral[i].live
  BY <1>3, <1>5
<1>7. Typed(row, ReferralFields)
  <2>1. ASSUME NEW x \in DOMAIN ReferralFields, x # "active" PROVE row[x] \in ReferralFields[x]
    BY <1>1, <1>3, <1>4, <1>5, <2>1 DEF ReferralSound, Typed
  <2>2. row["active"] \in ReferralFields["active"]
    BY <1>5 DEF ReferralFields
  <2> QED BY <2>1, <2>2 DEF Typed
<1>8. ReferralSound(row) /\ row.live
  BY <1>1, <1>3, <1>5, <1>6, <1>7 DEF ReferralSound
<1>9. /\ Edit /\ referral' = [referral EXCEPT ![i] = row]
      /\ UNCHANGED <<now, discount, club, order, till, member, grant, shopSales, job, peak>>
  BY <1>2, <1>3, <1>4 DEF DeactivateReferral
<1>10. Counters' /\ JobsSound'
  BY <1>9, EditCounters, PartsStay DEF CodesApart, Shapes, Counters
<1> QED BY <1>8, <1>9, <1>10, ReferralManaged

(* The three loads.                                                        *)
Loads(a) ==
    \/ \E i \in Discounts, ch \in DiscountChanges : LoadRow(a, "discount", i, discount[i], ch)
    \/ \E i \in Clubs, ch \in ClubChanges : LoadRow(a, "club", i, club[i], ch)
    \/ \E i \in Referrals, ch \in ReferralChanges : LoadRow(a, "referral", i, referral[i], ch)

LEMMA LoadStep ==
    ASSUME CodesApart, NEW a \in Admins, Loads(a)
    PROVE  CodesApart' /\ Managed
<1>1. ASSUME NEW w, JobSound(w), Linked(w), w.kind \in {"discount", "club", "referral"},
             job' = [job EXCEPT ![a] = w], Edit,
             UNCHANGED <<now, discount, club, referral, order, till, member, grant, shopSales, peak>>
      PROVE  CodesApart' /\ Managed
  <2>1. a \in Workers
    BY DEF Workers
  <2>2. JobsSound' /\ job'[a] = w /\ \A q \in Workers \ {a} : job'[q] = job[q]
    BY <1>1, <2>1, JobWrite DEF CodesApart, Shapes
  <2>3. Linked(job[a])'
    BY <1>1, <2>2 DEF Linked
  <2>4. \A q \in Workers : JobKept(q)
    BY <1>1, <2>2 DEF JobKept
  <2>5. Counters'
    BY <1>1, EditCounters DEF CodesApart, Shapes, Counters
  <2>6. \A b \in Buyers : grant'[b] >= grant[b]
    BY <1>1, NothingManaged
  <2>7. \A q \in Workers : JobKept(q) /\ (job'[q] = job[q] \/ job'[q].kind = "idle" \/ Linked(job[q])')
    BY <2>2, <2>3, <2>4
  <2> QED BY <1>1, <2>2, <2>5, <2>6, <2>7, NoneManaged
<1>2. ASSUME NEW i \in Discounts, NEW ch \in DiscountChanges, LoadRow(a, "discount", i, discount[i], ch)
      PROVE  CodesApart' /\ Managed
  <2>1. PICK w : w = [kind |-> "discount", id |-> i, row |-> discount[i], change |-> ch]
    OBVIOUS
  <2>2. JobSound(w) /\ Linked(w)
    BY <1>2, <2>1, BodiesAssumption DEF JobSound, Linked, LoadRow, CodesApart, Shapes, DiscountsSound
  <2> QED BY <1>1, <1>2, <2>1, <2>2 DEF LoadRow, rowVars
<1>3. ASSUME NEW i \in Clubs, NEW ch \in ClubChanges, LoadRow(a, "club", i, club[i], ch)
      PROVE  CodesApart' /\ Managed
  <2>1. PICK w : w = [kind |-> "club", id |-> i, row |-> club[i], change |-> ch]
    OBVIOUS
  <2>2. JobSound(w) /\ Linked(w)
    BY <1>3, <2>1, BodiesAssumption DEF JobSound, Linked, LoadRow, CodesApart, Shapes, ClubsSound
  <2> QED BY <1>1, <1>3, <2>1, <2>2 DEF LoadRow, rowVars
<1>4. ASSUME NEW i \in Referrals, NEW ch \in ReferralChanges, LoadRow(a, "referral", i, referral[i], ch)
      PROVE  CodesApart' /\ Managed
  <2>1. PICK w : w = [kind |-> "referral", id |-> i, row |-> referral[i], change |-> ch]
    OBVIOUS
  <2>2. JobSound(w) /\ Linked(w)
    BY <1>4, <2>1, BodiesAssumption DEF JobSound, Linked, LoadRow, CodesApart, Shapes, ReferralsSound
  <2> QED BY <1>1, <1>4, <2>1, <2>2 DEF LoadRow, rowVars
<1> QED BY <1>2, <1>3, <1>4 DEF Loads

(* A store ends its administrator's job.                                   *)
LEMMA StoreEnds ==
    ASSUME CodesApart, NEW a \in Admins, job' = [job EXCEPT ![a] = Idle]
    PROVE  /\ JobsSound' /\ job'[a] = Idle /\ \A q \in Workers \ {a} : job'[q] = job[q]
           /\ \A q \in Workers : /\ job'[q] = job[q] \/ job'[q].kind = "idle"
                                 /\ JobKept(q)
<1>1. a \in Workers
  BY DEF Workers
<1>2. JobsSound' /\ job'[a] = Idle /\ \A q \in Workers \ {a} : job'[q] = job[q]
  BY <1>1, IdleSound, JobWrite DEF CodesApart, Shapes
<1> QED BY <1>2, IdleSound DEF JobKept

LEMMA StoreDiscountStep ==
    ASSUME CodesApart, NEW a \in Admins, StoreDiscount(a)
    PROVE  CodesApart' /\ Managed
<1>1. PICK j : j = job[a]
  OBVIOUS
<1>2. j.kind = "discount" /\ JobSound(j) /\ Linked(j) /\ a \in Workers
  BY <1>1 DEF StoreDiscount, CodesApart, Shapes, JobsSound, JobsLinked, Workers
<1>3. PICK i \in Discounts : i = j.id
  BY <1>2 DEF JobSound
<1>4. discount[i].live /\ DiscountSound(discount[i])
  BY <1>2, <1>3 DEF Linked, CodesApart, Shapes, DiscountsSound
<1>5. /\ job' = [job EXCEPT ![a] = Idle]
      /\ UNCHANGED <<now, club, referral, order, till, member, grant, shopSales, acts, edits>>
  BY DEF StoreDiscount
<1>6. JobsSound' /\ \A q \in Workers : (job'[q] = job[q] \/ job'[q].kind = "idle") /\ JobKept(q)
  BY <1>5, StoreEnds
<1>7. CASE DiscountChangeFits(j)
  <2>1. PICK row : row = DiscountChanged(j, discount[i])
    OBVIOUS
  <2>2. /\ DiscountSound(row) /\ row.live /\ row.used = discount[i].used
        /\ row.code = IF "code" \in DOMAIN j.change THEN j.change["code"] ELSE discount[i]["code"]
    BY <1>2, <1>4, <2>1, ChangedDiscountSound
  <2>3. discount' = [discount EXCEPT ![i] = row] /\ peak' = Raised(i, row)
    BY <1>1, <1>3, <1>7, <2>1 DEF StoreDiscount
  <2>4. /\ peak' \in [Discounts -> Nat] /\ peak'[i] >= peak[i] /\ peak'[i] >= Limit(row)
        /\ \A k \in Discounts \ {i} : peak'[k] = peak[k]
    BY <2>2, <2>3, RaisedPeak DEF CodesApart, Shapes, Counters
  <2>5. CodeFree(discount, i, row.code) \/ (discount[i].live /\ row.code = discount[i].code)
    BY <1>3, <1>4, <1>7, <2>2 DEF DiscountChangeFits, Given
  <2>6. Counters'
    BY <1>5, <2>4 DEF CodesApart, Shapes, Counters
  <2>7. row.used = (IF discount[i].live THEN discount[i].used ELSE 0)
    BY <1>4, <2>2
  <2> QED BY <1>5, <1>6, <2>2, <2>3, <2>4, <2>5, <2>6, <2>7, DiscountManaged
<1>8. CASE ~DiscountChangeFits(j)
  <2>1. UNCHANGED <<discount, peak>>
    BY <1>1, <1>8 DEF StoreDiscount
  <2>2. Counters'
    BY <1>5, <2>1 DEF CodesApart, Shapes, Counters
  <2>3. \A b \in Buyers : grant'[b] >= grant[b]
    BY <1>5, NothingManaged
  <2> QED BY <1>5, <1>6, <2>1, <2>2, <2>3, NoneManaged
<1> QED BY <1>7, <1>8

LEMMA StoreClubStep ==
    ASSUME CodesApart, NEW a \in Admins, StoreClub(a)
    PROVE  CodesApart' /\ Managed
<1>1. PICK j : j = job[a]
  OBVIOUS
<1>2. j.kind = "club" /\ JobSound(j) /\ Linked(j) /\ a \in Workers
  BY <1>1 DEF StoreClub, CodesApart, Shapes, JobsSound, JobsLinked, Workers
<1>3. PICK i \in Clubs : i = j.id
  BY <1>2 DEF JobSound
<1>4. club[i].live /\ ClubSound(club[i])
  BY <1>2, <1>3 DEF Linked, CodesApart, Shapes, ClubsSound
<1>5. /\ job' = [job EXCEPT ![a] = Idle]
      /\ UNCHANGED <<now, discount, referral, order, till, member, grant, shopSales, peak, acts, edits>>
  BY DEF StoreClub
<1>6. JobsSound' /\ \A q \in Workers : (job'[q] = job[q] \/ job'[q].kind = "idle") /\ JobKept(q)
  BY <1>5, StoreEnds
<1>7. Counters'
  BY <1>5 DEF CodesApart, Shapes, Counters
<1>8. CASE ClubChangeFits(j)
  <2>1. PICK row : row = ClubChanged(j, club[i])
    OBVIOUS
  <2>2. /\ ClubSound(row) /\ row.live /\ row.code = Now(j, "code")
        /\ row.renamed = (club[i].renamed \/ Now(j, "code") # club[i].code)
    BY <1>2, <1>4, <2>1, ChangedClubSound
  <2>3. club' = [club EXCEPT ![i] = row]
    BY <1>1, <1>3, <1>8, <2>1 DEF StoreClub
  <2>4. ~row.renamed => ~club[i].renamed /\ row.code = club[i].code
    BY <2>2
  <2> QED BY <1>5, <1>6, <1>7, <2>2, <2>3, <2>4, ClubManaged
<1>9. CASE ~ClubChangeFits(j)
  <2>1. UNCHANGED club
    BY <1>1, <1>9 DEF StoreClub
  <2>2. \A b \in Buyers : grant'[b] >= grant[b]
    BY <1>5, NothingManaged
  <2> QED BY <1>5, <1>6, <1>7, <2>1, <2>2, NoneManaged
<1> QED BY <1>8, <1>9

LEMMA StoreReferralStep ==
    ASSUME CodesApart, NEW a \in Admins, StoreReferral(a)
    PROVE  CodesApart' /\ Managed
<1>1. PICK j : j = job[a]
  OBVIOUS
<1>2. j.kind = "referral" /\ JobSound(j) /\ Linked(j) /\ a \in Workers
  BY <1>1 DEF StoreReferral, CodesApart, Shapes, JobsSound, JobsLinked, Workers
<1>3. PICK i \in Referrals : i = j.id
  BY <1>2 DEF JobSound
<1>4. referral[i].live /\ ReferralSound(referral[i])
  BY <1>2, <1>3 DEF Linked, CodesApart, Shapes, ReferralsSound
<1>5. /\ job' = [job EXCEPT ![a] = Idle]
      /\ UNCHANGED <<now, discount, club, order, till, member, grant, shopSales, peak, acts, edits>>
  BY DEF StoreReferral
<1>6. JobsSound' /\ \A q \in Workers : (job'[q] = job[q] \/ job'[q].kind = "idle") /\ JobKept(q)
  BY <1>5, StoreEnds
<1>7. Counters'
  BY <1>5 DEF CodesApart, Shapes, Counters
<1>8. PICK row : row = Over(j.change, referral[i])
  OBVIOUS
<1>9. ReferralSound(row) /\ row.live
  BY <1>2, <1>4, <1>8, ChangedReferralSound
<1>10. referral' = [referral EXCEPT ![i] = row] \/ UNCHANGED referral
  BY <1>1, <1>3, <1>8 DEF StoreReferral
<1>11. CASE referral' = [referral EXCEPT ![i] = row]
  BY <1>5, <1>6, <1>7, <1>9, <1>11, ReferralManaged
<1>12. CASE UNCHANGED referral
  <2>1. \A b \in Buyers : grant'[b] >= grant[b]
    BY <1>5, NothingManaged
  <2> QED BY <1>5, <1>6, <1>7, <1>12, <2>1, NoneManaged
<1> QED BY <1>10, <1>11, <1>12

LEMMA AroundStep ==
    ASSUME CodesApart, Around
    PROVE  CodesApart' /\ Managed
<1>1. /\ Edit /\ UNCHANGED <<now, discount, club, referral, order, till, job, peak>>
  BY DEF Around, rowVars
<1>2. grant \in [Buyers -> Int] /\ shopSales \in [Buyers -> Nat] /\ member \in [Buyers -> Segments \cup {None}]
  BY DEF CodesApart, Shapes, Counters
<1>3. /\ grant' \in [Buyers -> Int] /\ shopSales' \in [Buyers -> Nat] /\ member' \in [Buyers -> Segments \cup {None}]
      /\ \A b \in Buyers : grant'[b] >= grant[b]
  <2>1. PICK b \in Buyers :
            \/ (\E s \in Segments : member' = [member EXCEPT ![b] = s]) /\ UNCHANGED <<grant, shopSales>>
            \/ grant' = [grant EXCEPT ![b] = @ + 1] /\ UNCHANGED <<member, shopSales>>
            \/ shopSales' = [shopSales EXCEPT ![b] = @ + 1] /\ UNCHANGED <<member, grant>>
    BY DEF Around
  <2>2. CASE (\E s \in Segments : member' = [member EXCEPT ![b] = s]) /\ UNCHANGED <<grant, shopSales>>
    BY <1>2, <2>2
  <2>3. CASE grant' = [grant EXCEPT ![b] = @ + 1] /\ UNCHANGED <<member, shopSales>>
    BY <1>2, <2>3
  <2>4. CASE shopSales' = [shopSales EXCEPT ![b] = @ + 1] /\ UNCHANGED <<member, grant>>
    BY <1>2, <2>4
  <2> QED BY <2>1, <2>2, <2>3, <2>4
<1>4. Counters'
  BY <1>1, <1>3, AmountsAssumption DEF CodesApart, Shapes, Counters, Edit
<1>5. JobsSound' /\ \A q \in Workers : JobKept(q)
  BY <1>1, PartsStay DEF JobKept
<1> QED BY <1>1, <1>3, <1>4, <1>5, NoneManaged

LEMMA TickStep ==
    ASSUME CodesApart, Tick \/ UNCHANGED vars
    PROVE  CodesApart' /\ Managed
<1>1. /\ UNCHANGED <<discount, club, referral, order, till, member, grant, shopSales, job, peak, acts, edits>>
      /\ now' \in 0..MaxTime
  BY AmountsAssumption DEF Tick, vars, rowVars, CodesApart, Shapes, Counters
<1>2. Counters'
  BY <1>1 DEF CodesApart, Shapes, Counters
<1>3. JobsSound' /\ \A q \in Workers : JobKept(q)
  BY <1>1, PartsStay DEF JobKept
<1>4. \A b \in Buyers : grant'[b] >= grant[b]
  BY <1>1, NothingManaged
<1> QED BY <1>1, <1>2, <1>3, <1>4, NoneManaged

(* The steps that are no customer's and no settlement's.                   *)
Manages ==
    \/ \E i \in Discounts, f \in DiscountForms : CreateDiscount(i, f)
    \/ \E i \in Clubs, f \in ClubForms : CreateClub(i, f)
    \/ \E i \in Referrals, f \in ReferralForms, blogger \in BOOLEAN : CreateReferral(i, f, blogger)
    \/ \E i \in Discounts : RemoveDiscount(i)
    \/ \E i \in Clubs : DeactivateClub(i)
    \/ \E i \in Referrals : DeactivateReferral(i)
    \/ \E a \in Admins : Loads(a) \/ StoreDiscount(a) \/ StoreClub(a) \/ StoreReferral(a)
    \/ Around
    \/ Tick \/ UNCHANGED vars

LEMMA ManagedStep ==
    ASSUME CodesApart, Manages
    PROVE  CodesApart' /\ Managed
BY CreateDiscountStep, CreateClubStep, CreateReferralStep, RemoveDiscountStep, DeactivateClubStep,
   DeactivateReferralStep, LoadStep, StoreDiscountStep, StoreClubStep, StoreReferralStep, AroundStep, TickStep
   DEF Manages

Customer(r) ==
    \/ \E b \in Buyers, c \in Codes \cup {None}, s \in Subtotals : BeginCheckout(r, b, c, s)
    \/ \E b \in AtTill, c \in Codes, s \in Subtotals : BeginRedeem(r, b, c, s)
    \/ FinishCheckout(r) \/ FinishRedeem(r)

LEMMA Steps ==
    ASSUME [Next]_vars
    PROVE  (\E r \in Requests : Customer(r)) \/ (\E o \in Orders : Settles(o)) \/ Manages
BY DEF Next, Customer, Settles, Manages, Loads

LEMMA CodesApartStep ==
    ASSUME CodesApart, [Next]_vars
    PROVE  CodesApart'
<1>1. ASSUME NEW r \in Requests, Customer(r) PROVE CodesApart'
  <2>1. ASSUME NEW b \in AtTill, NEW c \in Codes, NEW s \in Subtotals, BeginRedeem(r, b, c, s)
        PROVE  CodesApart'
    <3>1. b \in Buyers
      BY AmountsAssumption
    <3> QED BY <2>1, <3>1, TillBegins
  <2> QED BY <1>1, <2>1, CheckoutBegins, CheckoutEnds, TillEnds DEF Customer
<1> QED BY <1>1, Steps, SettleStep, ManagedStep

LEMMA CodesApartInit ==
    ASSUME Init
    PROVE  CodesApart
<1>1. DiscountsSound
  <2>1. \A i \in Discounts : DiscountSound(discount[i])
    <3>1. ASSUME NEW f \in DiscountForms PROVE DiscountSound(DiscountRow(f))
      BY BodiesAssumption, NewDiscountSound
    <3>2. DiscountSound(NoRow)
      BY DEF NoRow, DiscountSound
    <3> QED BY <3>1, <3>2 DEF Init
  <2> QED BY <2>1 DEF Init, DiscountsSound
<1>2. ClubsSound
  <2>1. \A i \in Clubs : ClubSound(club[i])
    <3>1. ASSUME NEW f \in ClubForms PROVE ClubSound(ClubRow(f))
      BY BodiesAssumption, NewClubSound
    <3>2. ClubSound(NoRow)
      BY DEF NoRow, ClubSound
    <3> QED BY <3>1, <3>2 DEF Init
  <2> QED BY <2>1 DEF Init, ClubsSound
<1>3. ReferralsSound
  <2>1. \A i \in Referrals : ReferralSound(referral[i])
    <3>1. ASSUME NEW f \in ReferralForms PROVE ReferralSound(ReferralRow(f))
      BY BodiesAssumption, NewReferralSound
    <3>2. ReferralSound(NoRow)
      BY DEF NoRow, ReferralSound
    <3> QED BY <3>1, <3>2 DEF Init
  <2> QED BY <2>1 DEF Init, ReferralsSound
<1>4. OrdersSound
  BY NoneAssumption DEF Init, OrdersSound, OrderSound, NoOrder
<1>5. JobsSound /\ JobsLinked
  BY IdleSound DEF Init, JobsSound, JobsLinked, Workers
<1>6. Counters
  <2>1. \A i \in Discounts : Limit(discount[i]) \in Nat
    BY <1>1, LimitIsNat DEF DiscountsSound
  <2> QED BY <2>1, AmountsAssumption DEF Init, Counters
<1>7. Unique(discount)
  BY DEF Init
<1> QED BY <1>1, <1>2, <1>3, <1>4, <1>5, <1>6, <1>7 DEF CodesApart, Shapes

(* What checkoutPreview shows is what a checkout at that moment would      *)
(* charge, whatever is edited, bought, released or redeemed before.        *)
THEOREM PreviewAlwaysAgrees == Spec => []PreviewAgrees
<1>1. Init => CodesApart
  BY CodesApartInit
<1>2. CodesApart /\ [Next]_vars => CodesApart'
  BY CodesApartStep
<1>3. CodesApart => PreviewAgrees
  BY PreviewHolds DEF CodesApart
<1> QED BY <1>1, <1>2, <1>3, PTL DEF Spec

--------------------------------------------------------------------------------
(* The locks of customers, and what they keep.                             *)

CheckoutsApart ==
    \A p, q \in Requests :
        job[p].kind = "checkout" /\ job[q].kind = "checkout" /\ job[p].buyer = job[q].buyer => p = q
TillsApart ==
    \A p, q \in Requests :
        job[p].kind = "till" /\ job[q].kind = "till" /\ job[p].buyer = job[q].buyer
        /\ job[p].code = job[q].code => p = q

(* A redemption at the till found its row by its code, which the row keeps *)
(* until it is renamed.                                                    *)
TillCode(r) == job[r].kind = "till" /\ ~club[job[r].id].renamed => club[job[r].id].code = job[r].code

(* A referral code was found below its limit for the buyer, and a free     *)
(* shipping that was found is still there.                                 *)
Found(r) ==
    job[r].kind = "checkout" =>
        /\ job[r].price.by = "referral" => job[r].seen < MaxReferralUses
        /\ job[r].grant => grant[job[r].buyer] > 0

CountInv ==
    /\ CodesApart /\ CheckoutsApart /\ TillsApart /\ CountsStayTrue
    /\ \A r \in Requests : TillCode(r) /\ Found(r)
    /\ \A i \in Referrals, b \in Buyers : ReferralUses(i, b) <= MaxReferralUses
    /\ \A b \in Buyers : grant[b] >= 0

(* Only the jobs of administrators change.                                 *)
LEMMA CountManaged ==
    ASSUME CountInv, CodesApart', Managed
    PROVE  CountInv'
<1>1. /\ UNCHANGED <<order, till>> /\ \A b \in Buyers : grant'[b] >= grant[b] /\ grant'[b] \in Int /\ grant[b] \in Int
      /\ \A r \in Requests : job'[r] = job[r] \/ job'[r].kind \in {"idle", "discount", "club", "referral"}
      /\ \A i \in Clubs : ClubKept(i)
  BY DEF Managed, CountInv, CodesApart, Shapes, Counters, Workers, JobKept
<1>2. CheckoutsApart' /\ TillsApart'
  BY <1>1 DEF CountInv, CheckoutsApart, TillsApart
<1>3. \A i, b : ReferralUses(i, b)' = ReferralUses(i, b) /\ OnlineUses(i, b)' = OnlineUses(i, b)
  BY <1>1 DEF ReferralUses, OnlineUses, OrdersOf
<1>4. \A p, b : SeenUses(p, b)' = SeenUses(p, b)
  BY <1>3 DEF SeenUses
<1>5. ASSUME NEW r \in Requests, job[r].kind = "till", ~club'[job[r].id].renamed
      PROVE  ~club[job[r].id].renamed /\ club'[job[r].id].code = club[job[r].id].code
  BY <1>1, <1>5 DEF ClubKept, CountInv, CodesApart, Shapes, JobsSound, JobSound, JobsLinked, Linked, Workers
<1>6. CountsStayTrue'
  BY <1>1, <1>4, <1>5 DEF CountInv, CountsStayTrue
<1>7. \A r \in Requests : TillCode(r)'
  BY <1>1, <1>5 DEF CountInv, TillCode
<1>8. \A r \in Requests : Found(r)'
  <2>1. \A r \in Requests : job[r].kind = "checkout" => job[r].buyer \in Buyers
    BY DEF CountInv, CodesApart, Shapes, JobsSound, JobSound, Workers
  <2>2. \A b \in Buyers : grant[b] > 0 => grant'[b] > 0
    BY <1>1
  <2> QED BY <1>1, <2>1, <2>2 DEF CountInv, Found
<1>9. \A b \in Buyers : grant'[b] >= 0
  BY <1>1 DEF CountInv
<1> QED BY <1>2, <1>3, <1>6, <1>7, <1>8, <1>9 DEF CountInv

(* The orders of a buyer by one path and row, whose number the uses are.   *)
Buys(i, b, by) == {o \in OrdersOf(b) : order[o].by = by /\ order[o].id = i}

LEMMA UsesAreBuys ==
    /\ \A i, b : ReferralUses(i, b) = Cardinality(Buys(i, b, "referral"))
    /\ \A i, b : OnlineUses(i, b) = Cardinality(Buys(i, b, "club"))
    /\ \A i, b : ReferralUses(i, b)' = Cardinality(Buys(i, b, "referral"))'
    /\ \A i, b : OnlineUses(i, b)' = Cardinality(Buys(i, b, "club"))'
BY DEF ReferralUses, OnlineUses, Buys

LEMMA CountSettles ==
    ASSUME CountInv, NEW o \in Orders, Settles(o)
    PROVE  CountInv'
<1>1. /\ CodesApart' /\ UNCHANGED <<club, till, grant, job>>
      /\ \A x \in {"buyer", "by", "id"} : order'[o][x] = order[o][x]
      /\ \A p \in Orders \ {o} : order'[p] = order[p]
  BY SettleStep DEF CountInv
<1>2. \A p \in Orders : order'[p].buyer = order[p].buyer /\ order'[p].by = order[p].by /\ order'[p].id = order[p].id
  BY <1>1
<1>3. \A i, b : ReferralUses(i, b)' = ReferralUses(i, b) /\ OnlineUses(i, b)' = OnlineUses(i, b)
  <2>1. ASSUME NEW i, NEW b, NEW by PROVE Buys(i, b, by)' = Buys(i, b, by)
    BY <1>2 DEF Buys, OrdersOf
  <2> QED BY <2>1, UsesAreBuys
<1>4. \A p, b : SeenUses(p, b)' = SeenUses(p, b)
  BY <1>3 DEF SeenUses
<1>5. CheckoutsApart' /\ TillsApart' /\ (\A r \in Requests : TillCode(r)' /\ Found(r)') /\ CountsStayTrue'
  BY <1>1, <1>4 DEF CountInv, CheckoutsApart, TillsApart, TillCode, Found, CountsStayTrue
<1> QED BY <1>1, <1>3, <1>5 DEF CountInv


(* What a beginning checkout has in hand.                                  *)
Began(w, b, cents) ==
    /\ w.kind = "checkout" /\ w.buyer = b /\ w.cents = cents
    /\ Outcome(w.price, b, cents) /\ PriceSound(w.price)
    /\ w.max = IF w.price.by = "shop" THEN discount[w.price.id].max ELSE None
    /\ w.grant = UsesGrant(b, cents) /\ w.shipping = Shipping(b, cents)
    /\ w.seen = SeenUses(w.price, b)
    /\ w.price.by = "shop" => discount[w.price.id].live /\ discount[w.price.id].max \in Nat \cup {None}
    /\ w.price.by = "referral" => ReferralUses(w.price.id, b) < MaxReferralUses

LEMMA CheckoutBegun ==
    ASSUME CodesApart, NEW r \in Requests, NEW b \in Buyers, NEW c \in Codes \cup {None},
           NEW cents \in Subtotals, BeginCheckout(r, b, c, cents)
    PROVE  /\ \E w : Began(w, b, cents) /\ job'[r] = w
           /\ job[r] = Idle /\ CheckoutLockFree(b)
           /\ \A q \in Workers \ {r} : job'[q] = job[q]
           /\ UNCHANGED <<discount, club, referral, order, till, member, grant, peak>>
<1>1. PICK p : p = Priced(b, c, cents)
  OBVIOUS
<1>2. p.ok = TRUE /\ Outcome(p, b, cents)
  <2>1. p.ok
    BY <1>1 DEF BeginCheckout
  <2>2. p = Refused \/ (p.ok = TRUE /\ Outcome(p, b, cents))
    BY <1>1, PricedOutcome DEF CodesApart
  <2> QED BY <2>1, <2>2 DEF Refused
<1>3. /\ PriceSound(p)
      /\ p.by = "shop" => discount[p.id].live /\ discount[p.id].max \in Nat \cup {None}
      /\ p.by = "referral" => ReferralUses(p.id, b) < MaxReferralUses
  BY <1>2, PriceOfCheckout DEF CodesApart
<1>4. PICK w : w = [kind |-> "checkout", buyer |-> b, code |-> c, cents |-> cents, price |-> p,
                    max |-> IF p.by = "shop" THEN discount[p.id].max ELSE None,
                    grant |-> UsesGrant(b, cents), shipping |-> Shipping(b, cents),
                    seen |-> SeenUses(p, b)]
  OBVIOUS
<1>5. Began(w, b, cents)
  BY <1>2, <1>3, <1>4 DEF Began
<1>6. job' = [job EXCEPT ![r] = w] /\ UNCHANGED <<discount, club, referral, order, till, member, grant, peak>>
      /\ job[r] = Idle /\ CheckoutLockFree(b)
  BY <1>1, <1>4 DEF BeginCheckout, rowVars
<1>7. job'[r] = w /\ \A q \in Workers \ {r} : job'[q] = job[q]
  BY <1>6 DEF CodesApart, Shapes, JobsSound, Workers
<1> QED BY <1>5, <1>6, <1>7

LEMMA CountBegins ==
    ASSUME CountInv, NEW r \in Requests, NEW b \in Buyers, NEW c \in Codes \cup {None},
           NEW cents \in Subtotals, BeginCheckout(r, b, c, cents)
    PROVE  CountInv'
<1>1. CodesApart' /\ CodesApart
  BY CheckoutBegins DEF CountInv
<1>2. PICK w : Began(w, b, cents) /\ job'[r] = w
  BY <1>1, CheckoutBegun
<1>3. /\ job[r] = Idle /\ CheckoutLockFree(b) /\ (\A q \in Requests \ {r} : job'[q] = job[q])
      /\ UNCHANGED <<club, order, till, grant>>
  BY <1>1, CheckoutBegun DEF Workers
<1>4. /\ w.kind = "checkout" /\ w.buyer = b /\ w.seen = SeenUses(w.price, b)
      /\ w.price.by = "referral" => ReferralUses(w.price.id, b) < MaxReferralUses
      /\ w.grant = UsesGrant(b, cents)
  BY <1>2 DEF Began
<1>5. /\ \A i, a : ReferralUses(i, a)' = ReferralUses(i, a) /\ OnlineUses(i, a)' = OnlineUses(i, a)
      /\ \A p, a : SeenUses(p, a)' = SeenUses(p, a)
  BY <1>3 DEF SeenUses, ReferralUses, OnlineUses, OrdersOf
<1>6. CheckoutsApart'
  BY <1>2, <1>3, <1>4 DEF CountInv, CheckoutsApart, CheckoutLockFree
<1>7. TillsApart'
  BY <1>2, <1>3, <1>4 DEF CountInv, TillsApart
<1>8. CountsStayTrue'
  BY <1>2, <1>3, <1>4, <1>5 DEF CountInv, CountsStayTrue
<1>9. \A q \in Requests : TillCode(q)'
  BY <1>2, <1>3, <1>4 DEF CountInv, TillCode
<1>10. Found(r)'
  <2>1. w.grant => grant[b] > 0
    BY <1>4 DEF UsesGrant
  <2>2. w.price.by = "referral" => w.seen < MaxReferralUses
    BY <1>4 DEF SeenUses
  <2> QED BY <1>2, <1>3, <1>4, <2>1, <2>2 DEF Found
<1>11. \A q \in Requests : Found(q)'
  BY <1>3, <1>10 DEF CountInv, Found
<1> QED BY <1>1, <1>3, <1>5, <1>6, <1>7, <1>8, <1>9, <1>11 DEF CountInv

LEMMA CountTillBegins ==
    ASSUME CountInv, NEW r \in Requests, NEW b \in Buyers, NEW c, NEW cents, BeginRedeem(r, b, c, cents)
    PROVE  CountInv'
<1>1. CodesApart' /\ CodesApart
  BY TillBegins DEF CountInv
<1>2. PICK i \in WithCode(club, c) :
          job' = [job EXCEPT ![r] = [kind |-> "till", buyer |-> b, code |-> c, id |-> i, seen |-> till[i][b]]]
  BY DEF BeginRedeem
<1>3. PICK w : w = [kind |-> "till", buyer |-> b, code |-> c, id |-> i, seen |-> till[i][b]]
  OBVIOUS
<1>4. /\ job[r] = Idle /\ RedeemLockFree(b, c) /\ UNCHANGED <<club, order, till, grant>>
      /\ job'[r] = w /\ (\A q \in Requests \ {r} : job'[q] = job[q])
  BY <1>1, <1>2, <1>3 DEF BeginRedeem, rowVars, CodesApart, Shapes, JobsSound, Workers
<1>5. club[i].code = c
  BY DEF WithCode
<1>6. /\ \A k, a : ReferralUses(k, a)' = ReferralUses(k, a) /\ OnlineUses(k, a)' = OnlineUses(k, a)
      /\ \A p, a : SeenUses(p, a)' = SeenUses(p, a)
  BY <1>4 DEF SeenUses, ReferralUses, OnlineUses, OrdersOf
<1>7. CheckoutsApart'
  BY <1>3, <1>4 DEF CountInv, CheckoutsApart
<1>8. TillsApart'
  BY <1>3, <1>4 DEF CountInv, TillsApart, RedeemLockFree
<1>9. CountsStayTrue'
  BY <1>3, <1>4, <1>6 DEF CountInv, CountsStayTrue
<1>10. \A q \in Requests : TillCode(q)'
  BY <1>3, <1>4, <1>5 DEF CountInv, TillCode
<1>11. \A q \in Requests : Found(q)'
  BY <1>3, <1>4 DEF CountInv, Found
<1> QED BY <1>1, <1>4, <1>6, <1>7, <1>8, <1>9, <1>10, <1>11 DEF CountInv

(* One more order is the buyer's, by the path and the row of its price.    *)
LEMMA OneMoreOrder ==
    ASSUME CodesApart, CodesApart', NEW j, j.buyer \in Buyers, NEW o \in Free, Ordered(j, o), NEW i, NEW b \in Buyers
    PROVE  /\ b # j.buyer => ReferralUses(i, b)' = ReferralUses(i, b) /\ OnlineUses(i, b)' = OnlineUses(i, b)
           /\ j.price.by # "referral" \/ j.price.id # i => ReferralUses(i, b)' = ReferralUses(i, b)
           /\ ReferralUses(i, b)' <= ReferralUses(i, b) + 1 /\ ReferralUses(i, b)' \in Nat
<1>1. /\ o \in Orders /\ order[o].buyer = None /\ b # None
      /\ order'[o].buyer = j.buyer /\ order'[o].by = j.price.by /\ order'[o].id = j.price.id
      /\ \A p \in Orders \ {o} : order'[p] = order[p]
  BY NoneAssumption DEF Free, Ordered
<1>2. ASSUME NEW by, b # j.buyer \/ j.price.by # by \/ j.price.id # i PROVE Buys(i, b, by)' = Buys(i, b, by)
  BY <1>1, <1>2 DEF Buys, OrdersOf
<1>3. Buys(i, b, "referral")' \subseteq Buys(i, b, "referral") \cup {o}
  BY <1>1 DEF Buys, OrdersOf
<1>4. IsFiniteSet(Buys(i, b, "referral")) /\ Cardinality(Buys(i, b, "referral")) \in Nat
  <2>1. Buys(i, b, "referral") \subseteq Orders
    BY DEF Buys, OrdersOf
  <2> QED BY <2>1, AmountsAssumption, FS_Subset, FS_CardinalityType
<1>5. PICK more : more = Buys(i, b, "referral") \cup {o}
  OBVIOUS
<1>6. IsFiniteSet(more) /\ Cardinality(more) <= Cardinality(Buys(i, b, "referral")) + 1
  <2>1. PICK T : T = Buys(i, b, "referral")
    OBVIOUS
  <2>2. IsFiniteSet(T) /\ Cardinality(T) \in Nat
    BY <1>4, <2>1
  <2>3. IsFiniteSet(T \cup {o}) /\ Cardinality(T \cup {o}) <= Cardinality(T) + 1
    BY <2>2, FS_AddElement
  <2> QED BY <1>5, <2>1, <2>3
<1>7. Cardinality(Buys(i, b, "referral"))' <= Cardinality(more) /\ Cardinality(Buys(i, b, "referral"))' \in Nat
      /\ Cardinality(more) \in Nat
  <2>1. PICK T : T = Buys(i, b, "referral")'
    OBVIOUS
  <2>2. T \subseteq more
    BY <1>3, <1>5, <2>1
  <2>3. IsFiniteSet(T) /\ Cardinality(T) <= Cardinality(more) /\ Cardinality(T) \in Nat /\ Cardinality(more) \in Nat
    BY <1>6, <2>2, FS_Subset, FS_CardinalityType
  <2> QED BY <2>1, <2>3
<1>8. Cardinality(Buys(i, b, "referral"))' <= Cardinality(Buys(i, b, "referral")) + 1
  BY <1>4, <1>6, <1>7
<1>9. b # j.buyer => ReferralUses(i, b)' = ReferralUses(i, b) /\ OnlineUses(i, b)' = OnlineUses(i, b)
  BY <1>2, UsesAreBuys
<1>10. j.price.by # "referral" \/ j.price.id # i => ReferralUses(i, b)' = ReferralUses(i, b)
  BY <1>2, UsesAreBuys
<1> QED BY <1>7, <1>8, <1>9, <1>10, UsesAreBuys

LEMMA CountEnds ==
    ASSUME CountInv, NEW r \in Requests, FinishCheckout(r)
    PROVE  CountInv'
<1> DEFINE j == job[r]
<1>1. /\ CodesApart' /\ CodesApart /\ job'[r] = Idle /\ (\A q \in Requests \ {r} : job'[q] = job[q])
      /\ UNCHANGED <<club, till>>
  BY CheckoutEnds DEF CountInv, Workers
<1>2. \/ UNCHANGED <<order, grant>>
      \/ /\ \E o \in Free : Ordered(j, o)
         /\ grant' = IF j.grant THEN [grant EXCEPT ![j.buyer] = @ - 1] ELSE grant
  BY CheckoutEnds DEF CountInv
<1>3. j.kind = "checkout" /\ j.buyer \in Buyers /\ PriceSound(j.price) /\ j.grant \in BOOLEAN
  BY DEF FinishCheckout, CountInv, CodesApart, Shapes, JobsSound, JobSound, Workers
<1>4. CheckoutsApart' /\ TillsApart'
  BY <1>1 DEF CountInv, CheckoutsApart, TillsApart, Idle
<1>5. \A q \in Requests : TillCode(q)'
  BY <1>1 DEF CountInv, TillCode, Idle
<1>6. grant \in [Buyers -> Int] /\ \A b \in Buyers : grant[b] >= 0
  BY DEF CountInv, CodesApart, Shapes, Counters
<1>7. ASSUME NEW q \in Requests, job'[q].kind = "checkout"
      PROVE  q # r /\ job'[q] = job[q] /\ job[q].kind = "checkout" /\ job[q].buyer # j.buyer /\ job[q].buyer \in Buyers
  <2>1. q # r /\ job'[q] = job[q]
    BY <1>1, <1>7 DEF Idle
  <2> QED BY <1>3, <1>7, <2>1 DEF CountInv, CheckoutsApart, CodesApart, Shapes, JobsSound, JobSound, Workers
<1>8. CASE UNCHANGED <<order, grant>>
  <2>1. /\ \A i, a : ReferralUses(i, a)' = ReferralUses(i, a)
        /\ \A p, a : SeenUses(p, a)' = SeenUses(p, a)
    BY <1>8 DEF SeenUses, ReferralUses, OnlineUses, OrdersOf
  <2>2. CountsStayTrue'
    BY <1>1, <2>1 DEF CountInv, CountsStayTrue, Idle
  <2>3. \A q \in Requests : Found(q)'
    BY <1>1, <1>8 DEF CountInv, Found, Idle
  <2> QED BY <1>1, <1>4, <1>5, <1>8, <2>1, <2>2, <2>3 DEF CountInv
<1>9. ASSUME NEW o \in Free, Ordered(j, o),
             grant' = IF j.grant THEN [grant EXCEPT ![j.buyer] = @ - 1] ELSE grant
      PROVE  CountInv'
  <2>1. \A i : \A b \in Buyers :
            /\ b # j.buyer => ReferralUses(i, b)' = ReferralUses(i, b) /\ OnlineUses(i, b)' = OnlineUses(i, b)
            /\ j.price.by # "referral" \/ j.price.id # i => ReferralUses(i, b)' = ReferralUses(i, b)
            /\ ReferralUses(i, b)' <= ReferralUses(i, b) + 1 /\ ReferralUses(i, b)' \in Nat
    BY <1>1, <1>3, <1>9, OneMoreOrder
  <2>2. \A p, b : b \in Buyers /\ b # j.buyer => SeenUses(p, b)' = SeenUses(p, b)
    BY <2>1 DEF SeenUses
  <2>3. CountsStayTrue'
    BY <1>1, <1>7, <2>2 DEF CountInv, CountsStayTrue, Idle
  <2>4. ASSUME NEW b \in Buyers PROVE grant'[b] >= 0 /\ (b # j.buyer => grant'[b] = grant[b])
    <3>1. j.grant => grant[j.buyer] > 0
      BY <1>3 DEF CountInv, Found
    <3>2. CASE j.grant
      <4>1. grant' = [grant EXCEPT ![j.buyer] = @ - 1]
        BY <1>9, <3>2
      <4> QED BY <1>3, <1>6, <3>1, <3>2, <4>1
    <3>3. CASE ~j.grant
      BY <1>6, <1>9, <3>3
    <3> QED BY <3>2, <3>3
  <2>5. \A q \in Requests : Found(q)'
    BY <1>7, <2>4 DEF CountInv, Found
  <2>6. ASSUME NEW i \in Referrals, NEW b \in Buyers PROVE ReferralUses(i, b)' <= MaxReferralUses
    <3>1. ReferralUses(i, b) <= MaxReferralUses /\ ReferralUses(i, b) \in Nat /\ MaxReferralUses \in Nat
      BY CountsFinite, AmountsAssumption DEF CountInv
    <3>2. CASE b # j.buyer \/ j.price.by # "referral" \/ j.price.id # i
      BY <2>1, <3>1, <3>2
    <3>3. CASE b = j.buyer /\ j.price.by = "referral" /\ j.price.id = i
      <4>1. j.seen < MaxReferralUses
        BY <1>3, <3>3 DEF CountInv, Found
      <4>2. j.seen = ReferralUses(i, b)
        BY <1>3, <3>3 DEF CountInv, CountsStayTrue, SeenUses
      <4>3. ReferralUses(i, b)' <= ReferralUses(i, b) + 1 /\ ReferralUses(i, b)' \in Nat
        BY <2>1
      <4> QED BY <3>1, <4>1, <4>2, <4>3
    <3> QED BY <3>2, <3>3
  <2> QED BY <1>1, <1>4, <1>5, <2>3, <2>4, <2>5, <2>6 DEF CountInv
<1> QED BY <1>2, <1>8, <1>9

LEMMA CountTillEnds ==
    ASSUME CountInv, NEW r \in Requests, FinishRedeem(r)
    PROVE  CountInv'
<1>1. /\ CodesApart' /\ CodesApart /\ job'[r] = Idle /\ (\A q \in Requests \ {r} : job'[q] = job[q])
      /\ UNCHANGED <<club, order, grant>> /\ job[r].kind = "till"
      /\ \A i \in Clubs, b \in Buyers : i # job[r].id \/ b # job[r].buyer => till'[i][b] = till[i][b]
  BY TillEnds DEF CountInv, Workers
<1>2. CheckoutsApart' /\ TillsApart'
  BY <1>1 DEF CountInv, CheckoutsApart, TillsApart, Idle
<1>3. \A q \in Requests : TillCode(q)' /\ Found(q)'
  BY <1>1 DEF CountInv, TillCode, Found, Idle
<1>4. /\ \A i, a : ReferralUses(i, a)' = ReferralUses(i, a)
      /\ \A p, a : SeenUses(p, a)' = SeenUses(p, a)
  BY <1>1 DEF SeenUses, ReferralUses, OnlineUses, OrdersOf
<1>5. ASSUME NEW q \in Requests, job'[q].kind = "till", ~club'[job'[q].id].renamed
      PROVE  job'[q].seen = till'[job'[q].id][job'[q].buyer]
  <2>1. q # r /\ job'[q] = job[q] /\ job[q].kind = "till" /\ ~club[job[q].id].renamed
    BY <1>1, <1>5 DEF Idle
  <2>2. job[q].id \in Clubs /\ job[q].buyer \in Buyers
    BY <2>1 DEF CountInv, CodesApart, Shapes, JobsSound, JobSound, Workers
  <2>3. job[q].id # job[r].id \/ job[q].buyer # job[r].buyer
    <3>1. SUFFICES ASSUME job[q].id = job[r].id, job[q].buyer = job[r].buyer PROVE FALSE
      OBVIOUS
    <3>2. job[q].code = job[r].code
      BY <1>1, <2>1, <3>1 DEF CountInv, TillCode
    <3> QED BY <1>1, <2>1, <3>1, <3>2 DEF CountInv, TillsApart
  <2> QED BY <1>1, <2>1, <2>2, <2>3 DEF CountInv, CountsStayTrue
<1>6. CountsStayTrue'
  BY <1>1, <1>4, <1>5 DEF CountInv, CountsStayTrue, Idle
<1> QED BY <1>1, <1>2, <1>3, <1>4, <1>6 DEF CountInv

LEMMA CountStep ==
    ASSUME CountInv, [Next]_vars
    PROVE  CountInv'
<1>1. ASSUME NEW r \in Requests, Customer(r) PROVE CountInv'
  <2>1. ASSUME NEW b \in AtTill, NEW c \in Codes, NEW s \in Subtotals, BeginRedeem(r, b, c, s)
        PROVE  CountInv'
    <3>1. b \in Buyers
      BY AmountsAssumption
    <3> QED BY <2>1, <3>1, CountTillBegins
  <2> QED BY <1>1, <2>1, CountBegins, CountEnds, CountTillEnds DEF Customer
<1>2. Manages => CountInv'
  BY ManagedStep, CountManaged DEF CountInv
<1> QED BY <1>1, <1>2, Steps, CountSettles

LEMMA CountInit ==
    ASSUME Init
    PROVE  CountInv
<1>1. CodesApart
  BY CodesApartInit
<1>2. \A r \in Requests : job[r].kind = "idle"
  BY DEF Init, Idle
<1>3. CheckoutsApart /\ TillsApart /\ CountsStayTrue /\ \A r \in Requests : TillCode(r) /\ Found(r)
  BY <1>2 DEF CheckoutsApart, TillsApart, CountsStayTrue, TillCode, Found
<1>4. ASSUME NEW i \in Referrals, NEW b \in Buyers PROVE ReferralUses(i, b) <= MaxReferralUses
  <2>1. Buys(i, b, "referral") = {}
    BY NoneAssumption DEF Init, NoOrder, Buys, OrdersOf
  <2>2. ReferralUses(i, b) = 0
    BY <2>1, UsesAreBuys, FS_EmptySet
  <2> QED BY <2>2, AmountsAssumption
<1>5. \A b \in Buyers : grant[b] >= 0
  BY DEF Init
<1> QED BY <1>1, <1>3, <1>4, <1>5 DEF CountInv

(* A count of uses that a checkout or a redemption at the till has read    *)
(* stays true until it commits, whatever else happens: the locks suffice.  *)
THEOREM CountsAlwaysTrue == Spec => []CountsStayTrue
<1>1. Init => CountInv
  BY CountInit
<1>2. CountInv /\ [Next]_vars => CountInv'
  BY CountStep
<1>3. CountInv => CountsStayTrue
  BY DEF CountInv
<1> QED BY <1>1, <1>2, <1>3, PTL DEF Spec


--------------------------------------------------------------------------------
(* The limits of codes.                                                    *)

Revived == {o \in Orders : order[o].revived}
Taken == {o \in Orders : order[o].buyer # None}

(* Every use of a shop code is an order's or a revival's, and every limit  *)
(* that a row has or a checkout has read is a limit the code has had.      *)
WithinPeak(i) ==
    discount[i].live =>
        /\ discount[i].used <= peak[i] + Cardinality(Revived)
        /\ discount[i].used <= Cardinality(Taken) + Cardinality(Revived)
        /\ peak[i] >= Limit(discount[i])
LimitSeen(r) ==
    job[r].kind = "checkout" /\ job[r].price.by = "shop" =>
        peak[job[r].price.id] >= IF job[r].max # None THEN job[r].max ELSE Cardinality(Orders) + 1
LimitInv ==
    CountInv /\ (\A i \in Discounts : WithinPeak(i)) /\ (\A r \in Requests : LimitSeen(r))

LEMMA LimitNumbers ==
    ASSUME CodesApart
    PROVE  /\ Cardinality(Orders) \in Nat /\ Cardinality(Revived) \in Nat /\ Cardinality(Taken) \in Nat
           /\ \A i \in Discounts : /\ peak[i] \in Nat /\ Limit(discount[i]) \in Nat
                                   /\ discount[i].live => discount[i].used \in Nat
           /\ \A r \in Requests : job[r].kind = "checkout" =>
                    /\ job[r].max \in Nat \cup {None}
                    /\ job[r].price.by = "shop" => job[r].price.id \in Discounts /\ discount[job[r].price.id].live
<1>1. IsFiniteSet(Revived) /\ IsFiniteSet(Taken)
  BY AmountsAssumption, FS_Subset DEF Revived, Taken
<1>2. Cardinality(Orders) \in Nat /\ Cardinality(Revived) \in Nat /\ Cardinality(Taken) \in Nat
  BY <1>1, AmountsAssumption, FS_CardinalityType
<1>3. ASSUME NEW i \in Discounts
      PROVE  peak[i] \in Nat /\ Limit(discount[i]) \in Nat /\ (discount[i].live => discount[i].used \in Nat)
  <2>1. DiscountSound(discount[i]) /\ peak[i] \in Nat
    BY DEF CodesApart, Shapes, DiscountsSound, Counters
  <2>2. Limit(discount[i]) \in Nat
    BY <2>1, LimitIsNat
  <2> QED BY <2>1, <2>2 DEF DiscountSound
<1>4. ASSUME NEW r \in Requests, job[r].kind = "checkout"
      PROVE  /\ job[r].max \in Nat \cup {None}
             /\ job[r].price.by = "shop" => job[r].price.id \in Discounts /\ discount[job[r].price.id].live
  BY <1>4 DEF CodesApart, Shapes, JobsSound, JobSound, PriceSound, JobsLinked, Linked, Workers
<1> QED BY <1>2, <1>3, <1>4

(* The limit is a matter of two fields.                                    *)
LEMMA SameLimit ==
    ASSUME NEW v, NEW w, v.live = w.live, v.live => v.max = w.max
    PROVE  Limit(v) = Limit(w)
BY DEF Limit

LEMMA LimitsManaged ==
    ASSUME LimitInv, CountInv', Managed
    PROVE  LimitInv'
<1>1. CodesApart /\ CodesApart'
  BY DEF LimitInv, CountInv
<1>2. /\ UNCHANGED order
      /\ \A r \in Requests : job'[r] = job[r] \/ job'[r].kind \in {"idle", "discount", "club", "referral"}
  BY DEF Managed, JobKept, Workers
<1>3. Revived' = Revived /\ Taken' = Taken
  BY <1>2 DEF Revived, Taken
<1>4. ASSUME NEW i \in Discounts PROVE WithinPeak(i)'
  <2>1. RowManaged(i) /\ peak'[i] >= peak[i] /\ peak[i] \in Nat /\ peak'[i] \in Nat
    BY <1>1, LimitNumbers DEF Managed, CodesApart, Shapes, Counters
  <2>2. PICK n \in Nat, m \in Nat : n = Cardinality(Revived) /\ m = Cardinality(Taken)
    BY <1>1, LimitNumbers
  <2>3. discount[i].live => /\ discount[i].used <= peak[i] + n /\ discount[i].used <= m + n
                            /\ peak[i] >= Limit(discount[i]) /\ discount[i].used \in Nat
    BY <1>1, <2>2, LimitNumbers DEF LimitInv, WithinPeak
  <2>4. Limit(discount[i]) \in Nat
    BY <1>1, LimitNumbers
  <2>5. CASE discount'[i] = discount[i]
    BY <1>3, <2>1, <2>2, <2>3, <2>4, <2>5 DEF WithinPeak
  <2>6. CASE /\ discount[i].live /\ discount'[i].live /\ discount'[i].used = discount[i].used
             /\ discount'[i].max = discount[i].max
    <3>1. discount'[i].live \in BOOLEAN /\ discount[i].live \in BOOLEAN
      BY <1>1 DEF CodesApart, Shapes, DiscountsSound, DiscountSound
    <3>2. discount'[i].live = discount[i].live
      BY <2>6, <3>1
    <3>3. Limit(discount'[i]) = Limit(discount[i])
      BY <2>6, <3>2, SameLimit
    <3> QED BY <1>3, <2>1, <2>2, <2>3, <2>4, <2>6, <3>3 DEF WithinPeak
  <2>7. CASE /\ discount'[i].live /\ discount'[i].used = (IF discount[i].live THEN discount[i].used ELSE 0)
             /\ peak'[i] >= Limit(discount'[i])
    <3>1. discount'[i].used <= peak'[i] + n /\ discount'[i].used <= m + n
      BY <2>1, <2>2, <2>3, <2>7
    <3> QED BY <1>3, <2>2, <2>7, <3>1 DEF WithinPeak
  <2> QED BY <2>1, <2>5, <2>6, <2>7 DEF RowManaged
<1>5. ASSUME NEW r \in Requests PROVE LimitSeen(r)'
  <2>1. CASE job'[r] = job[r] /\ job[r].kind = "checkout" /\ job[r].price.by = "shop"
    <3>1. PICK i \in Discounts : i = job[r].price.id
      BY <1>1, <2>1, LimitNumbers
    <3>2. PICK n \in Nat : n = IF job[r].max # None THEN job[r].max ELSE Cardinality(Orders) + 1
      BY <1>1, <2>1, LimitNumbers
    <3>3. peak[i] >= n /\ peak'[i] >= peak[i] /\ peak[i] \in Nat /\ peak'[i] \in Nat
      BY <1>1, <2>1, <3>1, <3>2, LimitNumbers DEF LimitInv, LimitSeen, Managed, CodesApart, Shapes, Counters
    <3> QED BY <2>1, <3>1, <3>2, <3>3 DEF LimitSeen
  <2>2. CASE ~(job'[r] = job[r] /\ job[r].kind = "checkout" /\ job[r].price.by = "shop")
    BY <1>2, <2>2 DEF LimitSeen
  <2> QED BY <2>1, <2>2
<1> QED BY <1>4, <1>5 DEF LimitInv

LEMMA LimitsSettle ==
    ASSUME LimitInv, CountInv', NEW o \in Orders, Settles(o)
    PROVE  LimitInv'
<1>1. /\ CodesApart /\ CodesApart' /\ UNCHANGED <<job, peak>>
      /\ order'[o].buyer = order[o].buyer /\ (\A p \in Orders \ {o} : order'[p] = order[p])
      /\ \A i \in Discounts : UsesMove(i)
      /\ \/ /\ order'[o].revived = order[o].revived
            /\ \A i \in Discounts : discount[i].live => discount'[i].used <= discount[i].used
         \/ ~order[o].revived /\ order'[o].revived
  BY SettleStep DEF LimitInv, CountInv
<1>2. Taken' = Taken
  BY <1>1 DEF Taken
<1>3. PICK n \in Nat, m \in Nat, k \in Nat :
        n = Cardinality(Revived) /\ m = Cardinality(Taken) /\ k = Cardinality(Revived)'
  <2>1. Cardinality(Revived) \in Nat /\ Cardinality(Taken) \in Nat
    BY <1>1, LimitNumbers
  <2>2. Cardinality(Revived)' \in Nat
    <3>1. PICK T : T = Revived'
      OBVIOUS
    <3>2. T \subseteq Orders
      BY <3>1 DEF Revived
    <3>3. Cardinality(T) \in Nat
      BY <3>2, AmountsAssumption, FS_Subset, FS_CardinalityType
    <3> QED BY <3>1, <3>3
  <2> QED BY <2>1, <2>2
<1>4. (k = n /\ \A i \in Discounts : discount[i].live => discount'[i].used <= discount[i].used) \/ k = n + 1
  <2>1. CASE /\ order'[o].revived = order[o].revived
             /\ \A i \in Discounts : discount[i].live => discount'[i].used <= discount[i].used
    <3>1. Revived' = Revived
      BY <1>1, <2>1 DEF Revived
    <3> QED BY <1>3, <2>1, <3>1
  <2>2. CASE ~order[o].revived /\ order'[o].revived
    <3>1. Revived' = Revived \cup {o} /\ o \notin Revived
      BY <1>1, <2>2 DEF Revived
    <3>2. PICK T : T = Revived
      OBVIOUS
    <3>3. IsFiniteSet(T) /\ o \notin T
      BY <3>1, <3>2, AmountsAssumption, FS_Subset DEF Revived
    <3>4. Cardinality(T \cup {o}) = Cardinality(T) + 1
      BY <3>3, FS_AddElement
    <3> QED BY <1>3, <3>1, <3>2, <3>4
  <2> QED BY <1>1, <2>1, <2>2
<1>5. ASSUME NEW i \in Discounts PROVE WithinPeak(i)'
  <2>1. UsesMove(i) /\ peak'[i] = peak[i] /\ peak[i] \in Nat
    BY <1>1, LimitNumbers
  <2>2. CASE discount[i].live
    <3>1. PICK u \in Nat, v \in Nat : u = discount[i].used /\ v = discount'[i].used
      BY <1>1, <2>1, <2>2, LimitNumbers DEF UsesMove
    <3>2. u <= peak[i] + n /\ u <= m + n /\ peak[i] >= Limit(discount[i])
      BY <1>3, <2>2, <3>1 DEF LimitInv, WithinPeak
    <3>3. v <= u + 1 /\ (k = n => v <= u)
      BY <1>4, <2>1, <2>2, <3>1 DEF UsesMove
    <3>4. v <= peak[i] + k /\ v <= m + k
      BY <1>4, <2>1, <3>2, <3>3
    <3>5. discount'[i].live = discount[i].live /\ discount'[i].max = discount[i].max
      BY <2>1, <2>2 DEF UsesMove, DiscountFields
    <3>6. Limit(discount'[i]) = Limit(discount[i])
      BY <3>5, SameLimit
    <3> QED BY <1>2, <1>3, <2>1, <3>1, <3>2, <3>4, <3>6 DEF WithinPeak
  <2>3. CASE ~discount[i].live
    BY <2>1, <2>3 DEF WithinPeak, UsesMove
  <2> QED BY <2>2, <2>3
<1>6. \A r \in Requests : LimitSeen(r)'
  BY <1>1 DEF LimitInv, LimitSeen
<1> QED BY <1>5, <1>6 DEF LimitInv

LEMMA LimitsBegin ==
    ASSUME LimitInv, CountInv', NEW r \in Requests, NEW b \in Buyers, NEW c \in Codes \cup {None},
           NEW cents \in Subtotals, BeginCheckout(r, b, c, cents)
    PROVE  LimitInv'
<1>1. CodesApart
  BY DEF LimitInv, CountInv
<1>2. PICK w : Began(w, b, cents) /\ job'[r] = w
  BY <1>1, CheckoutBegun
<1>3. (\A q \in Requests \ {r} : job'[q] = job[q]) /\ UNCHANGED <<discount, order, peak>>
  BY <1>1, CheckoutBegun DEF Workers
<1>4. \A i \in Discounts : WithinPeak(i)'
  BY <1>3 DEF LimitInv, WithinPeak, Revived, Taken
<1>5. LimitSeen(r)'
  <2>1. SUFFICES ASSUME w.price.by = "shop"
                 PROVE  peak[w.price.id] >= IF w.max # None THEN w.max ELSE Cardinality(Orders) + 1
    BY <1>2, <1>3 DEF LimitSeen
  <2>2. w.price.id \in Discounts /\ discount[w.price.id].live /\ w.max = discount[w.price.id].max
    BY <1>2, <2>1 DEF Began, PriceSound
  <2>3. peak[w.price.id] >= Limit(discount[w.price.id])
    BY <2>2 DEF LimitInv, WithinPeak
  <2> QED BY <2>2, <2>3 DEF Limit
<1>6. \A q \in Requests : LimitSeen(q)'
  BY <1>3, <1>5 DEF LimitInv, LimitSeen
<1> QED BY <1>4, <1>6 DEF LimitInv

LEMMA LimitsEnd ==
    ASSUME LimitInv, CountInv', NEW r \in Requests, FinishCheckout(r)
    PROVE  LimitInv'
<1> DEFINE j == job[r]
<1>1. /\ CodesApart' /\ CodesApart /\ job'[r] = Idle /\ (\A q \in Requests \ {r} : job'[q] = job[q])
      /\ UNCHANGED peak
  BY CheckoutEnds DEF LimitInv, CountInv, Workers
<1>2. \/ UNCHANGED <<order, discount>>
      \/ /\ TakesUse(j) /\ \E o \in Free : Ordered(j, o)
         /\ (j.price.by # "shop" /\ UNCHANGED discount) \/ UseCounted(j)
  BY CheckoutEnds DEF LimitInv, CountInv
<1>3. \A q \in Requests : LimitSeen(q)'
  BY <1>1 DEF LimitInv, LimitSeen, Idle
<1>4. CASE UNCHANGED <<order, discount>>
  <2>1. \A i \in Discounts : WithinPeak(i)'
    BY <1>1, <1>4 DEF LimitInv, WithinPeak, Revived, Taken
  <2> QED BY <1>3, <2>1 DEF LimitInv
<1>5. ASSUME TakesUse(j), NEW o \in Free, Ordered(j, o),
             (j.price.by # "shop" /\ UNCHANGED discount) \/ UseCounted(j)
      PROVE  LimitInv'
  <2>1. /\ o \in Orders /\ order[o].buyer = None /\ ~order[o].revived /\ order'[o].buyer # None
        /\ order'[o].revived = FALSE /\ \A p \in Orders \ {o} : order'[p] = order[p]
    <3>1. j.buyer # None
      <4>1. j.kind = "checkout" /\ JobSound(j)
        BY <1>1 DEF FinishCheckout, CodesApart, Shapes, JobsSound, Workers
      <4> QED BY <4>1, NoneAssumption DEF JobSound
    <3>2. o \in Orders /\ order[o].buyer = None
      BY DEF Free
    <3>3. OrderSound(order[o])
      BY <1>1, <3>2 DEF CodesApart, Shapes, OrdersSound
    <3>4. ~order[o].revived
      BY <3>2, <3>3 DEF OrderSound
    <3> QED BY <1>5, <3>1, <3>2, <3>4 DEF Ordered
  <2>2. Revived' = Revived
    BY <2>1 DEF Revived
  <2>3. PICK n \in Nat, m \in Nat, all \in Nat :
            n = Cardinality(Revived) /\ m = Cardinality(Taken) /\ all = Cardinality(Orders)
    BY <1>1, LimitNumbers
  <2>4. Cardinality(Taken)' = m + 1 /\ m + 1 <= all
    <3>1. PICK T : T = Taken
      OBVIOUS
    <3>2. Taken' = T \cup {o} /\ o \notin T /\ T \subseteq Orders /\ T \cup {o} \subseteq Orders
      BY <2>1, <3>1 DEF Taken
    <3>3. IsFiniteSet(T) /\ IsFiniteSet(Orders)
      BY <3>2, AmountsAssumption, FS_Subset
    <3>4. Cardinality(T \cup {o}) = Cardinality(T) + 1
      BY <3>2, <3>3, FS_AddElement
    <3>5. Cardinality(T \cup {o}) <= Cardinality(Orders)
      BY <3>2, <3>3, FS_Subset
    <3> QED BY <2>3, <3>1, <3>2, <3>4, <3>5
  <2>5. ASSUME NEW i \in Discounts PROVE WithinPeak(i)'
    <3>1. peak'[i] = peak[i] /\ peak[i] \in Nat
      BY <1>1, LimitNumbers
    <3>2. discount[i].live => /\ discount[i].used <= peak[i] + n /\ discount[i].used <= m + n
                              /\ peak[i] >= Limit(discount[i]) /\ discount[i].used \in Nat
      BY <1>1, <2>3, LimitNumbers DEF LimitInv, WithinPeak
    <3>3. CASE discount'[i] = discount[i]
      BY <2>2, <2>3, <2>4, <3>1, <3>2, <3>3 DEF WithinPeak
    <3>4. CASE UseCounted(j) /\ i = j.price.id
      <4>1. /\ j.kind = "checkout" /\ j.price.by = "shop" /\ discount[i].live
            /\ j.max \in Nat \cup {None}
        BY <1>1, <3>4, LimitNumbers DEF UseCounted, FinishCheckout
      <4>2. discount'[i].used = discount[i].used + 1 /\ discount'[i].max = discount[i].max
            /\ discount'[i].live = discount[i].live
        BY <3>4 DEF UseCounted, DiscountFields
      <4>3. peak[i] >= IF j.max # None THEN j.max ELSE all + 1
        BY <2>3, <3>4, <4>1 DEF LimitInv, LimitSeen
      <4>4. j.max # None => discount[i].used < j.max
        BY <1>5, <3>4, <4>1 DEF TakesUse
      <4>5. PICK u \in Nat : u = discount[i].used
        BY <3>2, <4>1
      <4>6. u + 1 <= peak[i] + n /\ u + 1 <= m + 1 + n
        <5>1. CASE j.max = None
          BY <2>4, <3>1, <3>2, <4>1, <4>3, <4>5, <5>1
        <5>2. CASE j.max # None
          BY <3>1, <3>2, <4>1, <4>3, <4>4, <4>5, <5>2
        <5> QED BY <5>1, <5>2
      <4>7. Limit(discount'[i]) = Limit(discount[i])
        BY <4>2, SameLimit
      <4> QED BY <2>2, <2>3, <2>4, <3>1, <3>2, <4>1, <4>2, <4>5, <4>6, <4>7 DEF WithinPeak
    <3>5. CASE UseCounted(j) /\ i # j.price.id
      BY <3>3, <3>5 DEF UseCounted
    <3> QED BY <1>5, <3>3, <3>4, <3>5
  <2> QED BY <1>3, <2>5 DEF LimitInv
<1> QED BY <1>2, <1>4, <1>5

LEMMA LimitsTill ==
    ASSUME LimitInv, CountInv', NEW r \in Requests, NEW b \in Buyers, NEW c, NEW cents,
           BeginRedeem(r, b, c, cents) \/ FinishRedeem(r)
    PROVE  LimitInv'
<1>1. /\ UNCHANGED <<discount, order, peak>> /\ \A q \in Requests \ {r} : job'[q] = job[q]
      /\ job'[r].kind # "checkout"
  <2>1. job = [q \in Workers |-> job[q]] /\ r \in Workers
    BY DEF LimitInv, CountInv, CodesApart, Shapes, JobsSound, Workers
  <2>2. CASE BeginRedeem(r, b, c, cents)
    BY <2>1, <2>2 DEF BeginRedeem, rowVars, Workers
  <2>3. CASE FinishRedeem(r)
    BY <2>1, <2>3 DEF FinishRedeem, rowVars, Idle, Workers
  <2> QED BY <2>2, <2>3
<1>2. \A i \in Discounts : WithinPeak(i)'
  BY <1>1 DEF LimitInv, WithinPeak, Revived, Taken
<1>3. \A q \in Requests : LimitSeen(q)'
  BY <1>1 DEF LimitInv, LimitSeen
<1> QED BY <1>2, <1>3 DEF LimitInv

LEMMA LimitStep ==
    ASSUME LimitInv, [Next]_vars
    PROVE  LimitInv'
<1>1. CountInv /\ CountInv'
  BY CountStep DEF LimitInv
<1>2. ASSUME NEW r \in Requests, Customer(r) PROVE LimitInv'
  <2>1. ASSUME NEW b \in AtTill, NEW c \in Codes, NEW s \in Subtotals, BeginRedeem(r, b, c, s)
        PROVE  LimitInv'
    <3>1. b \in Buyers
      BY AmountsAssumption
    <3> QED BY <1>1, <2>1, <3>1, LimitsTill
  <2>2. ASSUME FinishRedeem(r) PROVE LimitInv'
    <3>1. PICK b \in Buyers : b = job[r].buyer
      BY <1>1, <2>2, TillEnds DEF CountInv
    <3> QED BY <1>1, <2>2, LimitsTill
  <2> QED BY <1>1, <1>2, <2>1, <2>2, LimitsBegin, LimitsEnd DEF Customer
<1>3. Manages => LimitInv'
  BY <1>1, ManagedStep, LimitsManaged DEF CountInv
<1> QED BY <1>1, <1>2, <1>3, Steps, LimitsSettle

LEMMA LimitInit ==
    ASSUME Init
    PROVE  LimitInv
<1>1. CountInv /\ CodesApart
  BY CountInit DEF CountInv
<1>2. \A r \in Requests : LimitSeen(r)
  BY DEF Init, Idle, LimitSeen
<1>3. ASSUME NEW i \in Discounts, discount[i].live PROVE discount[i].used = 0
  <2>1. discount[i] # NoRow
    BY <1>3 DEF NoRow
  <2>2. PICK f : discount[i] = DiscountRow(f)
    BY <2>1 DEF Init
  <2> QED BY <2>2 DEF DiscountRow, Over
<1>4. \A i \in Discounts : WithinPeak(i)
  <2>1. \A i \in Discounts : peak[i] = Limit(discount[i])
    BY DEF Init
  <2> QED BY <1>1, <1>3, <2>1, LimitNumbers DEF WithinPeak
<1> QED BY <1>1, <1>2, <1>4 DEF LimitInv

(* A shop code is used no more often than the highest limit it has had     *)
(* allows, revivals aside, and a referral code never beyond its three      *)
(* orders of a buyer.                                                      *)
THEOREM UsesAlwaysWithinLimit == Spec => []UsesWithinLimit
<1>1. Init => LimitInv
  BY LimitInit
<1>2. LimitInv /\ [Next]_vars => LimitInv'
  BY LimitStep
<1>3. LimitInv => UsesWithinLimit
  BY DEF LimitInv, CountInv, CodesApart, Shapes, DiscountsSound, WithinPeak, Revived, UsesWithinLimit, Live
<1> QED BY <1>1, <1>2, <1>3, PTL DEF Spec


--------------------------------------------------------------------------------
(* Rows that a form would have given, and what is charged.                 *)

FitDiscount(row) ==
    /\ ValueFits(row.type, row.value) /\ row.from < row.to
    /\ row.scope = "SINGLE_USER" => row.user # None
    /\ (row.scope = "MULTIPLE_USERS") = (row.eligible # {})
FitClub(row) == ValueFits(row.type, row.value) /\ (row.tier = "FLAT") = (row.tiers = {})
FitReferral(row) == PercentsFit(row.discount, row.cashback)

(* Only removal writes "active" besides an update.                         *)
Alike(v, w, fields) == \A x \in DOMAIN fields \ {"active"} : v[x] = w[x]

LEMMA AlikeFits ==
    /\ \A v, w : Alike(v, w, DiscountFields) /\ FitDiscount(w) => FitDiscount(v)
    /\ \A v, w : Alike(v, w, ClubFields) /\ FitClub(w) => FitClub(v)
    /\ \A v, w : Alike(v, w, ReferralFields) /\ FitReferral(w) => FitReferral(v)
<1>1. ASSUME NEW v, NEW w, Alike(v, w, DiscountFields), FitDiscount(w) PROVE FitDiscount(v)
  <2>1. \A x \in {"type", "value", "from", "to", "scope", "user", "eligible"} : x \in DOMAIN DiscountFields \ {"active"}
    BY DEF DiscountFields
  <2> QED BY <1>1, <2>1 DEF Alike, FitDiscount
<1>2. ASSUME NEW v, NEW w, Alike(v, w, ClubFields), FitClub(w) PROVE FitClub(v)
  <2>1. \A x \in {"type", "value", "tier", "tiers"} : x \in DOMAIN ClubFields \ {"active"}
    BY DEF ClubFields
  <2> QED BY <1>2, <2>1 DEF Alike, FitClub
<1>3. ASSUME NEW v, NEW w, Alike(v, w, ReferralFields), FitReferral(w) PROVE FitReferral(v)
  <2>1. \A x \in {"discount", "cashback"} : x \in DOMAIN ReferralFields \ {"active"}
    BY DEF ReferralFields
  <2> QED BY <1>3, <2>1 DEF Alike, FitReferral
<1> QED BY <1>1, <1>2, <1>3

LEMMA FormsFit ==
    /\ \A f \in DiscountForms : DiscountFormFits(f) => FitDiscount(DiscountRow(f))
    /\ \A f \in ClubForms : ClubFormFits(f) => FitClub(ClubRow(f))
    /\ \A f \in ReferralForms : PercentsFit(f.discount, f.cashback) => FitReferral(ReferralRow(f))
<1>1. ASSUME NEW f \in DiscountForms, DiscountFormFits(f) PROVE FitDiscount(DiscountRow(f))
  <2>1. \A x \in DOMAIN DiscountFields : DiscountRow(f)[x] = f[x]
    BY BodiesAssumption, NewDiscountSound
  <2>2. FitDiscount(f)
    BY <1>1 DEF DiscountFormFits, ScopeFits, FitDiscount
  <2> QED BY <2>1, <2>2, AlikeFits DEF Alike
<1>2. ASSUME NEW f \in ClubForms, ClubFormFits(f) PROVE FitClub(ClubRow(f))
  <2>1. \A x \in DOMAIN ClubFields : ClubRow(f)[x] = f[x]
    BY BodiesAssumption, NewClubSound
  <2>2. FitClub(f)
    BY <1>2 DEF ClubFormFits, TiersFit, FitClub
  <2> QED BY <2>1, <2>2, AlikeFits DEF Alike
<1>3. ASSUME NEW f \in ReferralForms, PercentsFit(f.discount, f.cashback) PROVE FitReferral(ReferralRow(f))
  <2>1. \A x \in {"discount", "cashback"} : ReferralRow(f)[x] = f[x]
    BY BodiesAssumption, NewReferralSound
  <2> QED BY <1>3, <2>1 DEF FitReferral
<1> QED BY <1>1, <1>2, <1>3

(* A change of a row that is still as it was loaded.                       *)
LEMMA ChangedDiscountFits ==
    ASSUME NEW j, JobSound(j), j.kind = "discount", NEW row, DiscountSound(row), row.live,
           Alike(row, j.row, DiscountFields), FitDiscount(row), DiscountChangeFits(j)
    PROVE  FitDiscount(DiscountChanged(j, row))
<1>1. PICK new : new = DiscountChanged(j, row)
  OBVIOUS
<1>2. /\ \A x \in {"type", "value"} : new[x] = IF x \in DOMAIN j.change THEN j.change[x] ELSE row[x]
      /\ new.scope = Now(j, "scope") /\ new.from = Now(j, "from") /\ new.to = Now(j, "to")
      /\ new.user = ForScope(j, "user", "SINGLE_USER")
      /\ new.eligible = IF Now(j, "scope") # "MULTIPLE_USERS" THEN {}
                        ELSE IF Given(j, {"eligible"}) THEN j.change.eligible ELSE row.eligible
  BY <1>1, ChangedDiscountSound
<1>3. row.type = j.row.type /\ row.value = j.row.value /\ row.eligible = j.row.eligible
  BY DEF Alike, DiscountFields
<1>4. new.type = Now(j, "type") /\ new.value = Now(j, "value")
  BY <1>2, <1>3 DEF Now
<1>5. ValueFits(new.type, new.value)
  <2>1. CASE Given(j, {"type", "value"})
    BY <1>4, <2>1 DEF DiscountChangeFits
  <2>2. CASE ~Given(j, {"type", "value"})
    <3>1. new.type = row.type /\ new.value = row.value
      BY <1>2, <2>2 DEF Given
    <3> QED BY <3>1 DEF FitDiscount
  <2> QED BY <2>1, <2>2
<1>6. new.from < new.to
  BY <1>2 DEF DiscountChangeFits
<1>7. CASE Now(j, "scope") = "MULTIPLE_USERS"
  <2>1. Now(j, "eligible") # {}
    BY <1>7 DEF DiscountChangeFits
  <2>2. new.eligible = Now(j, "eligible")
    BY <1>2, <1>3, <1>7 DEF Given, Now
  <2> QED BY <1>1, <1>2, <1>5, <1>6, <1>7, <2>1, <2>2 DEF FitDiscount
<1>8. CASE Now(j, "scope") # "MULTIPLE_USERS"
  <2>1. ScopeFits(Now(j, "scope"), ForScope(j, "user", "SINGLE_USER"), ForScope(j, "group", "USER_GROUP"), {})
    BY <1>8 DEF DiscountChangeFits
  <2>2. new.scope = "SINGLE_USER" => new.user # None
    BY <1>2, <2>1 DEF ScopeFits
  <2> QED BY <1>1, <1>2, <1>5, <1>6, <1>8, <2>2 DEF FitDiscount
<1> QED BY <1>7, <1>8

LEMMA ChangedClubFits ==
    ASSUME NEW j, JobSound(j), j.kind = "club", NEW row, ClubSound(row), row.live,
           Alike(row, j.row, ClubFields), FitClub(row), ClubChangeFits(j)
    PROVE  FitClub(ClubChanged(j, row))
<1>1. PICK new : new = ClubChanged(j, row)
  OBVIOUS
<1>2. /\ \A x \in {"type", "value", "tier"} : new[x] = IF x \in DOMAIN j.change THEN j.change[x] ELSE row[x]
      /\ new.tiers = IF ~Given(j, {"tier", "tiers"}) THEN row.tiers
                     ELSE IF Now(j, "tier") = "FLAT" THEN {} ELSE Now(j, "tiers")
  BY <1>1, ChangedClubSound
<1>3. row.type = j.row.type /\ row.value = j.row.value /\ row.tier = j.row.tier /\ row.tiers = j.row.tiers
  BY DEF Alike, ClubFields
<1>4. new.type = Now(j, "type") /\ new.value = Now(j, "value") /\ new.tier = Now(j, "tier")
  BY <1>2, <1>3 DEF Now
<1>5. ValueFits(new.type, new.value)
  <2>1. CASE Given(j, {"type", "value"})
    BY <1>4, <2>1 DEF ClubChangeFits
  <2>2. CASE ~Given(j, {"type", "value"})
    <3>1. new.type = row.type /\ new.value = row.value
      BY <1>2, <2>2 DEF Given
    <3> QED BY <3>1 DEF FitClub
  <2> QED BY <2>1, <2>2
<1>6. (new.tier = "FLAT") = (new.tiers = {})
  <2>1. CASE Given(j, {"tier", "tiers"})
    <3>1. TiersFit(Now(j, "tier"), Now(j, "type"), IF Now(j, "tier") = "FLAT" THEN {} ELSE Now(j, "tiers"), Now(j, "usage"))
      BY <2>1 DEF ClubChangeFits
    <3> QED BY <1>2, <1>4, <2>1, <3>1 DEF TiersFit
  <2>2. CASE ~Given(j, {"tier", "tiers"})
    <3>1. new.tier = row.tier /\ new.tiers = row.tiers
      BY <1>2, <2>2 DEF Given
    <3> QED BY <3>1 DEF FitClub
  <2> QED BY <2>1, <2>2
<1> QED BY <1>1, <1>5, <1>6 DEF FitClub

LEMMA ChangedReferralFits ==
    ASSUME NEW j, JobSound(j), j.kind = "referral", NEW row, ReferralSound(row), row.live,
           Alike(row, j.row, ReferralFields), FitReferral(row),
           Given(j, {"discount", "cashback"}) => PercentsFit(Now(j, "discount"), Now(j, "cashback"))
    PROVE  FitReferral(Over(j.change, row))
<1>1. PICK new : new = Over(j.change, row)
  OBVIOUS
<1>2. \A x \in {"discount", "cashback"} : new[x] = IF x \in DOMAIN j.change THEN j.change[x] ELSE row[x]
  BY <1>1, ChangedReferralSound
<1>3. row.discount = j.row.discount /\ row.cashback = j.row.cashback
  BY DEF Alike, ReferralFields
<1>4. new.discount = Now(j, "discount") /\ new.cashback = Now(j, "cashback")
  BY <1>2, <1>3 DEF Now
<1>5. CASE Given(j, {"discount", "cashback"})
  BY <1>1, <1>4, <1>5 DEF FitReferral
<1>6. CASE ~Given(j, {"discount", "cashback"})
  <2>1. new.discount = row.discount /\ new.cashback = row.cashback
    BY <1>2, <1>6 DEF Given
  <2> QED BY <1>1, <2>1 DEF FitReferral
<1> QED BY <1>5, <1>6

(* One person at a time edits the rows.                                    *)
OneAdmin == \A a, b \in Admins : a = b

RowsFit ==
    /\ \A i \in Discounts : discount[i].live => FitDiscount(discount[i])
    /\ \A i \in Clubs : club[i].live => FitClub(club[i])
    /\ \A i \in Referrals : referral[i].live => FitReferral(referral[i])

(* A row that is being updated is still as it was loaded.                  *)
AsLoaded(a) ==
    /\ job[a].kind = "discount" => Alike(discount[job[a].id], job[a].row, DiscountFields)
    /\ job[a].kind = "club" => Alike(club[job[a].id], job[a].row, ClubFields)
    /\ job[a].kind = "referral" => Alike(referral[job[a].id], job[a].row, ReferralFields)

Charged(o) == order[o].cents \in Nat /\ order[o].discount \in 0..order[o].cents /\ order[o].payable \in Nat
PriceWithin(r) == job[r].kind = "checkout" => job[r].price.cents \in 0..job[r].cents

EditsFit == CodesApart /\ RowsFit /\ \A a \in Admins : AsLoaded(a)
FitInv ==
    /\ CountInv /\ EditsFit
    /\ \A o \in Orders : Charged(o)
    /\ \A r \in Requests : PriceWithin(r)

(* What a step may do to a row: write nothing that an update looks at,     *)
(* create it from a form, or end the one update.                           *)
DiscountMoves(i) ==
    \/ discount'[i].live = discount[i].live
       /\ (discount[i].live => Alike(discount'[i], discount[i], DiscountFields))
    \/ ~discount[i].live /\ FitDiscount(discount'[i])
    \/ FitDiscount(discount'[i]) /\ \A a \in Admins : job'[a].kind = "idle"
ClubMoves(i) ==
    \/ club'[i].live = club[i].live /\ (club[i].live => Alike(club'[i], club[i], ClubFields))
    \/ ~club[i].live /\ FitClub(club'[i])
    \/ FitClub(club'[i]) /\ \A a \in Admins : job'[a].kind = "idle"
ReferralMoves(i) ==
    \/ referral'[i].live = referral[i].live
       /\ (referral[i].live => Alike(referral'[i], referral[i], ReferralFields))
    \/ ~referral[i].live /\ FitReferral(referral'[i])
    \/ FitReferral(referral'[i]) /\ \A a \in Admins : job'[a].kind = "idle"
Moves ==
    /\ \A i \in Discounts : DiscountMoves(i)
    /\ \A i \in Clubs : ClubMoves(i)
    /\ \A i \in Referrals : ReferralMoves(i)
    /\ \A a \in Admins : job'[a] = job[a] \/ job'[a].kind \notin {"discount", "club", "referral"} \/ AsLoaded(a)'

LEMMA StillMoves ==
    /\ UNCHANGED discount => \A i \in Discounts : DiscountMoves(i)
    /\ UNCHANGED club => \A i \in Clubs : ClubMoves(i)
    /\ UNCHANGED referral => \A i \in Referrals : ReferralMoves(i)
BY DEF DiscountMoves, ClubMoves, ReferralMoves, Alike

LEMMA EditsFitStep ==
    ASSUME EditsFit, CodesApart', Moves
    PROVE  EditsFit'
<1>1. ASSUME NEW i \in Discounts, discount'[i].live PROVE FitDiscount(discount'[i])
  BY <1>1, AlikeFits DEF EditsFit, RowsFit, Moves, DiscountMoves
<1>2. ASSUME NEW i \in Clubs, club'[i].live PROVE FitClub(club'[i])
  BY <1>2, AlikeFits DEF EditsFit, RowsFit, Moves, ClubMoves
<1>3. ASSUME NEW i \in Referrals, referral'[i].live PROVE FitReferral(referral'[i])
  BY <1>3, AlikeFits DEF EditsFit, RowsFit, Moves, ReferralMoves
<1>4. RowsFit'
  BY <1>1, <1>2, <1>3 DEF RowsFit
<1>5. ASSUME NEW a \in Admins PROVE AsLoaded(a)'
  <2>1. CASE job'[a] = job[a]
    <3>1. JobSound(job[a]) /\ Linked(job[a]) /\ AsLoaded(a)
      BY DEF EditsFit, CodesApart, Shapes, JobsSound, JobsLinked, Workers
    <3>2. ASSUME job[a].kind = "discount" PROVE Alike(discount'[job[a].id], job[a].row, DiscountFields)
      <4>1. PICK i \in Discounts : i = job[a].id
        BY <3>1, <3>2 DEF JobSound
      <4>2. Alike(discount'[i], discount[i], DiscountFields)
        BY <2>1, <3>1, <3>2, <4>1 DEF Moves, DiscountMoves, Linked
      <4> QED BY <3>1, <3>2, <4>1, <4>2 DEF AsLoaded, Alike
    <3>3. ASSUME job[a].kind = "club" PROVE Alike(club'[job[a].id], job[a].row, ClubFields)
      <4>1. PICK i \in Clubs : i = job[a].id
        BY <3>1, <3>3 DEF JobSound
      <4>2. Alike(club'[i], club[i], ClubFields)
        BY <2>1, <3>1, <3>3, <4>1 DEF Moves, ClubMoves, Linked
      <4> QED BY <3>1, <3>3, <4>1, <4>2 DEF AsLoaded, Alike
    <3>4. ASSUME job[a].kind = "referral" PROVE Alike(referral'[job[a].id], job[a].row, ReferralFields)
      <4>1. PICK i \in Referrals : i = job[a].id
        BY <3>1, <3>4 DEF JobSound
      <4>2. Alike(referral'[i], referral[i], ReferralFields)
        BY <2>1, <3>1, <3>4, <4>1 DEF Moves, ReferralMoves, Linked
      <4> QED BY <3>1, <3>4, <4>1, <4>2 DEF AsLoaded, Alike
    <3> QED BY <2>1, <3>2, <3>3, <3>4 DEF AsLoaded
  <2>2. CASE job'[a].kind \notin {"discount", "club", "referral"}
    BY <2>2 DEF AsLoaded
  <2> QED BY <2>1, <2>2 DEF Moves
<1> QED BY <1>4, <1>5 DEF EditsFit

(* Creation and removal.                                                   *)
LEMMA CreationMoves ==
    ASSUME CodesApart,
           \/ \E i \in Discounts, f \in DiscountForms : CreateDiscount(i, f)
           \/ \E i \in Clubs, f \in ClubForms : CreateClub(i, f)
           \/ \E i \in Referrals, f \in ReferralForms, blogger \in BOOLEAN : CreateReferral(i, f, blogger)
    PROVE  Moves
<1>1. ASSUME NEW i \in Discounts, NEW f \in DiscountForms, CreateDiscount(i, f) PROVE Moves
  <2>1. /\ ~discount[i].live /\ DiscountFormFits(f) /\ discount' = [discount EXCEPT ![i] = DiscountRow(f)]
        /\ UNCHANGED <<club, referral, job>> /\ discount = [k \in Discounts |-> discount[k]]
    BY <1>1 DEF CreateDiscount, CodesApart, Shapes, DiscountsSound
  <2>2. discount'[i] = DiscountRow(f) /\ \A k \in Discounts \ {i} : discount'[k] = discount[k]
    BY <2>1
  <2>3. \A k \in Discounts : DiscountMoves(k)
    BY <2>1, <2>2, FormsFit DEF DiscountMoves, Alike
  <2> QED BY <2>1, <2>3, StillMoves DEF Moves
<1>2. ASSUME NEW i \in Clubs, NEW f \in ClubForms, CreateClub(i, f) PROVE Moves
  <2>1. /\ ~club[i].live /\ ClubFormFits(f) /\ club' = [club EXCEPT ![i] = ClubRow(f)]
        /\ UNCHANGED <<discount, referral, job>> /\ club = [k \in Clubs |-> club[k]]
    BY <1>2 DEF CreateClub, CodesApart, Shapes, ClubsSound
  <2>2. club'[i] = ClubRow(f) /\ \A k \in Clubs \ {i} : club'[k] = club[k]
    BY <2>1
  <2>3. \A k \in Clubs : ClubMoves(k)
    BY <2>1, <2>2, FormsFit DEF ClubMoves, Alike
  <2> QED BY <2>1, <2>3, StillMoves DEF Moves
<1>3. ASSUME NEW i \in Referrals, NEW f \in ReferralForms, NEW blogger, CreateReferral(i, f, blogger) PROVE Moves
  <2>1. /\ ~referral[i].live /\ PercentsFit(f.discount, f.cashback)
        /\ referral' = [referral EXCEPT ![i] = ReferralRow(f)]
        /\ UNCHANGED <<discount, club, job>> /\ referral = [k \in Referrals |-> referral[k]]
    BY <1>3 DEF CreateReferral, CodesApart, Shapes, ReferralsSound
  <2>2. referral'[i] = ReferralRow(f) /\ \A k \in Referrals \ {i} : referral'[k] = referral[k]
    BY <2>1
  <2>3. \A k \in Referrals : ReferralMoves(k)
    BY <2>1, <2>2, FormsFit DEF ReferralMoves, Alike
  <2> QED BY <2>1, <2>3, StillMoves DEF Moves
<1> QED BY <1>1, <1>2, <1>3

LEMMA RemovalMoves ==
    ASSUME CodesApart,
           \/ \E i \in Discounts : RemoveDiscount(i)
           \/ \E i \in Clubs : DeactivateClub(i)
           \/ \E i \in Referrals : DeactivateReferral(i)
    PROVE  Moves
<1>1. ASSUME NEW i \in Discounts, RemoveDiscount(i) PROVE Moves
  <2>1. /\ discount' = [discount EXCEPT ![i].deleted = TRUE, ![i].active = FALSE] /\ discount[i].live
        /\ UNCHANGED <<club, referral, job>> /\ discount = [k \in Discounts |-> discount[k]]
        /\ DOMAIN DiscountFields \cup {"live", "deleted"} \subseteq DOMAIN discount[i]
    BY <1>1 DEF RemoveDiscount, CodesApart, Shapes, DiscountsSound, DiscountSound
  <2>2. PICK row : row = [discount[i] EXCEPT !.deleted = TRUE, !.active = FALSE]
    OBVIOUS
  <2>3. discount'[i] = row /\ \A k \in Discounts \ {i} : discount'[k] = discount[k]
    BY <2>1, <2>2
  <2>4. \A x \in DOMAIN discount[i] : x \notin {"deleted", "active"} => row[x] = discount[i][x]
    BY <2>2
  <2>5. "deleted" \notin DOMAIN DiscountFields
    BY DEF DiscountFields
  <2>6. Alike(row, discount[i], DiscountFields) /\ row.live = discount[i].live
    BY <2>1, <2>4, <2>5 DEF Alike
  <2>7. \A k \in Discounts : DiscountMoves(k)
    BY <2>3, <2>6 DEF DiscountMoves, Alike
  <2> QED BY <2>1, <2>7, StillMoves DEF Moves
<1>2. ASSUME NEW i \in Clubs, DeactivateClub(i) PROVE Moves
  <2>1. /\ club' = [club EXCEPT ![i].active = FALSE] /\ club[i].live
        /\ UNCHANGED <<discount, referral, job>> /\ club = [k \in Clubs |-> club[k]]
        /\ DOMAIN ClubFields \cup {"live"} \subseteq DOMAIN club[i]
    BY <1>2 DEF DeactivateClub, CodesApart, Shapes, ClubsSound, ClubSound
  <2>2. PICK row : row = [club[i] EXCEPT !.active = FALSE]
    OBVIOUS
  <2>3. club'[i] = row /\ \A k \in Clubs \ {i} : club'[k] = club[k]
    BY <2>1, <2>2
  <2>4. \A x \in DOMAIN club[i] : x # "active" => row[x] = club[i][x]
    BY <2>2
  <2>5. Alike(row, club[i], ClubFields) /\ row.live = club[i].live
    BY <2>1, <2>4 DEF Alike
  <2>6. \A k \in Clubs : ClubMoves(k)
    BY <2>3, <2>5 DEF ClubMoves, Alike
  <2> QED BY <2>1, <2>6, StillMoves DEF Moves
<1>3. ASSUME NEW i \in Referrals, DeactivateReferral(i) PROVE Moves
  <2>1. /\ referral' = [referral EXCEPT ![i].active = FALSE, ![i].deleted = TRUE] /\ referral[i].live
        /\ UNCHANGED <<discount, club, job>> /\ referral = [k \in Referrals |-> referral[k]]
        /\ DOMAIN ReferralFields \cup {"live", "deleted"} \subseteq DOMAIN referral[i]
    BY <1>3 DEF DeactivateReferral, CodesApart, Shapes, ReferralsSound, ReferralSound
  <2>2. PICK row : row = [referral[i] EXCEPT !.active = FALSE, !.deleted = TRUE]
    OBVIOUS
  <2>3. referral'[i] = row /\ \A k \in Referrals \ {i} : referral'[k] = referral[k]
    BY <2>1, <2>2
  <2>4. \A x \in DOMAIN referral[i] : x \notin {"deleted", "active"} => row[x] = referral[i][x]
    BY <2>2
  <2>5. "deleted" \notin DOMAIN ReferralFields
    BY DEF ReferralFields
  <2>6. Alike(row, referral[i], ReferralFields) /\ row.live = referral[i].live
    BY <2>1, <2>4, <2>5 DEF Alike
  <2>7. \A k \in Referrals : ReferralMoves(k)
    BY <2>3, <2>6 DEF ReferralMoves, Alike
  <2> QED BY <2>1, <2>7, StillMoves DEF Moves
<1> QED BY <1>1, <1>2, <1>3


LEMMA LoadMoves ==
    ASSUME CodesApart, NEW a \in Admins, Loads(a)
    PROVE  Moves
<1>1. UNCHANGED <<discount, club, referral>> /\ job = [q \in Workers |-> job[q]] /\ a \in Workers /\ Admins \subseteq Workers
  BY DEF Loads, LoadRow, rowVars, CodesApart, Shapes, JobsSound, Workers
<1>2. ASSUME NEW w, job' = [job EXCEPT ![a] = w],
             \/ w.kind = "discount" /\ w.row = discount[w.id]
             \/ w.kind = "club" /\ w.row = club[w.id]
             \/ w.kind = "referral" /\ w.row = referral[w.id]
      PROVE  Moves
  <2>1. job'[a] = w /\ \A q \in Workers \ {a} : job'[q] = job[q]
    BY <1>1, <1>2
  <2>2. AsLoaded(a)'
    BY <1>1, <1>2, <2>1 DEF AsLoaded, Alike
  <2>3. \A q \in Admins : job'[q] = job[q] \/ AsLoaded(q)'
    BY <1>1, <2>1, <2>2
  <2> QED BY <1>1, <2>3, StillMoves DEF Moves
<1>3. ASSUME NEW i \in Discounts, NEW ch \in DiscountChanges, LoadRow(a, "discount", i, discount[i], ch) PROVE Moves
  <2>1. PICK w : w = [kind |-> "discount", id |-> i, row |-> discount[i], change |-> ch]
    OBVIOUS
  <2> QED BY <1>2, <1>3, <2>1 DEF LoadRow
<1>4. ASSUME NEW i \in Clubs, NEW ch \in ClubChanges, LoadRow(a, "club", i, club[i], ch) PROVE Moves
  <2>1. PICK w : w = [kind |-> "club", id |-> i, row |-> club[i], change |-> ch]
    OBVIOUS
  <2> QED BY <1>2, <1>4, <2>1 DEF LoadRow
<1>5. ASSUME NEW i \in Referrals, NEW ch \in ReferralChanges, LoadRow(a, "referral", i, referral[i], ch) PROVE Moves
  <2>1. PICK w : w = [kind |-> "referral", id |-> i, row |-> referral[i], change |-> ch]
    OBVIOUS
  <2> QED BY <1>2, <1>5, <2>1 DEF LoadRow
<1> QED BY <1>3, <1>4, <1>5 DEF Loads

(* With one administrator, no other update is under way when one is        *)
(* stored.                                                                 *)
LEMMA StoreMoves ==
    ASSUME EditsFit, OneAdmin, NEW a \in Admins, StoreDiscount(a) \/ StoreClub(a) \/ StoreReferral(a)
    PROVE  Moves
<1>1. /\ job' = [job EXCEPT ![a] = Idle] /\ CodesApart
      /\ JobSound(job[a]) /\ Linked(job[a]) /\ AsLoaded(a)
  BY DEF StoreDiscount, StoreClub, StoreReferral, EditsFit, CodesApart, Shapes, JobsSound, JobsLinked, Workers
<1>2. job'[a] = Idle
  BY <1>1, StoreEnds
<1>3. \A b \in Admins : job'[b].kind = "idle"
  BY <1>2 DEF OneAdmin, Idle
<1>4. PICK j : j = job[a]
  OBVIOUS
<1>5. CASE StoreDiscount(a)
  <2>1. PICK i \in Discounts : i = j.id
    BY <1>1, <1>4, <1>5 DEF StoreDiscount, JobSound
  <2>2. j.kind = "discount" /\ UNCHANGED <<club, referral>>
    BY <1>4, <1>5 DEF StoreDiscount
  <2>3. /\ discount[i].live /\ DiscountSound(discount[i]) /\ FitDiscount(discount[i])
        /\ Alike(discount[i], j.row, DiscountFields) /\ JobSound(j)
    BY <1>1, <1>4, <2>1, <2>2 DEF Linked, AsLoaded, EditsFit, RowsFit, CodesApart, Shapes, DiscountsSound
  <2>4. CASE DiscountChangeFits(j)
    <3>1. discount' = [discount EXCEPT ![i] = DiscountChanged(j, discount[i])]
      BY <1>4, <1>5, <2>1, <2>4 DEF StoreDiscount
    <3>2. FitDiscount(DiscountChanged(j, discount[i]))
      BY <2>2, <2>3, <2>4, ChangedDiscountFits
    <3>3. discount'[i] = DiscountChanged(j, discount[i]) /\ \A k \in Discounts \ {i} : discount'[k] = discount[k]
      BY <1>1, <3>1 DEF CodesApart, Shapes, DiscountsSound
    <3>4. \A k \in Discounts : DiscountMoves(k)
      BY <1>3, <3>2, <3>3 DEF DiscountMoves, Alike
    <3> QED BY <1>3, <2>2, <3>4, StillMoves DEF Moves
  <2>5. CASE ~DiscountChangeFits(j)
    <3>1. UNCHANGED discount
      BY <1>4, <1>5, <2>5 DEF StoreDiscount
    <3> QED BY <1>3, <2>2, <3>1, StillMoves DEF Moves
  <2> QED BY <2>4, <2>5
<1>6. CASE StoreClub(a)
  <2>1. PICK i \in Clubs : i = j.id
    BY <1>1, <1>4, <1>6 DEF StoreClub, JobSound
  <2>2. j.kind = "club" /\ UNCHANGED <<discount, referral>>
    BY <1>4, <1>6 DEF StoreClub
  <2>3. /\ club[i].live /\ ClubSound(club[i]) /\ FitClub(club[i])
        /\ Alike(club[i], j.row, ClubFields) /\ JobSound(j)
    BY <1>1, <1>4, <2>1, <2>2 DEF Linked, AsLoaded, EditsFit, RowsFit, CodesApart, Shapes, ClubsSound
  <2>4. CASE ClubChangeFits(j)
    <3>1. club' = [club EXCEPT ![i] = ClubChanged(j, club[i])]
      BY <1>4, <1>6, <2>1, <2>4 DEF StoreClub
    <3>2. FitClub(ClubChanged(j, club[i]))
      BY <2>2, <2>3, <2>4, ChangedClubFits
    <3>3. club'[i] = ClubChanged(j, club[i]) /\ \A k \in Clubs \ {i} : club'[k] = club[k]
      BY <1>1, <3>1 DEF CodesApart, Shapes, ClubsSound
    <3>4. \A k \in Clubs : ClubMoves(k)
      BY <1>3, <3>2, <3>3 DEF ClubMoves, Alike
    <3> QED BY <1>3, <2>2, <3>4, StillMoves DEF Moves
  <2>5. CASE ~ClubChangeFits(j)
    <3>1. UNCHANGED club
      BY <1>4, <1>6, <2>5 DEF StoreClub
    <3> QED BY <1>3, <2>2, <3>1, StillMoves DEF Moves
  <2> QED BY <2>4, <2>5
<1>7. CASE StoreReferral(a)
  <2>1. PICK i \in Referrals : i = j.id
    BY <1>1, <1>4, <1>7 DEF StoreReferral, JobSound
  <2>2. j.kind = "referral" /\ UNCHANGED <<discount, club>>
    BY <1>4, <1>7 DEF StoreReferral
  <2>3. /\ referral[i].live /\ ReferralSound(referral[i]) /\ FitReferral(referral[i])
        /\ Alike(referral[i], j.row, ReferralFields) /\ JobSound(j)
    BY <1>1, <1>4, <2>1, <2>2 DEF Linked, AsLoaded, EditsFit, RowsFit, CodesApart, Shapes, ReferralsSound
  <2>4. CASE Given(j, {"discount", "cashback"}) => PercentsFit(Now(j, "discount"), Now(j, "cashback"))
    <3>1. referral' = [referral EXCEPT ![i] = Over(j.change, referral[i])]
      BY <1>4, <1>7, <2>1, <2>4 DEF StoreReferral
    <3>2. FitReferral(Over(j.change, referral[i]))
      BY <2>2, <2>3, <2>4, ChangedReferralFits
    <3>3. referral'[i] = Over(j.change, referral[i]) /\ \A k \in Referrals \ {i} : referral'[k] = referral[k]
      BY <1>1, <3>1 DEF CodesApart, Shapes, ReferralsSound
    <3>4. \A k \in Referrals : ReferralMoves(k)
      BY <1>3, <3>2, <3>3 DEF ReferralMoves, Alike
    <3> QED BY <1>3, <2>2, <3>4, StillMoves DEF Moves
  <2>5. CASE ~(Given(j, {"discount", "cashback"}) => PercentsFit(Now(j, "discount"), Now(j, "cashback")))
    <3>1. UNCHANGED referral
      BY <1>4, <1>7, <2>5 DEF StoreReferral
    <3> QED BY <1>3, <2>2, <3>1, StillMoves DEF Moves
  <2> QED BY <2>4, <2>5
<1> QED BY <1>5, <1>6, <1>7

LEMMA ManagedMoves ==
    ASSUME EditsFit, OneAdmin, Manages
    PROVE  Moves
<1>1. Around \/ Tick \/ UNCHANGED vars => Moves
  <2>1. Around \/ Tick \/ UNCHANGED vars => UNCHANGED <<discount, club, referral, job>>
    BY DEF Around, Tick, vars, rowVars
  <2> QED BY <2>1, StillMoves DEF Moves
<1> QED BY <1>1, CreationMoves, RemovalMoves, LoadMoves, StoreMoves DEF Manages, EditsFit

(* Counting a use does not touch what an update looks at.                  *)
LEMMA SettleMoves ==
    ASSUME CodesApart, NEW o \in Orders, Settles(o)
    PROVE  Moves
<1>1. UNCHANGED <<club, referral, job>> /\ \A i \in Discounts : UsesMove(i)
  BY SettleStep
<1>2. \A i \in Discounts : DiscountMoves(i)
  BY <1>1 DEF UsesMove, DiscountMoves, Alike
<1> QED BY <1>1, <1>2, StillMoves DEF Moves

LEMMA CustomerMoves ==
    ASSUME CodesApart, NEW r \in Requests, Customer(r)
    PROVE  Moves
<1>1. r \in Workers /\ Admins \subseteq Workers /\ job = [q \in Workers |-> job[q]]
  BY DEF Workers, CodesApart, Shapes, JobsSound
<1>2. ASSUME NEW b, NEW c, NEW s, BeginRedeem(r, b, c, s) PROVE Moves
  <2>1. UNCHANGED <<discount, club, referral>> /\ job'[r].kind = "till" /\ \A q \in Workers \ {r} : job'[q] = job[q]
    BY <1>1, <1>2 DEF BeginRedeem, rowVars
  <2> QED BY <1>1, <2>1, StillMoves DEF Moves
<1>3. ASSUME FinishRedeem(r) PROVE Moves
  <2>1. UNCHANGED <<discount, club, referral>> /\ job'[r] = Idle /\ \A q \in Workers \ {r} : job'[q] = job[q]
    BY <1>3, TillEnds
  <2> QED BY <1>1, <2>1, StillMoves DEF Moves, Idle
<1>4. ASSUME NEW b \in Buyers, NEW c \in Codes \cup {None}, NEW s \in Subtotals, BeginCheckout(r, b, c, s) PROVE Moves
  <2>1. PICK w : Began(w, b, s) /\ job'[r] = w
    BY <1>4, CheckoutBegun
  <2>2. /\ UNCHANGED <<discount, club, referral>> /\ job'[r].kind = "checkout"
        /\ \A q \in Workers \ {r} : job'[q] = job[q]
    BY <1>4, <2>1, CheckoutBegun DEF Began
  <2> QED BY <1>1, <2>2, StillMoves DEF Moves
<1>5. ASSUME FinishCheckout(r) PROVE Moves
  <2>1. /\ UNCHANGED <<club, referral>> /\ job'[r] = Idle /\ (\A q \in Workers \ {r} : job'[q] = job[q])
        /\ UNCHANGED discount \/ UseCounted(job[r])
    BY <1>5, CheckoutEnds
  <2>2. \A i \in Discounts : DiscountMoves(i)
    BY <2>1, StillMoves DEF DiscountMoves, Alike, UseCounted
  <2> QED BY <1>1, <2>1, <2>2, StillMoves DEF Moves, Idle
<1> QED BY <1>2, <1>3, <1>4, <1>5 DEF Customer

(* Amounts.                                                                *)
LEMMA BegunWithin ==
    ASSUME EditsFit, NEW w, NEW b \in Buyers, NEW cents \in Nat, Began(w, b, cents)
    PROVE  w.price.cents \in 0..cents
<1> DEFINE p == w.price
<1>1. Outcome(p, b, cents)
  BY DEF Began
<1>2. CASE ShopPrice(p, b, cents)
  <2>1. PICK i \in Discounts : i = p.id /\ discount[i].live /\ p.cents = DiscountCents(discount[i], cents)
    BY <1>2 DEF ShopPrice
  <2>2. DiscountSound(discount[i])
    BY DEF EditsFit, CodesApart, Shapes, DiscountsSound
  <2> QED BY <2>1, <2>2, DiscountWithin
<1>3. CASE ClubPrice(p, b, cents)
  <2>1. PICK i \in Clubs : i = p.id /\ club[i].live /\ p.cents = ClubCents(club[i], cents, ClubUses(i, b))
    BY <1>3 DEF ClubPrice
  <2>2. ClubSound(club[i])
    BY DEF EditsFit, CodesApart, Shapes, ClubsSound
  <2>3. ClubUses(i, b) \in Nat
    <3>1. till[i][b] \in Nat /\ OnlineUses(i, b) \in Nat
      BY CountsFinite DEF EditsFit, CodesApart, Shapes, Counters
    <3> QED BY <3>1 DEF ClubUses
  <2> QED BY <2>1, <2>2, <2>3, ClubWithin
<1>4. CASE ReferralPrice(p, b, cents)
  <2>1. PICK i \in Referrals : i = p.id /\ referral[i].live /\ p.cents = Share(referral[i].discount, cents)
    BY <1>4 DEF ReferralPrice
  <2>2. referral[i].discount \in Int /\ referral[i].cashback \in Int
    BY <2>1 DEF EditsFit, CodesApart, Shapes, ReferralsSound, ReferralSound, Typed, ReferralFields
  <2>3. referral[i].discount \in 0..100
    BY <2>1, <2>2 DEF EditsFit, RowsFit, FitReferral, PercentsFit
  <2> QED BY <2>1, <2>3, ShareWithin
<1>5. CASE WelcomePrice(p, b, cents)
  <2>1. PICK n \in DOMAIN WelcomeTiers : p.cents = Share(WelcomeTiers[n], cents)
    BY <1>5 DEF WelcomePrice
  <2>2. WelcomeTiers[n] \in 0..100
    BY AmountsAssumption
  <2> QED BY <2>1, <2>2, ShareWithin
<1>6. CASE NoPrice(p)
  BY <1>6 DEF NoPrice
<1> QED BY <1>1, <1>2, <1>3, <1>4, <1>5, <1>6 DEF Outcome

LEMMA FitStep ==
    ASSUME FitInv, OneAdmin, [Next]_vars
    PROVE  FitInv'
<1>1. CountInv' /\ CodesApart /\ CodesApart' /\ EditsFit
  BY CountStep DEF FitInv, CountInv
<1>2. ASSUME NEW o \in Orders, Settles(o) PROVE FitInv'
  <2>1. EditsFit'
    BY <1>1, <1>2, SettleMoves, EditsFitStep
  <2>2. /\ UNCHANGED job /\ (\A p \in Orders \ {o} : order'[p] = order[p])
        /\ order'[o].cents = order[o].cents /\ order'[o].discount = order[o].discount
        /\ order'[o].payable = order[o].payable
    BY <1>1, <1>2, SettleStep
  <2>3. (\A p \in Orders : Charged(p)') /\ (\A r \in Requests : PriceWithin(r)')
    BY <2>2 DEF FitInv, Charged, PriceWithin
  <2> QED BY <1>1, <2>1, <2>3 DEF FitInv
<1>3. ASSUME Manages PROVE FitInv'
  <2>1. EditsFit'
    BY <1>1, <1>3, ManagedMoves, EditsFitStep
  <2>2. Managed
    BY <1>1, <1>3, ManagedStep
  <2>3. (\A p \in Orders : Charged(p)') /\ (\A r \in Requests : PriceWithin(r)')
    BY <2>2 DEF FitInv, Charged, PriceWithin, Managed, JobKept, Workers
  <2> QED BY <1>1, <2>1, <2>3 DEF FitInv
<1>4. ASSUME NEW r \in Requests, Customer(r) PROVE FitInv'
  <2>1. EditsFit'
    BY <1>1, <1>4, CustomerMoves, EditsFitStep
  <2>2. r \in Workers /\ Requests \subseteq Workers /\ job = [q \in Workers |-> job[q]]
    BY <1>1 DEF Workers, CodesApart, Shapes, JobsSound
  <2>3. ASSUME NEW b, NEW c, NEW s, BeginRedeem(r, b, c, s) PROVE FitInv'
    <3>1. UNCHANGED order /\ job'[r].kind = "till" /\ \A q \in Workers \ {r} : job'[q] = job[q]
      BY <2>2, <2>3 DEF BeginRedeem, rowVars
    <3>2. (\A p \in Orders : Charged(p)') /\ (\A q \in Requests : PriceWithin(q)')
      BY <2>2, <3>1 DEF FitInv, Charged, PriceWithin
    <3> QED BY <1>1, <2>1, <3>2 DEF FitInv
  <2>4. ASSUME FinishRedeem(r) PROVE FitInv'
    <3>1. UNCHANGED order /\ job'[r] = Idle /\ \A q \in Workers \ {r} : job'[q] = job[q]
      BY <1>1, <2>4, TillEnds
    <3>2. (\A p \in Orders : Charged(p)') /\ (\A q \in Requests : PriceWithin(q)')
      BY <2>2, <3>1 DEF FitInv, Charged, PriceWithin, Idle
    <3> QED BY <1>1, <2>1, <3>2 DEF FitInv
  <2>5. ASSUME NEW b \in Buyers, NEW c \in Codes \cup {None}, NEW s \in Subtotals, BeginCheckout(r, b, c, s)
        PROVE  FitInv'
    <3>1. PICK w : Began(w, b, s) /\ job'[r] = w
      BY <1>1, <2>5, CheckoutBegun
    <3>2. UNCHANGED order /\ \A q \in Workers \ {r} : job'[q] = job[q]
      BY <1>1, <2>5, CheckoutBegun
    <3>3. s \in Nat
      BY AmountsAssumption
    <3>4. w.price.cents \in 0..s /\ w.cents = s
      BY <1>1, <3>1, <3>3, BegunWithin DEF Began
    <3>5. (\A p \in Orders : Charged(p)') /\ (\A q \in Requests : PriceWithin(q)')
      BY <2>2, <3>1, <3>2, <3>4 DEF FitInv, Charged, PriceWithin
    <3> QED BY <1>1, <2>1, <3>5 DEF FitInv
  <2>6. ASSUME FinishCheckout(r) PROVE FitInv'
    <3>1. /\ job'[r] = Idle /\ (\A q \in Workers \ {r} : job'[q] = job[q])
          /\ UNCHANGED order \/ \E o \in Free : Ordered(job[r], o)
      BY <1>1, <2>6, CheckoutEnds
    <3>2. \A q \in Requests : PriceWithin(q)'
      BY <2>2, <3>1 DEF FitInv, PriceWithin, Idle
    <3>3. job[r].cents \in Nat /\ job[r].shipping \in Nat /\ job[r].price.cents \in 0..job[r].cents
      <4>1. job[r].kind = "checkout" /\ JobSound(job[r])
        BY <1>1, <2>2, <2>6 DEF FinishCheckout, CodesApart, Shapes, JobsSound
      <4> QED BY <4>1 DEF JobSound, FitInv, PriceWithin
    <3>4. \A p \in Orders : Charged(p)'
      <4>1. CASE UNCHANGED order
        BY <4>1 DEF FitInv, Charged
      <4>2. ASSUME NEW o \in Free, Ordered(job[r], o) PROVE \A p \in Orders : Charged(p)'
        <5>1. /\ order'[o].cents = job[r].cents /\ order'[o].discount = job[r].price.cents
              /\ order'[o].payable = job[r].cents - job[r].price.cents + job[r].shipping
              /\ \A p \in Orders \ {o} : order'[p] = order[p]
          BY <4>2 DEF Ordered
        <5>2. Charged(o)'
          BY <3>3, <5>1 DEF Charged
        <5> QED BY <5>1, <5>2 DEF FitInv, Charged
      <4> QED BY <3>1, <4>1, <4>2
    <3> QED BY <1>1, <2>1, <3>2, <3>4 DEF FitInv
  <2> QED BY <1>4, <2>3, <2>4, <2>5, <2>6 DEF Customer
<1> QED BY <1>2, <1>3, <1>4, Steps

LEMMA FitInit ==
    ASSUME Init
    PROVE  FitInv
<1>1. CountInv /\ CodesApart
  BY CountInit DEF CountInv
<1>2. ASSUME NEW i \in Discounts, discount[i].live PROVE FitDiscount(discount[i])
  <2>1. discount[i] # NoRow
    BY <1>2 DEF NoRow
  <2>2. PICK f \in DiscountForms : DiscountFormFits(f) /\ discount[i] = DiscountRow(f)
    BY <2>1 DEF Init
  <2> QED BY <2>2, FormsFit
<1>3. ASSUME NEW i \in Clubs, club[i].live PROVE FitClub(club[i])
  <2>1. club[i] # NoRow
    BY <1>3 DEF NoRow
  <2>2. PICK f \in ClubForms : ClubFormFits(f) /\ club[i] = ClubRow(f)
    BY <2>1 DEF Init
  <2> QED BY <2>2, FormsFit
<1>4. ASSUME NEW i \in Referrals, referral[i].live PROVE FitReferral(referral[i])
  <2>1. referral[i] # NoRow
    BY <1>4 DEF NoRow
  <2>2. PICK f \in ReferralForms : PercentsFit(f.discount, f.cashback) /\ referral[i] = ReferralRow(f)
    BY <2>1 DEF Init
  <2> QED BY <2>2, FormsFit
<1>5. (\A a \in Admins : AsLoaded(a)) /\ (\A r \in Requests : PriceWithin(r)) /\ (\A o \in Orders : Charged(o))
  BY DEF Init, Idle, AsLoaded, PriceWithin, Charged, NoOrder
<1> QED BY <1>1, <1>2, <1>3, <1>4, <1>5 DEF FitInv, EditsFit, RowsFit

LEMMA FitTypes ==
    ASSUME FitInv
    PROVE  TypeOK
<1>1. CodesApart /\ RowsFit /\ CountInv
  BY DEF FitInv, EditsFit
<1>2. now \in 0..MaxTime /\ acts \in 0..MaxActs /\ edits \in 0..MaxEdits /\ till \in [Clubs -> [Buyers -> Nat]]
      /\ member \in [Buyers -> Segments \cup {None}] /\ grant \in [Buyers -> Int]
  BY <1>1 DEF CodesApart, Shapes, Counters
<1>3. grant \in [Buyers -> Nat]
  <2>1. \A b \in Buyers : grant[b] \in Nat
    BY <1>1, <1>2 DEF CountInv
  <2> QED BY <1>2, <2>1
<1>4. DOMAIN job = Requests \cup Admins
  BY <1>1 DEF CodesApart, Shapes, JobsSound, Workers
<1>5. DOMAIN discount = Discounts /\ DOMAIN club = Clubs /\ DOMAIN referral = Referrals
  BY <1>1 DEF CodesApart, Shapes, DiscountsSound, ClubsSound, ReferralsSound
<1>6. ASSUME NEW i \in Live(discount)
      PROVE  discount[i].used \in Nat /\ discount[i].code \in Codes /\ FitDiscount(discount[i])
  <2>1. i \in Discounts /\ discount[i].live
    BY <1>5 DEF Live
  <2>2. DiscountSound(discount[i])
    BY <1>1, <2>1 DEF CodesApart, Shapes, DiscountsSound
  <2>3. discount[i].code \in Codes
    BY <2>1, <2>2 DEF DiscountSound, Typed, DiscountFields
  <2> QED BY <1>1, <2>1, <2>2, <2>3 DEF DiscountSound, RowsFit
<1>7. \A i \in Live(club) : FitClub(club[i])
  BY <1>1, <1>5 DEF Live, RowsFit
<1>8. \A i \in Live(referral) : referral[i].discount + referral[i].cashback <= 20
  BY <1>1, <1>5 DEF Live, RowsFit, FitReferral, PercentsFit
<1>9. \A o \in Orders : order[o].discount \in 0..order[o].cents /\ order[o].payable \in Nat
  BY DEF FitInv, Charged
<1> QED BY <1>2, <1>3, <1>4, <1>6, <1>7, <1>8, <1>9 DEF TypeOK, FitDiscount, FitClub

(* Amounts stay what they should be, and rows what a form would accept,    *)
(* while one person at a time edits them.                                  *)
THEOREM TypeCorrect ==
    ASSUME OneAdmin
    PROVE  Spec => []TypeOK
<1>1. Init => FitInv
  BY FitInit
<1>2. FitInv /\ [Next]_vars => FitInv'
  BY FitStep
<1>3. FitInv => TypeOK
  BY FitTypes
<1> QED BY <1>1, <1>2, <1>3, PTL DEF Spec

================================================================================
