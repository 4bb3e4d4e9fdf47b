------------------------------- MODULE BackOffice -------------------------------
(***************************************************************************)
(* What administrators do to orders and to offline sales: they edit        *)
(* amounts and items, remove items and orders, record, change and remove   *)
(* sales in the shop, while orders are being settled and customers take    *)
(* stock.                                                                  *)
(*                                                                         *)
(* An operation is one database transaction at READ COMMITTED.  Its first  *)
(* read, its write of the item and the stock, its second read of the items *)
(* and its write of the order are steps; what it has written is visible to *)
(* others, and what it has locked free for them, when it commits.          *)
(*                                                                         *)
(* There is one item per variant in an order or a sale; a quantity of 0 is *)
(* a deleted item.                                                         *)
(***************************************************************************)
EXTENDS Integers, FiniteSetsExt

CONSTANTS
    Orders, Sales, Variants, Admins,
    Prices,        \* unit prices that may be entered
    Amounts,       \* discounts that may be entered for a sale
    Changes,       \* bodies of updateOrder: some of discount, shipping and packaging
    Percents,      \* commissions of a place of sale
    Channels,      \* places of sale
    Baskets,       \* the items, with their prices, that may be sold in the shop
    UnitCost,      \* OrderItem.costPrice, the same for all
    Placed,        \* an order as checkout placed it
    ShelfStock,    \* units of a variant at the start
    Serial,        \* TRUE: one operation of the administrators at a time
    Instants,      \* times at which something happens, in half hours
    MaxQuantity, MaxActs    \* bounds

ASSUME RowsAssumption ==
    /\ IsFiniteSet(Orders) /\ IsFiniteSet(Sales) /\ IsFiniteSet(Variants) /\ "none" \notin Variants
    /\ \A c \in Changes : /\ DOMAIN c \subseteq {"discount", "shipping", "packaging"}
                         /\ \A f \in DOMAIN c : c[f] \in Nat

ASSUME NumbersAssumption ==
    /\ Prices \cup Amounts \subseteq Nat /\ Percents \subseteq 0..100 /\ UnitCost \in Nat
    /\ ShelfStock \in Nat /\ Serial \in BOOLEAN
    /\ MaxQuantity \in Nat /\ MaxActs \in Nat
    /\ Instants \subseteq Nat /\ Instants # {}

(* Placed: the quantity and price of every item, discount, shipping and    *)
(* packaging, the share of the wallet, and whether a code was used.        *)
ASSUME PlacedAssumption ==
    /\ Placed.qty \in 1..MaxQuantity /\ Placed.price \in Prices
    /\ {Placed.discount, Placed.shipping, Placed.packaging, Placed.wallet} \subseteq Nat
    /\ Placed.code \in BOOLEAN
    /\ Baskets \subseteq [Variants -> [qty : 0..MaxQuantity, price : Prices]]

VARIABLES
    now,
    stock,     \* ProductVariant.stock
    order,     \* rows of Order
    item,      \* rows of OrderItem: quantity and unit price
    sale,      \* rows of OfflineSale with their items
    uses,      \* DiscountCode.usedCount
    job,       \* what administrator a is doing
    gone,      \* ghost: units that left the shelf for other reasons
    astray,    \* ghost: orders revived after a deletion had loaded them as FAILED
    acts

rows == <<stock, order, item, sale, uses>>
vars == <<now, rows, job, gone, astray, acts>>

--------------------------------------------------------------------------------
(* Amounts.                                                                *)

(* The sum of f[x] over x in S: its positive units less its negative ones. *)
Units(f, S) == UNION {{x} \X (1..f[x]) : x \in S}
Negated(f) == [x \in DOMAIN f |-> -f[x]]
SumOver(f, S) == Cardinality(Units(f, S)) - Cardinality(Units(Negated(f), S))

Value(its) == [v \in Variants |-> its[v].qty * its[v].price]
ItemsTotal(its) == SumOver(Value(its), Variants)
CostTotal(its) == SumOver([v \in Variants |-> its[v].qty * UnitCost], Variants)

(* snapshot: the wallet's share is not stored, it is what is missing.      *)
WalletShare(o) ==
    Max({0, o.total - o.discount + o.shipping + o.packaging - o.payable})
Snapshot(o) == [discount |-> o.discount, shipping |-> o.shipping,
                packaging |-> o.packaging, wallet |-> WalletShare(o)]

(* Mutant: a discount that is larger than the new total is kept.           *)
RecalculatedUncapped(before, total) ==
    LET remaining == total - before.discount + before.shipping + before.packaging
        wallet == Min({before.wallet, Max({0, remaining})})
    IN  [total |-> total, discount |-> before.discount, shipping |-> before.shipping,
         packaging |-> before.packaging, payable |-> remaining - wallet]

(* recalc: discount, shipping and packaging stay, or are those entered.    *)
Recalculated(before, total) ==
    LET discount == Min({before.discount, total})
        remaining == total - discount + before.shipping + before.packaging
        wallet == Min({before.wallet, Max({0, remaining})})
    IN  [total |-> total, discount |-> discount, shipping |-> before.shipping,
         packaging |-> before.packaging, payable |-> remaining - wallet]

(* Checkout caps the discount at what the items cost, and the wallet pays  *)
(* at most what is left.                                                   *)
PlacedItems == [v \in Variants |-> [qty |-> Placed.qty, price |-> Placed.price]]
Gross == ItemsTotal(PlacedItems)
ASSUME CheckoutAssumption ==
    /\ Placed.discount <= Gross
    /\ Placed.wallet <= Gross - Placed.discount + Placed.shipping + Placed.packaging

NewOrder == [pay |-> "PENDING", deleted |-> FALSE, paidAt |-> -1,
             total |-> Gross, discount |-> Placed.discount, shipping |-> Placed.shipping,
             packaging |-> Placed.packaging,
             payable |-> Gross - Placed.discount + Placed.shipping + Placed.packaging - Placed.wallet]
Nothing == [v \in Variants |-> [qty |-> 0, price |-> 0]]
NoSale == [live |-> FALSE, items |-> Nothing, soldAt |-> -1, channel |-> "none",
           total |-> 0, discount |-> 0, payable |-> 0, net |-> 0, cost |-> 0]
Idle == [kind |-> "idle"]

(* create and update of a sale: the amounts of the row.                    *)
SaleRow(its, discount, percent, at, channel) ==
    LET total == ItemsTotal(its)
        payable == total - discount
    IN  [live |-> TRUE, items |-> its, soldAt |-> at, channel |-> channel,
         total |-> total, discount |-> discount, payable |-> payable,
         net |-> payable - (payable * percent) \div 100,
         cost |-> CostTotal(its)]

Init ==
    /\ now = Min(Instants)
    /\ stock = [v \in Variants |-> ShelfStock]
    /\ order = [o \in Orders |-> NewOrder]
    /\ item = [o \in Orders |-> PlacedItems]
    /\ sale = [s \in Sales |-> NoSale]
    /\ uses = IF Placed.code THEN Cardinality(Orders) ELSE 0
    /\ job = [a \in Admins |-> Idle]
    /\ gone = [v \in Variants |-> 0]
    /\ astray = 0 /\ acts = 0

--------------------------------------------------------------------------------
(* Settlement of an order, as far as the back office sees it.              *)

NoJob == \A a \in Admins : job[a] = Idle
Code == IF Placed.code THEN 1 ELSE 0

(* A variant row that an open transaction has updated is locked.           *)
VariantFree(v) ==
    \A a \in Admins :
        job[a].kind \in {"edit", "recalc"} /\ job[a].delta # 0 => job[a].item # v

PaymentConfirmed(o) ==
    /\ order[o].pay = "PENDING"
    /\ order' = [order EXCEPT ![o].pay = "PAID", ![o].paidAt = now]
    /\ UNCHANGED <<now, stock, item, sale, uses, job, gone, astray, acts>>

(* The items of the order whose variants the transaction has to update.    *)
ItemsFree(its) == \A v \in Variants : its[v].qty > 0 => VariantFree(v)

Release(o) ==
    /\ order[o].pay = "PENDING" /\ ~order[o].deleted /\ ItemsFree(item[o])
    /\ order' = [order EXCEPT ![o].pay = "FAILED"]
    /\ stock' = [v \in Variants |-> stock[v] + item[o][v].qty]
    /\ uses' = IF uses > 0 THEN uses - Code ELSE uses
    /\ UNCHANGED <<now, item, sale, job, gone, astray, acts>>

(* A late confirmation; what the shelf lacks is sold all the same.  It     *)
(* waits for no administrator, not even for one who is deleting the order. *)
Revive(o) ==
    /\ order[o].pay = "FAILED" /\ ~order[o].deleted /\ ItemsFree(item[o])
    /\ order' = [order EXCEPT ![o].pay = "PAID", ![o].paidAt = now]
    /\ LET short == {v \in Variants : stock[v] < item[o][v].qty}
       IN  /\ stock' = [v \in Variants |-> IF v \in short THEN stock[v] ELSE stock[v] - item[o][v].qty]
           /\ gone' = [v \in Variants |-> IF v \in short THEN gone[v] - item[o][v].qty ELSE gone[v]]
    /\ uses' = uses + Code
    /\ UNCHANGED <<now, item, sale, job, astray, acts>>

(* Somebody puts a unit into a basket, or takes it out.                    *)
Elsewhere(v) ==
    /\ VariantFree(v)
    /\ \E n \in {-1, 1} :
        /\ stock[v] - n >= 0 /\ gone[v] + n \in 0..1
        /\ stock' = [stock EXCEPT ![v] = @ - n]
        /\ gone' = [gone EXCEPT ![v] = @ + n]
    /\ UNCHANGED <<now, order, item, sale, uses, job, astray, acts>>

Tick ==
    /\ now' \in {t \in Instants : t > now}
    /\ UNCHANGED <<rows, job, gone, astray, acts>>

--------------------------------------------------------------------------------
(* Edits of an order.  loadOrder finds orders that are not deleted.        *)

Begin(a, j) ==
    /\ job[a] = Idle /\ acts < MaxActs
    /\ Serial => NoJob
    /\ acts' = acts + 1
    /\ job' = [job EXCEPT ![a] = j]
    /\ UNCHANGED <<now, rows, gone, astray>>

Editable(o) == ~order[o].deleted /\ order[o].pay = "PAID"
Abort(a) == job' = [job EXCEPT ![a] = Idle]

(* updateOrder: the amounts in the body; the items are read in the next    *)
(* step.                                                                   *)
Entered(change, f, old) == IF f \in DOMAIN change THEN change[f] ELSE old
UpdateOrder(a, o, change) ==
    /\ Editable(o)
    /\ LET old == Snapshot(order[o])
       IN  Begin(a, [kind |-> "amounts", order |-> o, item |-> "none",
                     before |-> [discount |-> Entered(change, "discount", old.discount),
                                 shipping |-> Entered(change, "shipping", old.shipping),
                                 packaging |-> Entered(change, "packaging", old.packaging),
                                 wallet |-> old.wallet],
                     entered |-> "discount" \in DOMAIN change])

(* Mutant: the difference is taken the wrong way round.                    *)
DeltaReversed(has, to, back) == IF back THEN to - has ELSE 0

(* What goes back to the shelf, if the administrator asks for it.          *)
Delta(has, to, back) == IF back THEN has - to ELSE 0

(* An item's new quantity and price.  The administrator who does not ask   *)
(* for it keeps the difference off the shelf; left records how much.       *)
Edit(o, v, to, back) ==
    [kind |-> "load", order |-> o, item |-> v, to |-> to,
     delta |-> Delta(item[o][v].qty, to.qty, back),
     left |-> IF back THEN 0 ELSE item[o][v].qty - to.qty,
     before |-> Snapshot(order[o]), entered |-> FALSE]

UpdateItem(a, o, v, qty, price, back) ==
    /\ Editable(o) /\ item[o][v].qty > 0
    /\ Begin(a, Edit(o, v, [qty |-> qty, price |-> price], back))

DeleteItem(a, o, v, back) ==
    /\ Editable(o) /\ item[o][v].qty > 0
    /\ \E w \in Variants \ {v} : item[o][w].qty > 0
    /\ Begin(a, Edit(o, v, [item[o][v] EXCEPT !.qty = 0], back))

(* Mutant: stock is decremented without the condition that it suffices.    *)
ShortIgnored(j) == FALSE

Short(j) == stock[j.item] + j.delta < 0

(* adjustStock and the update of the item; both rows stay locked.          *)
Change(a) ==
    /\ job[a].kind = "load"
    /\ LET j == job[a]
           held == \E b \in Admins \ {a} :
                        job[b].kind \in {"edit", "recalc"} /\ job[b].item = j.item
       IN  /\ ~held
           /\ j.delta # 0 => VariantFree(j.item)
           /\ IF Short(j) THEN Abort(a)
              ELSE job' = [job EXCEPT ![a].kind = "edit"]
    /\ UNCHANGED <<now, rows, gone, astray, acts>>

(* The items a transaction sees: the committed ones, and its own change.   *)
Visible(j) ==
    IF j.item = "none" THEN item[j.order]
    ELSE [item[j.order] EXCEPT ![j.item] = j.to]

(* recalc reads the items; an entered discount above the total is refused. *)
Recalc(a) ==
    /\ job[a].kind \in {"amounts", "edit"}
    /\ LET j == job[a]
           total == ItemsTotal(Visible(j))
       IN  IF j.entered /\ j.before.discount > total THEN Abort(a)
           ELSE job' = [job EXCEPT ![a] =
                    [kind |-> "recalc", order |-> j.order, item |-> j.item,
                     its |-> Visible(j), delta |-> IF j.item = "none" THEN 0 ELSE j.delta,
                     left |-> IF j.item = "none" THEN 0 ELSE j.left, after |-> Recalculated(j.before, total)]]
    /\ UNCHANGED <<now, rows, gone, astray, acts>>

Repriced(o, m) == [o EXCEPT !.total = m.total, !.discount = m.discount, !.shipping = m.shipping,
                            !.packaging = m.packaging, !.payable = m.payable]

(* The update of the order, and the commit.  What was to be kept off the   *)
(* shelf is gone.                                                          *)
CommitEdit(a) ==
    /\ job[a].kind = "recalc"
    /\ LET j == job[a]
           o == j.order
           v == j.item
       IN  /\ order' = [order EXCEPT ![o] = Repriced(@, j.after)]
           /\ IF v = "none" THEN UNCHANGED <<stock, item, gone>>
              ELSE /\ item' = [item EXCEPT ![o][v] = j.its[v]]
                   /\ stock' = [stock EXCEPT ![v] = @ + j.delta]
                   /\ gone' = [gone EXCEPT ![v] = @ + j.left]
    /\ Abort(a)
    /\ UNCHANGED <<now, sale, uses, astray, acts>>

(* deleteOrder: what it does depends on the order it loaded, although the  *)
(* order may be revived before it writes.                                  *)
DeleteOrder(a, o, back) ==
    /\ ~order[o].deleted /\ order[o].pay # "PENDING"
    /\ Begin(a, [kind |-> "delete", order |-> o, its |-> item[o],
                 paid |-> order[o].pay = "PAID", back |-> back])

(* Mutant: the discount code is not given back.                            *)
DeletedUsesKept(paid) == uses

DeletedUses(paid) == IF paid /\ uses > 0 THEN uses - Code ELSE uses

(* Mutant: stock comes back also for an order that was released before.    *)
ReturnedAlways(j) == [v \in Variants |-> IF j.back THEN j.its[v].qty ELSE 0]

Returned(j) == [v \in Variants |-> IF j.back /\ j.paid THEN j.its[v].qty ELSE 0]

CommitDelete(a) ==
    /\ job[a].kind = "delete"
    /\ \A v \in Variants : VariantFree(v)
    /\ LET j == job[a]
           o == j.order
       IN  /\ stock' = [v \in Variants |-> stock[v] + Returned(j)[v]]
           /\ gone' = [v \in Variants |->
                        IF j.paid /\ ~j.back THEN gone[v] + j.its[v].qty ELSE gone[v]]
           /\ uses' = DeletedUses(j.paid)
           /\ item' = [item EXCEPT ![o] = [v \in Variants |-> [item[o][v] EXCEPT !.qty = 0]]]
           /\ order' = [order EXCEPT ![o].deleted = TRUE]
           /\ astray' = IF ~j.paid /\ order[o].pay = "PAID" THEN astray + 1 ELSE astray
    /\ Abort(a)
    /\ UNCHANGED <<now, sale, acts>>

--------------------------------------------------------------------------------
(* Offline sales.                                                          *)

Lacking(shelf, its) == \E v \in Variants : shelf[v] < its[v].qty

CreateSale(s, its, discount, percent, at, channel) ==
    /\ Serial => NoJob
    /\ acts < MaxActs /\ sale[s] = NoSale
    /\ discount <= ItemsTotal(its) /\ ~Lacking(stock, its) /\ ItemsFree(its)
    /\ acts' = acts + 1
    /\ stock' = [v \in Variants |-> stock[v] - its[v].qty]
    /\ sale' = [sale EXCEPT ![s] = SaleRow(its, discount, percent, at, channel)]
    /\ UNCHANGED <<now, order, item, uses, job, gone, astray>>

LoadSale(a, s, kind) ==
    /\ sale[s].live
    /\ Begin(a, [kind |-> kind, sale |-> s, its |-> sale[s].items])

(* The old items go back first; one that lacks stock then undoes it all.   *)
Restored(its) == [v \in Variants |-> stock[v] + its[v].qty]

UpdateSale(a, its, discount, percent, at, channel) ==
    /\ job[a].kind = "sale"
    /\ discount <= ItemsTotal(its)
    /\ \A v \in Variants : VariantFree(v)
    /\ LET j == job[a]
           shelf == Restored(j.its)
       IN  IF Lacking(shelf, its) THEN UNCHANGED <<stock, sale>>
           ELSE /\ stock' = [v \in Variants |-> shelf[v] - its[v].qty]
                /\ sale' = [sale EXCEPT ![j.sale] =
                        [SaleRow(its, discount, percent, at, channel) EXCEPT !.live = sale[j.sale].live]]
    /\ Abort(a)
    /\ UNCHANGED <<now, order, item, uses, gone, astray, acts>>

RemoveSale(a) ==
    /\ job[a].kind = "remove"
    /\ \A v \in Variants : VariantFree(v)
    /\ stock' = Restored(job[a].its)
    /\ sale' = [sale EXCEPT ![job[a].sale].live = FALSE]
    /\ Abort(a)
    /\ UNCHANGED <<now, order, item, uses, gone, astray, acts>>

--------------------------------------------------------------------------------
AdminBegins(a) ==
    \/ \E o \in Orders :
        \/ \E change \in Changes : UpdateOrder(a, o, change)
        \/ \E v \in Variants, q \in 1..MaxQuantity, p \in Prices, back \in BOOLEAN :
                UpdateItem(a, o, v, q, p, back)
        \/ \E back \in BOOLEAN : DeleteOrder(a, o, back) \/ \E v \in Variants : DeleteItem(a, o, v, back)
    \/ \E s \in Sales, kind \in {"sale", "remove"} : LoadSale(a, s, kind)

AdminGoesOn(a) ==
    \/ Change(a) \/ Recalc(a) \/ CommitEdit(a) \/ CommitDelete(a) \/ RemoveSale(a)
    \/ \E its \in Baskets, d \in Amounts, c \in Percents, at \in Instants, ch \in Channels :
            UpdateSale(a, its, d, c, at, ch)

Next ==
    \/ Tick
    \/ \E o \in Orders : PaymentConfirmed(o) \/ Release(o) \/ Revive(o)
    \/ \E v \in Variants : Elsewhere(v)
    \/ \E a \in Admins : AdminBegins(a) \/ AdminGoesOn(a)
    \/ \E its \in Baskets, d \in Amounts, c \in Percents, at \in Instants, ch \in Channels :
            \E s \in Sales : CreateSale(s, its, d, c, at, ch)

Spec == Init /\ [][Next]_vars

--------------------------------------------------------------------------------
TypeOK ==
    /\ now \in Instants /\ acts \in 0..MaxActs /\ uses \in Nat /\ astray \in Nat
    /\ \A v \in Variants : stock[v] \in Nat /\ gone[v] \in Int
    /\ \A o \in Orders :
        /\ order[o].pay \in {"PENDING", "PAID", "FAILED"} /\ order[o].deleted \in BOOLEAN
        /\ order[o].paidAt \in {-1} \cup Instants
        /\ {order[o].total, order[o].discount, order[o].shipping, order[o].packaging,
            order[o].payable} \subseteq Nat
        /\ \A v \in Variants : item[o][v].qty \in 0..MaxQuantity /\ item[o][v].price \in Prices
    /\ \A s \in Sales :
        /\ sale[s].live \in BOOLEAN /\ sale[s].soldAt \in {-1} \cup Instants
        /\ {sale[s].total, sale[s].discount, sale[s].payable, sale[s].net, sale[s].cost}
                \subseteq Nat
    /\ \A a \in Admins :
        job[a].kind \in {"idle", "amounts", "load", "edit", "recalc", "delete", "sale", "remove"}

(* The amounts of an order are those of its items after every edit, the    *)
(* discount is no larger than they are, and what the order leaves for the  *)
(* wallet was paid from it (order-admin.service.ts:39-42).                 *)
TotalsMatchItems ==
    \A o \in Orders : ~order[o].deleted =>
        /\ order[o].total = ItemsTotal(item[o])
        /\ order[o].discount <= order[o].total
        /\ WalletShare(order[o]) <= Placed.wallet

(* Every unit is on the shelf, in an order that holds stock, in a sale, or *)
(* gone because a customer took it, the shelf lacked it at a revival or an *)
(* administrator kept it off; edits, deletions and removals put back what  *)
(* they say (adjustStock, deleteOrder, remove).  The units of an order     *)
(* that deleteOrder loaded as FAILED, and that a late confirmation revived *)
(* before it wrote, are lost: that order is counted apart.                 *)
StockBalanced ==
    \A v \in Variants :
        stock[v] + gone[v] + Placed.qty * astray
        + SumOver([o \in Orders |-> item[o][v].qty], {o \in Orders : order[o].pay # "FAILED"})
        + SumOver([s \in Sales |-> sale[s].items[v].qty], {s \in Sales : sale[s].live})
        = ShelfStock + Placed.qty * Cardinality(Orders)

Standing == {o \in Orders : order[o].pay # "FAILED" /\ ~order[o].deleted}

(* A use of the discount code is counted for every order that stands: a    *)
(* deleted order gives it back once, whether or not it was released, but   *)
(* for the orders that were revived while they were being deleted.         *)
UsesMatchOrders == uses = Code * (Cardinality(Standing) + astray)

================================================================================
