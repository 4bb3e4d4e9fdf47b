---------------------------- MODULE OrderSettlement ----------------------------
(***************************************************************************)
(* Settlement of shop orders: checkout, the gateway round trip, the        *)
(* Zarinpal and Zibal callbacks and the reservation sweeper, all of which  *)
(* race to move an order out of PENDING.                                   *)
(*                                                                         *)
(* The requests run as PostgreSQL transactions at READ COMMITTED.  Their   *)
(* statements are separate steps.  A guarded updateMany that matches keeps *)
(* its row locked until commit, and its write is private to the            *)
(* transaction until then: newPay[t][o] and newTx[t][o] are the values     *)
(* transaction t has written to the order row and to the payment row of    *)
(* order o ("same": not written), so they are at once its pending writes   *)
(* and the row locks it holds.                                             *)
(*                                                                         *)
(* Every order holds one unit of one contested variant.  Its unit left the *)
(* shelf when it was added to the basket, before the order exists.         *)
(***************************************************************************)
EXTENDS Naturals, FiniteSets

CONSTANTS
    Orders,       \* order identities, absent until a checkout creates them
    NoOrder,      \* not an order
    Users,
    Owner,        \* Owner[o]: the user whose checkout creates o
    Zarinpal,     \* the orders paid through Zarinpal; the others use Zibal
    Discounted,   \* the orders that carry the discount code
    MaxUses,      \* DiscountCode.maxTotalUses
    Requests,     \* HTTP requests that may be in progress at the same time
    Sweepers,     \* overlapping runs of the sweep cron job
    AdminStatuses,\* order statuses an administrator may set
    ShelfStock,   \* units on the shelf that nobody holds at the start
    MaxFailures   \* bound: how often a process may die or time out

ASSUME OrdersAssumption ==
    /\ IsFiniteSet(Orders)
    /\ NoOrder \notin Orders
    /\ Owner \in [Orders -> Users]
    /\ Zarinpal \subseteq Orders
    /\ Discounted \subseteq Orders
ASSUME BoundsAssumption ==
    MaxUses \in Nat /\ ShelfStock \in Nat /\ MaxFailures \in Nat
(* "HANDLED" stands for the fulfilment statuses after PAID.                *)
KnownStatuses == {"PENDING_PAYMENT", "PAID", "CANCELED", "HANDLED"}
ASSUME ActorsAssumption ==
    /\ Requests \cap Sweepers = {}
    /\ AdminStatuses \subseteq KnownStatuses

VARIABLES
    paymentStatus,  \* Order.paymentStatus, committed
    orderStatus,    \* Order.orderStatus, committed
    txStatus,       \* PaymentTransaction.status of the order's payment
    authority,      \* orders whose gateway authority is stored
    expired,        \* orders older than RESERVATION_TTL_MS
    gateway,        \* what the payment gateway knows of the order
    stock,          \* ProductVariant.stock of the contested variant
    elsewhere,      \* units other customers' baskets took from the shelf
    holding,        \* ghost: orders whose unit is out of stock
    usedCount,      \* DiscountCode.usedCount
    hooks,          \* ghost: how often the paid hooks ran for the order
    answered,       \* ghost: orders with a committed, verified callback
    failures,       \* how many processes died so far
    pc,             \* where process t stands
    kind,           \* what it is running
    cur,            \* the order it is settling
    placing,        \* the order its checkout creates
    todo,           \* orders it read as stale and has still to release
    newPay, newTx   \* the uncommitted writes of its open transaction

tables == <<paymentStatus, orderStatus, txStatus, authority, expired,
            stock, elsewhere, holding, usedCount, hooks, answered>>
procs == <<pc, kind, cur, placing, todo, newPay, newTx>>
vars == <<tables, gateway, failures, procs>>

Procs == Requests \cup Sweepers
PaymentStatuses == {"absent", "PENDING", "PAID", "FAILED"}
TxStatuses == {"absent", "INITIATED", "PAID", "FAILED"}
OrderStatuses == {"absent"} \cup KnownStatuses
GatewayStates == {"none", "issued", "sent", "paid", "verified", "waived"}
Writes == {"same", "PAID", "FAILED"}
Kinds == {"none", "checkout", "gateway", "catch", "instant",
          "callback", "confirm", "sweep"}
PCs == {"idle", "nextStale", "askGateway", "storeAuthority", "nextExpired",
        "verify", "confirmTx", "confirmOrder", "revive",
        "releaseOrder", "releaseTx", "commit", "hooks"}
InTransaction ==
    PCs \ {"idle", "askGateway", "storeAuthority", "nextExpired", "hooks"}

NoWrites == [o \in Orders |-> "same"]

TypeOK ==
    /\ paymentStatus \in [Orders -> PaymentStatuses]
    /\ orderStatus \in [Orders -> OrderStatuses]
    /\ txStatus \in [Orders -> TxStatuses]
    /\ authority \subseteq Orders
    /\ expired \subseteq Orders
    /\ gateway \in [Orders -> GatewayStates]
    /\ stock \in Nat
    /\ elsewhere \in Nat
    /\ holding \subseteq Orders
    /\ usedCount \in Nat
    /\ hooks \in [Orders -> Nat]
    /\ answered \subseteq Orders
    /\ failures \in Nat
    /\ pc \in [Procs -> PCs]
    /\ kind \in [Procs -> Kinds]
    /\ cur \in [Procs -> Orders \cup {NoOrder}]
    /\ placing \in [Procs -> Orders \cup {NoOrder}]
    /\ todo \in [Procs -> SUBSET Orders]
    /\ newPay \in [Procs -> [Orders -> Writes]]
    /\ newTx \in [Procs -> [Orders -> Writes]]

Init ==
    /\ paymentStatus = [o \in Orders |-> "absent"]
    /\ orderStatus = [o \in Orders |-> "absent"]
    /\ txStatus = [o \in Orders |-> "absent"]
    /\ authority = {}
    /\ expired = {}
    /\ gateway = [o \in Orders |-> "none"]
    /\ stock = ShelfStock
    /\ elsewhere = 0
    /\ holding = {}
    /\ usedCount = 0
    /\ hooks = [o \in Orders |-> 0]
    /\ answered = {}
    /\ failures = 0
    /\ pc = [t \in Procs |-> "idle"]
    /\ kind = [t \in Procs |-> "none"]
    /\ cur = [t \in Procs |-> NoOrder]
    /\ placing = [t \in Procs |-> NoOrder]
    /\ todo = [t \in Procs |-> {}]
    /\ newPay = [t \in Procs |-> NoWrites]
    /\ newTx = [t \in Procs |-> NoWrites]

--------------------------------------------------------------------------------
(* Locks.                                                                  *)

(* A row updated by an open transaction is locked until it commits.        *)
OrderRowFree(t, o) == \A u \in Procs \ {t} : newPay[u][o] = "same"
TxRowFree(t, o) == \A u \in Procs \ {t} : newTx[u][o] = "same"

(* pg_advisory_xact_lock(order-settle:o): taken by callbacks and sweeps,   *)
(* by none of the other transactions that settle an order.                 *)
HoldsSettleLock(t, o) ==
    /\ kind[t] \in {"callback", "confirm", "sweep"}
    /\ pc[t] \in InTransaction
    /\ cur[t] = o
SettleLockFree(o) == \A u \in Procs : ~HoldsSettleLock(u, o)

(* pg_advisory_xact_lock(checkout:userId).                                 *)
InCheckout(t, user) ==
    /\ kind[t] = "checkout"
    /\ pc[t] \in InTransaction
    /\ Owner[placing[t]] = user

--------------------------------------------------------------------------------
(* Committing.                                                             *)

Becomes(new, old) == [o \in Orders |-> IF new[o] = "same" THEN old[o] ELSE new[o]]

Released(t) == {o \in Orders : newPay[t][o] = "FAILED"}
Paid(t) == {o \in Orders : newPay[t][o] = "PAID"}
(* Orders released earlier that a verified callback now marks PAID.        *)
Revived(t) == {o \in Paid(t) : paymentStatus[o] = "FAILED"}

(* Mutant: the unit is taken again whether or not one is left.             *)
RestockedUnchecked(t) == Revived(t)

(* Their unit is taken again if one is left; a shortage is only logged.    *)
Restocked(t) == IF stock >= Cardinality(Revived(t)) THEN Revived(t) ELSE {}

OrderStatusAfter(t) ==
    [o \in Orders |-> CASE newPay[t][o] = "PAID" -> "PAID"
                        [] newPay[t][o] = "FAILED" -> "CANCELED"
                        [] OTHER -> orderStatus[o]]

(* Mutant: a release does not give the use of the code back.               *)
UsesKept(t) == usedCount

(* usedCount: { gt: 0 } guards each decrement.                             *)
UsesAfterRelease(t) ==
    LET freed == Cardinality(Released(t) \cap Discounted)
    IN  IF usedCount >= freed THEN usedCount - freed ELSE 0

(* The stock and discount statements of releaseOrder and of                *)
(* confirmPaidAfterRelease, which take effect with the status changes.     *)
CommitSettlement(t) ==
    /\ paymentStatus' = Becomes(newPay[t], paymentStatus)
    /\ orderStatus' = OrderStatusAfter(t)
    /\ txStatus' = Becomes(newTx[t], txStatus)
    /\ stock' = stock + Cardinality(Released(t)) - Cardinality(Restocked(t))
    /\ holding' = (holding \ Released(t)) \cup Restocked(t)
    /\ usedCount' = UsesAfterRelease(t) + Cardinality(Revived(t) \cap Discounted)

--------------------------------------------------------------------------------
(* Processes.                                                              *)

Goto(t, label) == pc' = [pc EXCEPT ![t] = label]

Put(writes, t, o, status) == [writes EXCEPT ![t][o] = status]

ClearWrites(t) ==
    /\ newPay' = [newPay EXCEPT ![t] = NoWrites]
    /\ newTx' = [newTx EXCEPT ![t] = NoWrites]

(* The process ends: its transaction is closed and it forgets everything.  *)
Finish(t) ==
    /\ Goto(t, "idle")
    /\ kind' = [kind EXCEPT ![t] = "none"]
    /\ cur' = [cur EXCEPT ![t] = NoOrder]
    /\ placing' = [placing EXCEPT ![t] = NoOrder]
    /\ todo' = [todo EXCEPT ![t] = {}]
    /\ ClearWrites(t)

Start(t, k, label) ==
    /\ pc[t] = "idle"
    /\ Goto(t, label)
    /\ kind' = [kind EXCEPT ![t] = k]

--------------------------------------------------------------------------------
(* releaseOrder, inside the transaction of whoever calls it.               *)

(* After the release: a checkout goes on with its next stale order, the    *)
(* others commit.                                                          *)
ReleaseDone(t) == Goto(t, IF kind[t] = "checkout" THEN "nextStale" ELSE "commit")

(* Mutant: the update is not guarded by PENDING.                           *)
ReleaseOrderUnguarded(t) ==
    /\ pc[t] = "releaseOrder"
    /\ OrderRowFree(t, cur[t])
    /\ newPay' = Put(newPay, t, cur[t], "FAILED")
    /\ Goto(t, "releaseTx")
    /\ UNCHANGED <<tables, gateway, failures, kind, cur, placing, todo, newTx>>

(* Mutant: the payment of a released order stays INITIATED.                *)
ReleaseTxForgotten(t) ==
    /\ pc[t] = "releaseTx"
    /\ ReleaseDone(t)
    /\ UNCHANGED <<tables, gateway, failures, kind, cur, placing, todo, newPay, newTx>>

(* The guarded update PENDING -> FAILED.  If it matches it waits for the   *)
(* row; if the order is no longer PENDING nothing else is touched.         *)
ReleaseOrder(t) ==
    /\ pc[t] = "releaseOrder"
    /\ \/ /\ paymentStatus[cur[t]] = "PENDING"
          /\ OrderRowFree(t, cur[t])
          /\ newPay' = Put(newPay, t, cur[t], "FAILED")
          /\ Goto(t, "releaseTx")
       \/ /\ paymentStatus[cur[t]] # "PENDING"
          /\ ReleaseDone(t)
          /\ UNCHANGED newPay
    /\ UNCHANGED <<tables, gateway, failures, kind, cur, placing, todo, newTx>>

ReleaseTx(t) ==
    /\ pc[t] = "releaseTx"
    /\ \/ /\ txStatus[cur[t]] = "INITIATED"
          /\ TxRowFree(t, cur[t])
          /\ newTx' = Put(newTx, t, cur[t], "FAILED")
       \/ /\ txStatus[cur[t]] # "INITIATED"
          /\ UNCHANGED newTx
    /\ ReleaseDone(t)
    /\ UNCHANGED <<tables, gateway, failures, kind, cur, placing, todo, newPay>>

--------------------------------------------------------------------------------
(* Checkout.                                                               *)

(* The user's earlier attempts with the same provider whose window passed. *)
StalePending(o) ==
    {s \in expired :
        /\ Owner[s] = Owner[o]
        /\ s \in Zarinpal <=> o \in Zarinpal
        /\ txStatus[s] = "INITIATED"
        /\ paymentStatus[s] = "PENDING"
        /\ orderStatus[s] = "PENDING_PAYMENT"}

CheckoutBegin(t, o) ==
    /\ Start(t, "checkout", "nextStale")
    /\ paymentStatus[o] = "absent"
    /\ \A u \in Procs : placing[u] # o /\ ~InCheckout(u, Owner[o])
    /\ placing' = [placing EXCEPT ![t] = o]
    /\ todo' = [todo EXCEPT ![t] = StalePending(o)]
    /\ UNCHANGED <<tables, gateway, failures, cur, newPay, newTx>>

ReleaseNextStale(t, s) ==
    /\ pc[t] = "nextStale"
    /\ s \in todo[t]
    /\ cur' = [cur EXCEPT ![t] = s]
    /\ todo' = [todo EXCEPT ![t] = @ \ {s}]
    /\ Goto(t, "releaseOrder")
    /\ UNCHANGED <<tables, gateway, failures, kind, placing, newPay, newTx>>

(* The checkout transaction commits: the stale orders are released, the    *)
(* code is used once more (it must have a use left), the order exists.     *)
PlaceOrder(t) ==
    LET o == placing[t] IN
    /\ pc[t] = "nextStale"
    /\ todo[t] = {}
    /\ o \in Discounted => UsesAfterRelease(t) < MaxUses
    /\ paymentStatus' = [Becomes(newPay[t], paymentStatus) EXCEPT ![o] = "PENDING"]
    /\ orderStatus' = [OrderStatusAfter(t) EXCEPT ![o] = "PENDING_PAYMENT"]
    /\ txStatus' = [Becomes(newTx[t], txStatus) EXCEPT ![o] = "INITIATED"]
    /\ stock' = stock + Cardinality(Released(t))
    /\ holding' = (holding \ Released(t)) \cup {o}
    /\ usedCount' = UsesAfterRelease(t) + Cardinality({o} \cap Discounted)
    /\ kind' = [kind EXCEPT ![t] = "gateway"]
    /\ cur' = [cur EXCEPT ![t] = o]
    /\ Goto(t, "askGateway")
    /\ ClearWrites(t)
    /\ UNCHANGED <<authority, expired, elsewhere, hooks, answered, gateway,
                   failures, placing, todo>>

(* After the transaction the gateway is asked for a payment page ...       *)
GatewayAccepts(t) ==
    /\ pc[t] = "askGateway"
    /\ gateway' = [gateway EXCEPT ![cur[t]] = "issued"]
    /\ Goto(t, "storeAuthority")
    /\ UNCHANGED <<tables, failures, kind, cur, placing, todo, newPay, newTx>>

(* ... it refuses, and the order just placed is released again ...         *)
GatewayRefuses(t) ==
    /\ pc[t] = "askGateway"
    /\ kind' = [kind EXCEPT ![t] = "catch"]
    /\ Goto(t, "releaseOrder")
    /\ UNCHANGED <<tables, gateway, failures, cur, placing, todo, newPay, newTx>>

(* ... or nothing is due (zero amount, mock mode) and the order is paid.   *)
NothingDue(t) ==
    /\ pc[t] = "askGateway"
    /\ gateway' = [gateway EXCEPT ![cur[t]] = "waived"]
    /\ kind' = [kind EXCEPT ![t] = "instant"]
    /\ Goto(t, "confirmTx")
    /\ UNCHANGED <<tables, failures, cur, placing, todo, newPay, newTx>>

(* The authority is kept only while the payment is INITIATED, but the      *)
(* customer is sent to the payment page either way.                        *)
StoreAuthority(t) ==
    /\ pc[t] = "storeAuthority"
    /\ \/ /\ txStatus[cur[t]] = "INITIATED"
          /\ TxRowFree(t, cur[t])
          /\ authority' = authority \cup {cur[t]}
       \/ /\ txStatus[cur[t]] # "INITIATED"
          /\ UNCHANGED authority
    /\ gateway' = [gateway EXCEPT ![cur[t]] = "sent"]
    /\ Finish(t)
    /\ UNCHANGED <<paymentStatus, orderStatus, txStatus, expired, stock,
                   elsewhere, holding, usedCount, hooks, answered, failures>>

--------------------------------------------------------------------------------
(* The Zarinpal and Zibal callbacks.                                       *)

(* The request arrives with a success or a failure flag, any number of     *)
(* times and at any moment; it takes the settle lock and re-reads.         *)
CallbackBegin(t, o) ==
    /\ gateway[o] \in {"sent", "paid", "verified"}
    /\ o \in authority
    /\ SettleLockFree(o)
    /\ txStatus[o] # "PAID" /\ paymentStatus[o] # "PAID"
    /\ \E label \in {"verify", "releaseOrder"} : Start(t, "callback", label)
    /\ cur' = [cur EXCEPT ![t] = o]
    /\ UNCHANGED <<tables, gateway, failures, placing, todo, newPay, newTx>>

(* The gateway confirms.  Asked again about a payment it has verified,     *)
(* Zarinpal says so (code 101) and the code accepts that; Zibal's answer   *)
(* to a repeated verification is not the one success code accepted.        *)
VerifySucceeds(t) ==
    /\ pc[t] = "verify"
    /\ \/ gateway[cur[t]] = "paid"
       \/ gateway[cur[t]] = "verified" /\ cur[t] \in Zarinpal
    /\ gateway' = [gateway EXCEPT ![cur[t]] = "verified"]
    /\ kind' = [kind EXCEPT ![t] = "confirm"]
    /\ Goto(t, "confirmTx")
    /\ UNCHANGED <<tables, failures, cur, placing, todo, newPay, newTx>>

(* Mutant: an error of the verification call is taken for a confirmation.  *)
VerifyErrorIgnored(t) ==
    /\ pc[t] = "verify"
    /\ Goto(t, "confirmTx")
    /\ UNCHANGED <<tables, gateway, failures, kind, cur, placing, todo, newPay, newTx>>

(* Any error of the call counts as a failed payment, also when the gateway *)
(* did verify and only its answer was lost.                                *)
VerifyFails(t) ==
    /\ pc[t] = "verify"
    /\ \/ UNCHANGED gateway
       \/ /\ gateway[cur[t]] = "paid"
          /\ gateway' = [gateway EXCEPT ![cur[t]] = "verified"]
    /\ Goto(t, "releaseOrder")
    /\ UNCHANGED <<tables, failures, kind, cur, placing, todo, newPay, newTx>>

(* The guarded updates INITIATED -> PAID and PENDING -> PAID, also those   *)
(* of the order that has nothing due.                                      *)
ConfirmTx(t) ==
    /\ pc[t] = "confirmTx"
    /\ \/ /\ txStatus[cur[t]] = "INITIATED"
          /\ TxRowFree(t, cur[t])
          /\ newTx' = Put(newTx, t, cur[t], "PAID")
       \/ /\ txStatus[cur[t]] # "INITIATED"
          /\ UNCHANGED newTx
    /\ Goto(t, "confirmOrder")
    /\ UNCHANGED <<tables, gateway, failures, kind, cur, placing, todo, newPay>>

ConfirmOrder(t) ==
    /\ pc[t] = "confirmOrder"
    /\ \/ /\ paymentStatus[cur[t]] = "PENDING"
          /\ OrderRowFree(t, cur[t])
          /\ newPay' = Put(newPay, t, cur[t], "PAID")
       \/ /\ paymentStatus[cur[t]] # "PENDING"
          /\ UNCHANGED newPay
    /\ Goto(t, IF \/ kind[t] = "instant"
                  \/ newTx[t][cur[t]] = "PAID" /\ newPay'[t][cur[t]] = "PAID"
               THEN "commit" ELSE "revive")
    /\ UNCHANGED <<tables, gateway, failures, kind, cur, placing, todo, newTx>>

(* Mutant: nothing is done when the guarded updates matched no row.        *)
NeverRevive(t) ==
    /\ pc[t] = "revive"
    /\ Goto(t, "commit")
    /\ UNCHANGED <<tables, gateway, failures, kind, cur, placing, todo, newPay, newTx>>

(* confirmPaidAfterRelease and the unguarded updates that follow it.       *)
Revive(t) ==
    LET seen == Becomes(newPay[t], paymentStatus)[cur[t]] IN
    /\ pc[t] = "revive"
    /\ \/ /\ seen # "PAID"
          /\ OrderRowFree(t, cur[t]) /\ TxRowFree(t, cur[t])
          /\ newPay' = Put(newPay, t, cur[t], "PAID")
          /\ newTx' = Put(newTx, t, cur[t], "PAID")
       \/ /\ seen = "PAID"
          /\ UNCHANGED <<newPay, newTx>>
    /\ Goto(t, "commit")
    /\ UNCHANGED <<tables, gateway, failures, kind, cur, placing, todo>>

(* Mutant: the paid hooks run after every callback.                        *)
CommitAlwaysWithHooks(t) ==
    /\ pc[t] = "commit"
    /\ kind[t] # "sweep"
    /\ CommitSettlement(t)
    /\ answered' = IF kind[t] = "confirm" THEN answered \cup {cur[t]} ELSE answered
    /\ Goto(t, "hooks")
    /\ ClearWrites(t)
    /\ UNCHANGED <<authority, expired, elsewhere, hooks, gateway, failures,
                   kind, cur, placing, todo>>

(* The transaction of a callback, a refused checkout or an order with      *)
(* nothing due commits.  The paid hooks are due after it: for a callback   *)
(* only if it settled the order, for an order with nothing due always.     *)
CommitRequest(t) ==
    LET o == cur[t]
        settled == newPay[t][o] = "PAID" /\ newTx[t][o] = "PAID"
    IN
    /\ pc[t] = "commit"
    /\ kind[t] # "sweep"
    /\ CommitSettlement(t)
    /\ answered' = IF kind[t] = "confirm" THEN answered \cup {o} ELSE answered
    /\ IF kind[t] = "instant" \/ settled
       THEN /\ Goto(t, "hooks")
            /\ ClearWrites(t)
            /\ UNCHANGED <<kind, cur, placing, todo>>
       ELSE Finish(t)
    /\ UNCHANGED <<authority, expired, elsewhere, hooks, gateway, failures>>

(* The messages, the cashback, the coupons and the referral credit of the  *)
(* paid order.  They are not part of the transaction: a process that dies  *)
(* before this step never runs them.                                       *)
RunHooks(t) ==
    /\ pc[t] = "hooks"
    /\ hooks' = [hooks EXCEPT ![cur[t]] = @ + 1]
    /\ Finish(t)
    /\ UNCHANGED <<paymentStatus, orderStatus, txStatus, authority, expired, stock,
                   elsewhere, holding, usedCount, answered, gateway, failures>>

--------------------------------------------------------------------------------
(* The reservation sweeper: it reads the overdue orders once, then         *)
(* releases them one by one, each in a transaction of its own that takes   *)
(* the settle lock.                                                        *)

Overdue(o) ==
    /\ o \in expired
    /\ paymentStatus[o] = "PENDING"
    /\ orderStatus[o] = "PENDING_PAYMENT"

(* Mutant: only orders that reached the payment page are swept.            *)
SweepBeginWithAuthority(t) ==
    /\ \E o \in authority : Overdue(o)
    /\ Start(t, "sweep", "nextExpired")
    /\ todo' = [todo EXCEPT ![t] = {o \in authority : Overdue(o)}]
    /\ UNCHANGED <<tables, gateway, failures, cur, placing, newPay, newTx>>

SweepBegin(t) ==
    /\ \E o \in Orders : Overdue(o)
    /\ Start(t, "sweep", "nextExpired")
    /\ todo' = [todo EXCEPT ![t] = {o \in Orders : Overdue(o)}]
    /\ UNCHANGED <<tables, gateway, failures, cur, placing, newPay, newTx>>

SweepNext(t, o) ==
    /\ pc[t] = "nextExpired"
    /\ o \in todo[t]
    /\ SettleLockFree(o)
    /\ cur' = [cur EXCEPT ![t] = o]
    /\ todo' = [todo EXCEPT ![t] = @ \ {o}]
    /\ Goto(t, "releaseOrder")
    /\ UNCHANGED <<tables, gateway, failures, kind, placing, newPay, newTx>>

SweepCommit(t) ==
    /\ pc[t] = "commit"
    /\ kind[t] = "sweep"
    /\ CommitSettlement(t)
    /\ Goto(t, "nextExpired")
    /\ ClearWrites(t)
    /\ UNCHANGED <<authority, expired, elsewhere, hooks, answered, gateway,
                   failures, kind, cur, placing, todo>>

SweepEnd(t) ==
    /\ pc[t] = "nextExpired"
    /\ todo[t] = {}
    /\ Finish(t)
    /\ UNCHANGED <<tables, gateway, failures>>

--------------------------------------------------------------------------------
(* Failures.  PostgreSQL breaks a cycle of transactions that wait for each *)
(* other's rows by rolling one of them back; a process may also die, or    *)
(* its transaction time out, at any point.                                 *)

(* t waits for a row that u has locked.                                    *)
WaitsFor(t, u) ==
    \/ /\ pc[t] \in {"releaseOrder", "confirmOrder"}
       /\ paymentStatus[cur[t]] = "PENDING"
       /\ newPay[u][cur[t]] # "same"
    \/ /\ pc[t] \in {"releaseTx", "confirmTx", "storeAuthority"}
       /\ txStatus[cur[t]] = "INITIATED"
       /\ newTx[u][cur[t]] # "same"

DeadlockVictim(t) ==
    /\ \E u \in Procs \ {t} : WaitsFor(t, u) /\ WaitsFor(u, t)
    /\ Finish(t)
    /\ UNCHANGED <<tables, gateway, failures>>

Fail(t) ==
    /\ pc[t] # "idle"
    /\ failures < MaxFailures
    /\ failures' = failures + 1
    /\ Finish(t)
    /\ UNCHANGED <<tables, gateway>>

--------------------------------------------------------------------------------
(* The surroundings.                                                       *)

Expire(o) ==
    /\ paymentStatus[o] = "PENDING"
    /\ o \notin expired
    /\ expired' = expired \cup {o}
    /\ UNCHANGED <<paymentStatus, orderStatus, txStatus, authority, stock, elsewhere,
                   holding, usedCount, hooks, answered, gateway, failures, procs>>

CustomerPays(o) ==
    /\ gateway[o] = "sent"
    /\ gateway' = [gateway EXCEPT ![o] = "paid"]
    /\ UNCHANGED <<tables, failures, procs>>

(* Another customer adds the variant to a basket: stock: { gte: 1 }.       *)
ReserveElsewhere ==
    /\ stock >= 1
    /\ stock' = stock - 1
    /\ elsewhere' = elsewhere + 1
    /\ UNCHANGED <<paymentStatus, orderStatus, txStatus, authority, expired,
                   holding, usedCount, hooks, answered, gateway, failures, procs>>

(* An administrator sets the order status by hand.  PAID needs a paid      *)
(* order; nothing else is checked, and the payment status is not touched.  *)
UpdateStatus(o, s) ==
    /\ paymentStatus[o] # "absent"
    /\ \A u \in Procs : newPay[u][o] = "same"
    /\ s # orderStatus[o]
    /\ s = "PAID" => paymentStatus[o] = "PAID"
    /\ orderStatus' = [orderStatus EXCEPT ![o] = s]
    /\ UNCHANGED <<paymentStatus, txStatus, authority, expired, stock, elsewhere,
                   holding, usedCount, hooks, answered, gateway, failures, procs>>

--------------------------------------------------------------------------------

(* Every step of a process that has started.                               *)
Step(t) ==
    \/ \E s \in Orders : ReleaseNextStale(t, s)
    \/ PlaceOrder(t)
    \/ GatewayAccepts(t) \/ GatewayRefuses(t) \/ NothingDue(t) \/ StoreAuthority(t)
    \/ VerifySucceeds(t) \/ VerifyFails(t)
    \/ ConfirmTx(t) \/ ConfirmOrder(t) \/ Revive(t)
    \/ ReleaseOrder(t) \/ ReleaseTx(t)
    \/ CommitRequest(t) \/ RunHooks(t)
    \/ \E o \in Orders : SweepNext(t, o)
    \/ SweepCommit(t) \/ SweepEnd(t)
    \/ DeadlockVictim(t)

Surroundings ==
    \/ \E o \in Orders : Expire(o) \/ CustomerPays(o)
    \/ \E o \in Orders, s \in AdminStatuses : UpdateStatus(o, s)
    \/ ReserveElsewhere

Next ==
    \/ \E t \in Requests, o \in Orders : CheckoutBegin(t, o) \/ CallbackBegin(t, o)
    \/ \E t \in Sweepers : SweepBegin(t)
    \/ \E t \in Procs : Step(t) \/ Fail(t)
    \/ Surroundings

Spec == Init /\ [][Next]_vars

(* The database and the event loop finish what was started, and cron runs  *)
(* the sweeper again and again.  PostgreSQL queues the waiters of a lock,   *)
(* so a sweep that keeps finding it taken gets it in the end.  Nobody has   *)
(* to check out, to pay or to call back.                                   *)
Fairness ==
    /\ \A t \in Procs : WF_vars(Step(t))
    /\ \A t \in Sweepers : SF_vars(\E o \in Orders : SweepNext(t, o))
    /\ \A t \in Sweepers : WF_vars(SweepBegin(t))

FairSpec == Spec /\ Fairness

--------------------------------------------------------------------------------
(* Properties.                                                             *)

(* The order row and its payment row are updated by separate guarded       *)
(* statements of many transactions, some under the settle lock and some    *)
(* not; committed, the two always agree.                                   *)
PaymentMatchesOrder ==
    \A o \in Orders :
        txStatus[o] = IF paymentStatus[o] = "PENDING" THEN "INITIATED"
                                                     ELSE paymentStatus[o]

(* Every unit is on the shelf, in another basket or held by one order:     *)
(* however sweeps, stale cleanups, refused checkouts and callbacks         *)
(* interleave, an order gives its unit back at most once, and takes one    *)
(* again only when it is paid after all.                                   *)
Placed == {o \in Orders : paymentStatus[o] # "absent"}
StockConserved ==
    /\ stock + elsewhere + Cardinality(holding) = ShelfStock + Cardinality(Placed)
    /\ \A o \in Orders :
        /\ paymentStatus[o] = "PENDING" => o \in holding
        /\ paymentStatus[o] \in {"absent", "FAILED"} => o \notin holding

(* The discount code counts exactly the orders that are pending or paid:   *)
(* a release gives the use back once, a payment confirmed later takes it   *)
(* again.                                                                  *)
UsesCounted ==
    usedCount = Cardinality({o \in Discounted : paymentStatus[o] \in {"PENDING", "PAID"}})

(* A callback whose payment the gateway confirmed and whose transaction    *)
(* committed leaves its order PAID, also if a sweep, a stale cleanup or an *)
(* earlier failed attempt had released the order before.                   *)
ConfirmedIsPaid == \A o \in answered : paymentStatus[o] = "PAID"

(* However often the gateway calls back, the paid hooks run at most once   *)
(* per order, so no cashback, coupon or message is given out twice; and    *)
(* when money was due, they only run for an order that is paid.            *)
HooksRunOnce ==
    \A o \in Orders :
        /\ hooks[o] <= 1
        /\ hooks[o] = 1 /\ gateway[o] # "waived" => paymentStatus[o] = "PAID"

(* What settlement promises, on the committed rows.                        *)
Promise == INSTANCE SettlementPromise
    WITH status <- paymentStatus,
         confirmed <- {o \in Orders : gateway[o] \in {"verified", "waived"}}
KeepsPromise == Promise!Spec

(* An order whose window passed without a payment does not keep its unit   *)
(* for ever, also if the checkout that placed it died on its way.          *)
OverdueSettled ==
    \A o \in Orders : Overdue(o) ~> ~Overdue(o)

================================================================================
