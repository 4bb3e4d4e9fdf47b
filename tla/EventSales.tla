------------------------------- MODULE EventSales -------------------------------
(* Payments at an event's booth.  A customer pays an amount through a      *)
(* gateway; the payment that succeeds is a sale of the event's channel at  *)
(* once, and an administrator later says which items were sold for it,     *)
(* which takes them off the shelf.  The sale is an OfflineSale like any    *)
(* other: it may be edited and removed on the page of offline sales, which *)
(* knows nothing of payments.                                              *)
(*                                                                         *)
(* A callback is one transaction under a lock on the payment, with the     *)
(* call to the gateway inside; an assignment is one under another lock,    *)
(* and the offline sales' edits take none.  An operation that changes      *)
(* stock is two steps: what it loads, and its writes, which wait for each  *)
(* other's rows.                                                           *)
EXTENDS Integers, FiniteSetsExt

CONSTANTS
    Events, Payments, Sales, Variants,
    Requests,     \* creations and callbacks that may be in progress
    Admins,       \* administrators' operations that may be in progress
    Amounts,      \* what a customer may choose to pay
    Baskets,      \* lists of items: units of each variant
    Active,       \* PAYMENT_ACTIVE_PROVIDERS, as parseProviders reads it
    Default,      \* PAYMENT_DEFAULT_PROVIDER
    ShelfStock,   \* units of each variant at first
    Serial,       \* whether the offline sales' page is used while no other
                  \* operation of an administrator is in progress
    None,
    MaxEdits, MaxFailures   \* bounds: administrators' operations, failures

Providers == {"ZARINPAL", "ZIBAL"}
NoItems == [v \in Variants |-> 0]

ASSUME EventSalesAssumption ==
    /\ Baskets \subseteq [Variants -> Nat] /\ NoItems \in Baskets
    /\ Amounts \subseteq Nat \ {0} /\ {ShelfStock, MaxEdits, MaxFailures} \subseteq Nat
    /\ Active \subseteq Providers /\ Active # {} /\ Serial \in BOOLEAN
    /\ None \notin Sales \cup Payments /\ IsFiniteSet(Sales)

VARIABLES
    event,       \* active, paused (isActive false) or removed
    payment,     \* EventPayment
    sale,        \* OfflineSale with its items
    stock,       \* ProductVariant.stock
    taken,       \* ghost: units the shop's baskets took from the shelf
    gateway,     \* what the gateway knows of a payment
    notified,    \* ghost: how often the managers were told of a payment
    job,         \* what a request or an administrator is doing
    edits, failures

rows == <<event, payment, sale, stock, taken>>
vars == <<rows, gateway, notified, job, edits, failures>>

Idle == [kind |-> "idle"]
NoPayment == [status |-> "absent", event |-> None, provider |-> None, amount |-> 0,
              authority |-> FALSE, sale |-> None]
NoSale == [live |-> FALSE, payment |-> None, payable |-> 0, items |-> NoItems, edited |-> FALSE]

Free(w) == job[w] = Idle
Goto(w, work) == job' = [job EXCEPT ![w] = work]
Finish(w) == Goto(w, Idle)
SetStatus(p, status) == payment' = [payment EXCEPT ![p].status = status]

--------------------------------------------------------------------------------
(* The payment.                                                            *)

\* the default, or else the first that is active
Fallback == IF Default \in Active THEN Default ELSE CHOOSE provider \in Active : TRUE
ResolveProvider(requested) == IF requested \in Active THEN requested ELSE Fallback

\* findActiveByCode
IsActive(e) == event[e] = "active"

Create(r, p, e, amount, requested) ==
    /\ Free(r) /\ IsActive(e) /\ payment[p] = NoPayment
    /\ payment' = [payment EXCEPT ![p] =
           [NoPayment EXCEPT !.status = "INITIATED", !.event = e, !.amount = amount,
                             !.provider = ResolveProvider(requested)]]
    /\ Goto(r, [kind |-> "request", payment |-> p])
    /\ UNCHANGED <<event, sale, stock, taken, gateway, notified, edits, failures>>

RequestRefused(r) ==
    /\ job[r].kind = "request"
    /\ SetStatus(job[r].payment, "FAILED")
    /\ Finish(r)
    /\ UNCHANGED <<event, sale, stock, taken, gateway, notified, edits, failures>>

RequestAccepted(r) ==
    /\ job[r].kind = "request"
    /\ gateway' = [gateway EXCEPT ![job[r].payment] = "open"]
    /\ Goto(r, [job[r] EXCEPT !.kind = "store"])
    /\ UNCHANGED <<rows, notified, edits, failures>>

StoreAuthority(r) ==
    /\ job[r].kind = "store"
    /\ payment' = [payment EXCEPT ![job[r].payment].authority = TRUE]
    /\ Finish(r)
    /\ UNCHANGED <<event, sale, stock, taken, gateway, notified, edits, failures>>

\* mock mode: nobody is asked for money
RequestMocked(r) ==
    /\ job[r].kind = "request"
    /\ Goto(r, [job[r] EXCEPT !.kind = "mark"])
    /\ UNCHANGED <<rows, gateway, notified, edits, failures>>

\* the transaction finds the payment without a sale
Unsold(p) == payment[p].sale = None

NewSale(p, items) ==
    [live |-> TRUE, payment |-> p, payable |-> payment[p].amount, items |-> items, edited |-> FALSE]

MarkPaid(r) ==
    LET p == job[r].payment IN
    /\ job[r].kind = "mark"
    /\ IF Unsold(p)
       THEN \E s \in Sales :
              /\ sale[s] = NoSale
              /\ sale' = [sale EXCEPT ![s] = NewSale(p, NoItems)]
              /\ payment' = [payment EXCEPT ![p].status = "PAID", ![p].sale = s, ![p].authority = TRUE]
       ELSE SetStatus(p, "PAID") /\ UNCHANGED sale
    /\ Goto(r, [job[r] EXCEPT !.kind = "notify"])
    /\ UNCHANGED <<event, stock, taken, gateway, notified, edits, failures>>

NotifyAdmins(r) ==
    /\ job[r].kind = "notify"
    /\ notified' = [notified EXCEPT ![job[r].payment] = @ + 1]
    /\ Finish(r)
    /\ UNCHANGED <<rows, gateway, edits, failures>>

--------------------------------------------------------------------------------
(* The callback.                                                           *)

\* pg_advisory_xact_lock(event-payment:authority)
CallbackLockFree(p) ==
    \A r \in Requests : ~(job[r].kind \in {"verify", "mark"} /\ job[r].payment = p)

\* Mutant: a payment that is paid already is gone through again
OpenAlways(p) == payment[p].authority /\ CallbackLockFree(p)
Open(p) == payment[p].authority /\ CallbackLockFree(p) /\ payment[p].status # "PAID"

\* Zarinpal sends the customer back without OK
NotOk(r, p) ==
    /\ Free(r) /\ Open(p) /\ payment[p].provider = "ZARINPAL"
    /\ SetStatus(p, "FAILED")
    /\ UNCHANGED <<event, sale, stock, taken, gateway, notified, job, edits, failures>>

CallbackBegin(r, p) ==
    /\ Free(r) /\ Open(p)
    /\ Goto(r, [kind |-> "verify", payment |-> p])
    /\ UNCHANGED <<rows, gateway, notified, edits, failures>>

\* verifyZarinpalPayment takes "verified before" for an answer,
\* verifyZibalPayment does not
VerifySucceeds(r) ==
    LET p == job[r].payment IN
    /\ job[r].kind = "verify"
    /\ \/ gateway[p] = "paid"
       \/ gateway[p] = "verified" /\ payment[p].provider = "ZARINPAL"
    /\ gateway' = [gateway EXCEPT ![p] = "verified"]
    /\ Goto(r, [job[r] EXCEPT !.kind = "mark"])
    /\ UNCHANGED <<rows, notified, edits, failures>>

\* the answer is an error, also when the gateway is at fault
VerifyRefused(r) ==
    LET p == job[r].payment IN
    /\ job[r].kind = "verify"
    /\ IF gateway[p] = "open" \/ (gateway[p] = "verified" /\ payment[p].provider = "ZIBAL")
       THEN UNCHANGED failures
       ELSE failures < MaxFailures /\ failures' = failures + 1
    /\ SetStatus(p, "FAILED")
    /\ Finish(r)
    /\ UNCHANGED <<event, sale, stock, taken, gateway, notified, edits>>

\* a request dies, its transaction is rolled back
Fail(r) ==
    /\ ~Free(r) /\ failures < MaxFailures
    /\ failures' = failures + 1
    /\ Finish(r)
    /\ UNCHANGED <<rows, gateway, notified, edits>>

CustomerPays(p) ==
    /\ gateway[p] = "open" /\ payment[p].authority
    /\ gateway' = [gateway EXCEPT ![p] = "paid"]
    /\ UNCHANGED <<rows, notified, job, edits, failures>>

--------------------------------------------------------------------------------
(* The items of a payment.                                                 *)

Restored(items) == [v \in Variants |-> stock[v] + items[v]]
\* Mutant: too little on the shelf is not noticed
LackingNever(shelf, items) == FALSE
Lacking(shelf, items) == \E v \in Variants : shelf[v] < items[v]
LiveSale(p) == payment[p].sale # None /\ sale[payment[p].sale].live

Begin(a, work) ==
    /\ Free(a) /\ edits < MaxEdits
    /\ edits' = edits + 1
    /\ Goto(a, work)
    /\ UNCHANGED <<rows, gateway, notified, failures>>

\* Mutant: the assignment takes no lock
AssignUnlocked(p) == TRUE
\* pg_advisory_xact_lock(event-payment-assign:paymentId)
AssignLockFree(p) == \A a \in Admins : ~(job[a].kind = "assign" /\ job[a].payment = p)

Loaded(p) == IF LiveSale(p) THEN payment[p].sale ELSE None

AssignBegin(a, p, items) ==
    /\ AssignLockFree(p) /\ payment[p].status = "PAID"
    /\ \A b \in Admins : Serial => job[b].kind \notin {"update", "remove"}
    /\ Begin(a, [kind |-> "assign", payment |-> p, sale |-> Loaded(p), items |-> items,
                 old |-> IF Loaded(p) = None THEN NoItems ELSE sale[Loaded(p)].items])

\* shelf: what is left when the old items are back; too little undoes all
AssignItems(a) ==
    LET j == job[a]
        shelf == Restored(j.old)
    IN
    /\ j.kind = "assign"
    /\ IF Lacking(shelf, j.items) THEN UNCHANGED <<stock, sale, payment>>
       ELSE /\ stock' = [v \in Variants |-> shelf[v] - j.items[v]]
            /\ IF j.sale # None
               THEN /\ sale' = [sale EXCEPT ![j.sale].items = j.items, ![j.sale].edited = FALSE,
                                            ![j.sale].payable = payment[j.payment].amount]
                    /\ UNCHANGED payment
               ELSE \E s \in Sales :
                      /\ sale[s] = NoSale
                      /\ sale' = [sale EXCEPT ![s] = NewSale(j.payment, j.items)]
                      /\ payment' = [payment EXCEPT ![j.payment].sale = s]
    /\ Finish(a)
    /\ UNCHANGED <<event, taken, gateway, notified, edits, failures>>

--------------------------------------------------------------------------------
(* The page of offline sales.                                              *)

LoadSale(a, s, kind, items) ==
    /\ sale[s].live
    /\ Serial => \A b \in Admins : job[b].kind \notin {"assign", "update", "remove"}
    /\ Begin(a, [kind |-> kind, sale |-> s, old |-> sale[s].items, items |-> items])

UpdateSale(a) ==
    LET j == job[a]
        shelf == Restored(j.old)
    IN
    /\ j.kind = "update"
    /\ IF Lacking(shelf, j.items) THEN UNCHANGED <<stock, sale>>
       ELSE /\ stock' = [v \in Variants |-> shelf[v] - j.items[v]]
            /\ \E amount \in Amounts :
                 sale' = [sale EXCEPT ![j.sale].items = j.items, ![j.sale].payable = amount,
                                      ![j.sale].edited = TRUE]
    /\ Finish(a)
    /\ UNCHANGED <<event, payment, taken, gateway, notified, edits, failures>>

RemoveSale(a) ==
    LET j == job[a] IN
    /\ j.kind = "remove"
    /\ stock' = Restored(j.old)
    /\ sale' = [sale EXCEPT ![j.sale].live = FALSE]
    /\ Finish(a)
    /\ UNCHANGED <<event, payment, taken, gateway, notified, edits, failures>>

\* a customer of the shop puts a unit into the basket
AddToBasket(v) ==
    /\ stock[v] > 0
    /\ stock' = [stock EXCEPT ![v] = @ - 1] /\ taken' = [taken EXCEPT ![v] = @ + 1]
    /\ UNCHANGED <<event, payment, sale, gateway, notified, job, edits, failures>>

--------------------------------------------------------------------------------
(* Events: EventService.                                                   *)

SetActive(e, state) ==
    /\ event[e] # "removed" /\ event[e] # state /\ edits < MaxEdits
    /\ event' = [event EXCEPT ![e] = state]
    /\ edits' = edits + 1
    /\ UNCHANGED <<payment, sale, stock, taken, gateway, notified, job, failures>>
UpdateEvent(e) == \E state \in {"active", "paused"} : SetActive(e, state)
RemoveEvent(e) == SetActive(e, "removed")

--------------------------------------------------------------------------------
Init ==
    /\ event = [e \in Events |-> "active"]
    /\ payment = [p \in Payments |-> NoPayment]
    /\ sale = [s \in Sales |-> NoSale]
    /\ stock = [v \in Variants |-> ShelfStock]
    /\ taken = [v \in Variants |-> 0]
    /\ gateway = [p \in Payments |-> "none"]
    /\ notified = [p \in Payments |-> 0]
    /\ job = [w \in Requests \cup Admins |-> Idle]
    /\ edits = 0 /\ failures = 0

RequestStep(r) ==
    \/ RequestRefused(r) \/ RequestAccepted(r) \/ RequestMocked(r) \/ StoreAuthority(r)
    \/ VerifySucceeds(r) \/ VerifyRefused(r) \/ MarkPaid(r) \/ NotifyAdmins(r)

Next ==
    \/ \E r \in Requests :
          \/ \E p \in Payments, e \in Events, amount \in Amounts, requested \in Providers \cup {None} :
                Create(r, p, e, amount, requested)
          \/ \E p \in Payments : NotOk(r, p) \/ CallbackBegin(r, p)
          \/ RequestStep(r) \/ Fail(r)
    \/ \E p \in Payments : CustomerPays(p)
    \/ \E v \in Variants : AddToBasket(v)
    \/ \E a \in Admins :
          \/ \E p \in Payments, items \in Baskets : AssignBegin(a, p, items)
          \/ \E s \in Sales, items \in Baskets \ {NoItems} : LoadSale(a, s, "update", items)
          \/ \E s \in Sales : LoadSale(a, s, "remove", NoItems)
          \/ AssignItems(a) \/ UpdateSale(a) \/ RemoveSale(a)
    \/ \E e \in Events : UpdateEvent(e) \/ RemoveEvent(e)

Spec == Init /\ [][Next]_vars

--------------------------------------------------------------------------------
(* Properties.                                                             *)

(* Type correctness: no shelf goes below zero, although every operation    *)
(* writes from what it loaded before.                                      *)
TypeOK ==
    /\ event \in [Events -> {"active", "paused", "removed"}]
    /\ payment \in [Payments -> [status : {"absent", "INITIATED", "PAID", "FAILED"},
                                 event : Events \cup {None}, provider : Providers \cup {None},
                                 amount : Nat, authority : BOOLEAN, sale : Sales \cup {None}]]
    /\ sale \in [Sales -> [live : BOOLEAN, payment : Payments \cup {None}, payable : Nat,
                           items : [Variants -> Nat], edited : BOOLEAN]]
    /\ stock \in [Variants -> Nat] /\ taken \in [Variants -> Nat]
    /\ gateway \in [Payments -> {"none", "open", "paid", "verified"}]
    /\ notified \in [Payments -> Nat]
    /\ edits \in 0..MaxEdits /\ failures \in 0..MaxFailures

(* A payment is sold exactly when it is paid, and then once: repeated and  *)
(* contradictory callbacks, answers that were lost, removals of its sale   *)
(* and assignments after them leave at most one sale standing for it, of   *)
(* the amount that was paid unless someone edited it by hand; and the      *)
(* managers are told of it once (markPaid, verifyCallback, assignItems).   *)
SalesOf(p) == {s \in Sales : sale[s].payment = p}
PaidSoldOnce ==
    \A p \in Payments :
        /\ payment[p].status = "PAID" <=> SalesOf(p) # {}
        /\ \A s, t \in SalesOf(p) : sale[s].live /\ sale[t].live => s = t
        /\ \A s \in SalesOf(p) : sale[s].edited \/ sale[s].payable = payment[p].amount
        /\ notified[p] <= 1

(* Every unit is on the shelf, sold by the shop or in a sale that stands,  *)
(* however often the items of a payment are assigned anew, taken back or   *)
(* resent, and its sale edited or removed, one operation of the offline    *)
(* sales' page at a time (the comment of assignItems).                     *)
UnitsIn(count) == UNION {{x} \X (1..count[x]) : x \in DOMAIN count}
SoldIn(s, v) == IF sale[s].live THEN sale[s].items[v] ELSE 0
Sold(v) == Cardinality(UnitsIn([s \in Sales |-> SoldIn(s, v)]))
ShelfBalanced == \A v \in Variants : stock[v] + taken[v] + Sold(v) = ShelfStock

================================================================================
