--------------------------- MODULE BasketReservation ---------------------------
(***************************************************************************)
(* Stock holds of basket items.  Adding an item takes its units off the    *)
(* shelf for a limited time; editing, removing and checking out move them  *)
(* on, the sweeper puts lapsed ones back, and a payment that failed puts   *)
(* the ordered units both on the shelf and back into the basket.           *)
(*                                                                         *)
(* The handlers are not serialised: each reads rows first and writes them  *)
(* later.  The reads are steps of their own.  The writes of one handler    *)
(* are one step: they keep the rows they change locked until they commit.  *)
(*                                                                         *)
(* There is one variant, so a basket has at most one item row (the pair    *)
(* basketId, productVariantId is unique); a handler treats several rows    *)
(* one after the other.                                                    *)
(***************************************************************************)
EXTENDS Integers, FiniteSetsExt

CONSTANTS
    Users, NoUser,
    Requests,      \* HTTP requests that may be in progress at the same time
    Sweepers,      \* overlapping runs of the sweep cron job
    Quantities,    \* quantities a request may ask for
    ShelfStock,    \* units on the shelf at the start
    TTL,           \* RESERVATION_TTL_MS, in ticks
    Serial,        \* TRUE: requests are handled one after the other
    MaxBaskets, MaxOrders, MaxRequests, MaxTime, MaxFailures   \* bounds

ASSUME ConstantsAssumption ==
    /\ NoUser \notin Users
    /\ Quantities \subseteq Nat \ {0}
    /\ TTL \in Nat \ {0}
    /\ Serial \in BOOLEAN
    /\ {ShelfStock, MaxBaskets, MaxOrders, MaxRequests, MaxTime, MaxFailures} \subseteq Nat
    /\ Requests \cap Sweepers = {}

Baskets == 1..MaxBaskets        \* in the order of createdAt
OrderIds == 1..MaxOrders

VARIABLES
    clock,
    stock,        \* ProductVariant.stock
    owner,        \* TempBasket.userId; NoUser: not created yet
    deleted,      \* baskets with isDeleted
    row,          \* the basket's TempBasketItem; qty = 0: no row yet
    order,        \* the orders, with the units of their order item
    pc,           \* where request or sweep p stands
    req,          \* what request t has been given and has read
    sweep,        \* what sweep s has listed: the query's now and the rows
    received,     \* how many requests have come in
    failures,     \* how many sweeps were cut short
    unbacked      \* ghost: units held without having left the shelf

rows == <<stock, owner, deleted, row, order, unbacked>>
vars == <<clock, rows, pc, req, sweep, received, failures>>

Procs == Requests \cup Sweepers
Ops == {"none", "add", "update", "remove", "checkout"}
PCs == {"idle", "create", "read", "write", "sweeping"}
NoRow == [live |-> FALSE, qty |-> 0, until |-> 0]
NoOrder == [status |-> "absent", buyer |-> NoUser, qty |-> 0, gateway |-> "none"]
NoReq == [op |-> "none", user |-> NoUser, wanted |-> 0, now |-> 0, basket |-> 0, seen |-> 0]
NoSweep == [now |-> 0, listed |-> {}, qty |-> [b \in Baskets |-> 0]]

TypeOK ==
    /\ clock \in 0..MaxTime
    /\ stock \in Nat
    /\ owner \in [Baskets -> Users \cup {NoUser}]
    /\ deleted \subseteq Baskets
    /\ row \in [Baskets -> [live : BOOLEAN, qty : Nat, until : Nat]]
    /\ order \in [OrderIds -> [status : {"absent", "PENDING", "PAID", "FAILED"},
                               buyer : Users \cup {NoUser}, qty : Nat,
                               gateway : {"none", "asked", "accepted", "refused"}]]
    /\ pc \in [Procs -> PCs]
    /\ req \in [Requests -> [op : Ops, user : Users \cup {NoUser}, wanted : Nat,
                             now : Nat, basket : Baskets \cup {0}, seen : Nat]]
    /\ sweep \in [Sweepers -> [now : Nat, listed : SUBSET Baskets, qty : [Baskets -> Nat]]]
    /\ received \in 0..MaxRequests
    /\ failures \in 0..MaxFailures
    /\ unbacked \in Int

Init ==
    /\ clock = 0
    /\ stock = ShelfStock
    /\ owner = [b \in Baskets |-> NoUser]
    /\ deleted = {}
    /\ row = [b \in Baskets |-> NoRow]
    /\ order = [o \in OrderIds |-> NoOrder]
    /\ pc = [p \in Procs |-> "idle"]
    /\ req = [t \in Requests |-> NoReq]
    /\ sweep = [s \in Sweepers |-> NoSweep]
    /\ received = 0
    /\ failures = 0
    /\ unbacked = 0

--------------------------------------------------------------------------------

BasketsOf(user) == {b \in Baskets : owner[b] = user}
Active(user) == BasketsOf(user) \ deleted
Latest(S) == Max(S)

(* reservationDeadline()                                                   *)
Deadline == clock + TTL
Lapsed(b, now) == row[b].live /\ row[b].until <= now

Hold(qty) == [live |-> TRUE, qty |-> qty, until |-> Deadline]
Dead(r) == [r EXCEPT !.live = FALSE]

Quiet == \A t \in Requests : pc[t] = "idle"

Goto(p, label) == pc' = [pc EXCEPT ![p] = label]
Finish(t) ==
    /\ Goto(t, "idle")
    /\ req' = [req EXCEPT ![t] = NoReq]

(* A request comes in: its first query has been answered.                  *)
Begin(t, op, user, wanted, basket, label) ==
    /\ pc[t] = "idle"
    /\ Serial => Quiet
    /\ received < MaxRequests
    /\ received' = received + 1
    /\ Goto(t, label)
    /\ req' = [req EXCEPT ![t] = [op |-> op, user |-> user, wanted |-> wanted,
                                  now |-> clock, basket |-> basket, seen |-> 0]]
    /\ UNCHANGED <<clock, rows, sweep, failures>>

At(t, op, label) == pc[t] = label /\ req[t].op = op

--------------------------------------------------------------------------------
(* upsertItem.                                                             *)

(* getOrCreateActiveBasket: the newest basket that is not deleted ...      *)
AddBegin(t, user, q) ==
    IF Active(user) # {}
    THEN Begin(t, "add", user, q, Latest(Active(user)), "write")
    ELSE Begin(t, "add", user, q, 0, "create")

(* ... or else a new one, even if another request has made one meanwhile.  *)
CreateBasket(t) ==
    LET fresh == {b \in Baskets : owner[b] = NoUser}
    IN
    /\ At(t, "add", "create")
    /\ fresh # {}
    /\ owner' = [owner EXCEPT ![Min(fresh)] = req[t].user]
    /\ req' = [req EXCEPT ![t].basket = Min(fresh)]
    /\ Goto(t, "write")
    /\ UNCHANGED <<clock, stock, deleted, row, order, unbacked, sweep, received, failures>>

(* Mutant: the decrement is not guarded by stock >= quantity.              *)
AddItemUnguarded(t) ==
    LET b == req[t].basket
        q == req[t].wanted
    IN
    /\ At(t, "add", "write")
    /\ stock' = stock - q
    /\ row' = [row EXCEPT ![b] = Hold(row[b].qty + q)]
    /\ unbacked' = unbacked + IF row[b].live THEN 0 ELSE row[b].qty
    /\ Finish(t)
    /\ UNCHANGED <<clock, owner, deleted, order, sweep, received, failures>>

(* The units leave the shelf, if there are as many, and are added to the   *)
(* row.  A row deleted before comes to life again with the quantity it had *)
(* then, although those units went back on the shelf.                      *)
AddItem(t) ==
    LET b == req[t].basket
        q == req[t].wanted
    IN
    /\ At(t, "add", "write")
    /\ IF stock >= q
       THEN /\ stock' = stock - q
            /\ row' = [row EXCEPT ![b] = Hold(row[b].qty + q)]
            /\ unbacked' = unbacked + IF row[b].live THEN 0 ELSE row[b].qty
       ELSE UNCHANGED <<stock, row, unbacked>>
    /\ Finish(t)
    /\ UNCHANGED <<clock, owner, deleted, order, sweep, received, failures>>

--------------------------------------------------------------------------------
(* updateItem and removeItem.                                              *)

EditBegin(t, op, user, q) ==
    /\ Active(user) # {}
    /\ Begin(t, op, user, q, Latest(Active(user)), "read")

ReadItem(t) ==
    LET b == req[t].basket
    IN
    /\ pc[t] = "read"
    /\ req[t].op \in {"update", "remove"}
    /\ IF row[b].live
       THEN /\ Goto(t, "write")
            /\ req' = [req EXCEPT ![t].seen = row[b].qty]
       ELSE Finish(t)
    /\ UNCHANGED <<clock, rows, sweep, received, failures>>

(* Mutant: the deadline is not renewed when the quantity changes.          *)
UpdateItemOldDeadline(t) ==
    LET b == req[t].basket
        q == req[t].wanted
    IN
    /\ At(t, "update", "write")
    /\ stock >= q - req[t].seen
    /\ stock' = stock - (q - req[t].seen)
    /\ row' = [row EXCEPT ![b].qty = IF row[b].live THEN q ELSE @]
    /\ Finish(t)
    /\ UNCHANGED <<clock, owner, deleted, order, unbacked, sweep, received, failures>>

(* The shelf pays for or gets the difference to the quantity read; the     *)
(* row, if it is still there, is set to the new quantity.                  *)
UpdateItem(t) ==
    LET b == req[t].basket
        q == req[t].wanted
    IN
    /\ At(t, "update", "write")
    /\ IF stock >= q - req[t].seen
       THEN /\ stock' = stock - (q - req[t].seen)
            /\ row' = [row EXCEPT ![b] = IF row[b].live THEN Hold(q) ELSE row[b]]
       ELSE UNCHANGED <<stock, row>>
    /\ Finish(t)
    /\ UNCHANGED <<clock, owner, deleted, order, unbacked, sweep, received, failures>>

(* Mutant: the units of a removed item stay off the shelf.                 *)
RemoveItemKeepsStock(t) ==
    /\ At(t, "remove", "write")
    /\ row' = [row EXCEPT ![req[t].basket] = Dead(row[req[t].basket])]
    /\ Finish(t)
    /\ UNCHANGED <<clock, stock, owner, deleted, order, unbacked, sweep, received, failures>>

(* The units read go back, whether or not the row was still there.         *)
RemoveItem(t) ==
    LET b == req[t].basket
    IN
    /\ At(t, "remove", "write")
    /\ row' = [row EXCEPT ![b] = Dead(row[b])]
    /\ stock' = stock + req[t].seen
    /\ Finish(t)
    /\ UNCHANGED <<clock, owner, deleted, order, unbacked, sweep, received, failures>>

--------------------------------------------------------------------------------
(* checkout, under the lock checkout:userId from the read to the commit.   *)

CheckoutBegin(t, user) == Begin(t, "checkout", user, 0, 0, "read")

LockFree(user) ==
    \A u \in Requests : ~(At(u, "checkout", "write") /\ req[u].user = user)

(* Mutant: without the lock.                                               *)
CheckoutReadUnlocked(t) ==
    LET mine == Active(req[t].user)
        b == Latest(mine)
    IN
    /\ At(t, "checkout", "read")
    /\ mine # {} /\ row[b].live /\ row[b].until > req[t].now
    /\ Goto(t, "write")
    /\ req' = [req EXCEPT ![t].basket = b, ![t].seen = row[b].qty]
    /\ UNCHANGED <<clock, rows, sweep, received, failures>>

(* The newest basket must hold an item, and the hold must not have lapsed  *)
(* when the request came in.                                               *)
CheckoutRead(t) ==
    LET mine == Active(req[t].user)
        b == Latest(mine)
    IN
    /\ At(t, "checkout", "read")
    /\ LockFree(req[t].user)
    /\ IF mine # {} /\ row[b].live /\ row[b].until > req[t].now
       THEN /\ Goto(t, "write")
            /\ req' = [req EXCEPT ![t].basket = b, ![t].seen = row[b].qty]
       ELSE Finish(t)
    /\ UNCHANGED <<clock, rows, sweep, received, failures>>

(* The order takes over the quantity read; rows and basket are deleted.    *)
Checkout(t) ==
    LET b == req[t].basket
        fresh == {o \in OrderIds : order[o] = NoOrder}
    IN
    /\ At(t, "checkout", "write")
    /\ fresh # {}
    /\ order' = [order EXCEPT ![Min(fresh)] =
                    [status |-> "PENDING", buyer |-> req[t].user, qty |-> req[t].seen,
                     gateway |-> "asked"]]
    /\ row' = [row EXCEPT ![b] = Dead(row[b])]
    /\ deleted' = deleted \cup {b}
    /\ Finish(t)
    /\ UNCHANGED <<clock, stock, owner, unbacked, sweep, received, failures>>

--------------------------------------------------------------------------------
(* Settling an order: the steps of OrderSettlement, here with what they do *)
(* to baskets.  The age of an order is left out: it may lapse at any time. *)

Settling(o) ==
    /\ Serial => Quiet
    /\ UNCHANGED <<clock, owner, pc, req, sweep, received, failures>>

Mark(o, status) == order' = [order EXCEPT ![o].status = status]

(* releaseOrder: nothing happens to an order that is not PENDING.          *)
ReleasedStock(o) == IF order[o].status = "PENDING" THEN order[o].qty ELSE 0
ReleasedStatus(o) == IF order[o].status = "PENDING" THEN "FAILED" ELSE order[o].status

(* restoreBasketItems: the user's newest basket, deleted or not, comes     *)
(* back and its row is overwritten.  No unit leaves the shelf for it.      *)
RestoreToBasket(user, q) ==
    LET b == Latest(BasketsOf(user))
    IN
    /\ deleted' = deleted \ {b}
    /\ row' = [row EXCEPT ![b] = Hold(q)]
    /\ unbacked' = unbacked + q - IF row[b].live THEN row[b].qty ELSE 0

(* The sweeper or a later checkout releases it.                            *)
Release(o) ==
    /\ Settling(o)
    /\ order[o].status = "PENDING"
    /\ Mark(o, "FAILED")
    /\ stock' = stock + order[o].qty
    /\ UNCHANGED <<deleted, row, unbacked>>

(* After the checkout's transaction the gateway accepts the order ...      *)
GatewayAccepts(o) ==
    /\ Settling(o)
    /\ order[o].gateway = "asked"
    /\ order' = [order EXCEPT ![o].gateway = "accepted"]
    /\ UNCHANGED <<stock, deleted, row, unbacked>>

(* ... or refuses it: it is released and, even if something else had       *)
(* released it before, restored.                                           *)
GatewayRefuses(o) ==
    /\ Settling(o)
    /\ order[o].gateway = "asked"
    /\ order' = [order EXCEPT ![o].gateway = "refused", ![o].status = ReleasedStatus(o)]
    /\ stock' = stock + ReleasedStock(o)
    /\ RestoreToBasket(order[o].buyer, order[o].qty)

(* A callback reports a failed payment: restored only if released by it.   *)
PaymentFails(o) ==
    /\ Settling(o)
    /\ order[o].status = "PENDING" /\ order[o].gateway = "accepted"
    /\ Mark(o, "FAILED")
    /\ stock' = stock + order[o].qty
    /\ RestoreToBasket(order[o].buyer, order[o].qty)

Pay(o) ==
    /\ Settling(o)
    /\ order[o].status = "PENDING" /\ order[o].gateway = "accepted"
    /\ Mark(o, "PAID")
    /\ UNCHANGED <<stock, deleted, row, unbacked>>

(* Paid after its release: the units are taken again if they are there.    *)
PayLate(o) ==
    /\ Settling(o)
    /\ order[o].status = "FAILED" /\ order[o].gateway = "accepted"
    /\ Mark(o, "PAID")
    /\ IF stock >= order[o].qty
       THEN stock' = stock - order[o].qty /\ UNCHANGED unbacked
       ELSE unbacked' = unbacked + order[o].qty /\ UNCHANGED stock
    /\ UNCHANGED <<deleted, row>>

--------------------------------------------------------------------------------
(* sweepExpiredBasketItems.                                                *)

(* Mutant: rows of deleted baskets are left out.                           *)
SweepListActive(s) ==
    LET lapsed == {b \in Baskets \ deleted : Lapsed(b, clock)}
    IN
    /\ pc[s] = "idle"
    /\ lapsed # {}
    /\ Goto(s, "sweeping")
    /\ sweep' = [sweep EXCEPT ![s] =
                    [now |-> clock, listed |-> lapsed, qty |-> [b \in Baskets |-> row[b].qty]]]
    /\ UNCHANGED <<clock, rows, req, received, failures>>

(* The lapsed rows are read once, in whatever basket they are.             *)
SweepList(s) ==
    LET lapsed == {b \in Baskets : Lapsed(b, clock)}
    IN
    /\ pc[s] = "idle"
    /\ lapsed # {}
    /\ Goto(s, "sweeping")
    /\ sweep' = [sweep EXCEPT ![s] =
                    [now |-> clock, listed |-> lapsed,
                     qty |-> [b \in Baskets |-> IF b \in lapsed THEN row[b].qty ELSE 0]]]
    /\ UNCHANGED <<clock, rows, req, received, failures>>

(* A row that is still live and lapsed at the time of the query is deleted *)
(* and the quantity that was read goes back on the shelf.                  *)
SweepClaim(s, b) ==
    /\ pc[s] = "sweeping"
    /\ Serial => Quiet
    /\ b \in sweep[s].listed
    /\ sweep' = [sweep EXCEPT ![s].listed = @ \ {b}]
    /\ IF Lapsed(b, sweep[s].now)
       THEN /\ row' = [row EXCEPT ![b] = Dead(row[b])]
            /\ stock' = stock + sweep[s].qty[b]
       ELSE UNCHANGED <<row, stock>>
    /\ UNCHANGED <<clock, owner, deleted, order, unbacked, pc, req, received, failures>>

SweepEnd(s) ==
    /\ pc[s] = "sweeping"
    /\ sweep[s].listed = {}
    /\ Goto(s, "idle")
    /\ sweep' = [sweep EXCEPT ![s] = NoSweep]
    /\ UNCHANGED <<clock, rows, req, received, failures>>

(* A transaction of the sweep fails, or the process dies: the rest of the  *)
(* list is dropped.                                                        *)
SweepFails(s) ==
    /\ pc[s] = "sweeping"
    /\ failures < MaxFailures
    /\ failures' = failures + 1
    /\ Goto(s, "idle")
    /\ sweep' = [sweep EXCEPT ![s] = NoSweep]
    /\ UNCHANGED <<clock, rows, req, received>>

Tick ==
    /\ clock < MaxTime
    /\ clock' = clock + 1
    /\ UNCHANGED <<rows, pc, req, sweep, received, failures>>

--------------------------------------------------------------------------------

Arrive(t) ==
    \E user \in Users :
        \/ \E q \in Quantities :
            AddBegin(t, user, q) \/ EditBegin(t, "update", user, q)
        \/ EditBegin(t, "remove", user, 0)
        \/ CheckoutBegin(t, user)

Handle(t) ==
    \/ CreateBasket(t) \/ AddItem(t)
    \/ ReadItem(t) \/ UpdateItem(t) \/ RemoveItem(t)
    \/ CheckoutRead(t) \/ Checkout(t)

Settle(o) ==
    \/ Release(o) \/ GatewayAccepts(o) \/ GatewayRefuses(o)
    \/ PaymentFails(o) \/ Pay(o) \/ PayLate(o)

Sweep(s) == SweepList(s) \/ (\E b \in Baskets : SweepClaim(s, b)) \/ SweepEnd(s)

Next ==
    \/ \E t \in Requests : Arrive(t) \/ Handle(t)
    \/ \E o \in OrderIds : Settle(o)
    \/ \E s \in Sweepers : Sweep(s) \/ SweepFails(s)
    \/ Tick

Spec == Init /\ [][Next]_vars

(* Cron starts the sweep every 30 seconds.                                 *)
FairSpec == Spec /\ \A s \in Sweepers : WF_vars(Sweep(s))

--------------------------------------------------------------------------------
(* Properties.                                                             *)

(* The sweeper puts back the quantity it read, some time after it read it. *)
(* If the row it then deletes is lapsed by its own clock, that is the      *)
(* quantity the row holds: whatever changed it in between renewed the      *)
(* deadline, so the claim does not match.                                  *)
SweepReleasesHeld ==
    \A s \in Sweepers : \A b \in sweep[s].listed :
        Lapsed(b, sweep[s].now) => row[b].qty = sweep[s].qty[b]

(* The basket a checkout has read is not ordered by another checkout       *)
(* before it is ordered by this one.                                       *)
CheckoutOwnsBasket ==
    \A t \in Requests : At(t, "checkout", "write") => req[t].basket \notin deleted

(* No hold is forgotten: a lapsed one is released or renewed, also one     *)
(* that a late upsert has put into a basket already checked out.           *)
HoldsEnd == \A b \in Baskets : Lapsed(b, clock) ~> ~Lapsed(b, clock)

(* With requests handled one after the other, and the sweeper working      *)
(* through a list it read earlier, the units on the shelf, in live rows    *)
(* and in orders are those there were at the start, but for the units that *)
(* a re-added row, a restored basket or a late payment claims unbacked.    *)
(* The units are counted one by one, as pairs of a row and a number.       *)
HeldBy(b) == IF row[b].live THEN row[b].qty ELSE 0
OrderedBy(o) == IF order[o].status \in {"PENDING", "PAID"} THEN order[o].qty ELSE 0
UnitsIn(count) == UNION {{x} \X (1..count[x]) : x \in DOMAIN count}
Units == stock + Cardinality(UnitsIn([b \in Baskets |-> HeldBy(b)]))
               + Cardinality(UnitsIn([o \in OrderIds |-> OrderedBy(o)]))
StockExplained == Units = ShelfStock + unbacked

(* basket.controller.ts says at checkout that the stock of the items was   *)
(* reserved when they were added to the basket, so that nothing is left to *)
(* be taken: shelf, baskets and orders never hold more than there is.      *)
HoldsAreBacked == Units <= ShelfStock

================================================================================
