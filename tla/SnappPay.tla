-------------------------------- MODULE SnappPay --------------------------------
(***************************************************************************)
(* One purchase through Snapp Pay.  Checkout asks for a token, the         *)
(* customer's browser is posted back, and the server verifies and settles  *)
(* the purchase at Snapp before it marks the order paid.  Administrators    *)
(* reconcile, look up, reduce and cancel purchases; others edit, restate    *)
(* and delete the order without telling Snapp; a sweeper releases orders    *)
(* whose time is up.                                                        *)
(*                                                                         *)
(* Every call to Snapp is made outside database transactions and is a step *)
(* of its own: it may fail, and its answer may be lost although it was     *)
(* carried out.  A database transaction is one step; the transactions that *)
(* settle the order take its settle lock.                                  *)
(***************************************************************************)
EXTENDS Integers, FiniteSets, FiniteSetsExt

CONSTANTS
    Callbacks,    \* posts of the browser to the return URL
    Admins,       \* administrators at work at the same time
    Lines,        \* items of the order
    Quantity,     \* how many of each were bought
    UnitPrice,    \* the price of one
    Extras,       \* shipping and packaging
    Off,          \* discount of the order
    FromWallet,   \* what the wallet paid
    NewOff, NewExtras,   \* discounts and costs an administrator may enter
    MaxQuantity,  \* bound: quantities an administrator enters
    MaxLost,      \* bound: calls to Snapp that fail or whose answer is lost
    MaxFailures,  \* bound: processes that die
    MaxActs       \* bound: operations of administrators

(* Only an order with something left to pay is sent to Snapp.              *)
ASSUME PriceAssumption ==
    /\ IsFiniteSet(Lines) /\ Quantity \in Nat \ {0} /\ UnitPrice \in Nat \ {0}
    /\ Extras \in Nat /\ Off \in Nat /\ FromWallet \in Nat
    /\ Cardinality(Lines) * Quantity * UnitPrice + Extras > Off + FromWallet
    /\ NewOff \cup NewExtras \subseteq Nat /\ MaxQuantity \in Nat /\ Quantity <= MaxQuantity
ASSUME ProcsAssumption ==
    /\ Callbacks \cap Admins = {}
    /\ MaxLost \in Nat /\ MaxFailures \in Nat /\ MaxActs \in Nat

VARIABLES
    pay, status,   \* Order.paymentStatus and orderStatus
    deleted,       \* Order.isDeleted
    qty,           \* OrderItem.quantity of the lines; 0 for a deleted item
    total, off,    \* Order.totalAmount and discountAmount
    extras,        \* Order.shippingCost and packagingCost together
    payable,       \* Order.payableAmount
    amended,       \* ghost: the back office changed items or amounts
    restated,      \* ghost: it set the status, and Snapp's cancel did not since
    tx,            \* PaymentTransaction.status
    gw,            \* PaymentTransaction.gatewayStatus
    token,         \* whether PaymentTransaction.authority is stored
    expired,       \* the payment window has passed
    remote,        \* state of the purchase at Snapp
    charged,       \* its amount there
    authorised,    \* the customer has agreed to it there
    shop,          \* where the checkout request stands
    pc, attempt,   \* where process p stands, and its round of a retry loop
    seen,          \* the status p read last
    target,        \* the reduction p is carrying out
    claimed,       \* callbacks that claimed the attempt
    hooks,         \* how often the paid hooks were started
    lost, failures, acts

amounts == <<qty, total, off, extras, payable, amended>>
order == <<pay, status, deleted, amounts, restated>>
payment == <<tx, gw, token>>
snapp == <<remote, charged, authorised>>
procs == <<pc, attempt, seen, target>>
bounds == <<lost, failures, acts>>
vars == <<order, payment, snapp, procs, expired, shop, claimed, hooks, bounds>>

UnitsIn(count) == UNION {{x} \X (1..count[x]) : x \in DOMAIN count}
Subtotal(q) == Cardinality(UnitsIn(q)) * UnitPrice

(* buildOrderPayload: the wallet's share is what the cart, less the        *)
(* discount, costs beyond the amount due.                                  *)
AmountAsked(q, o, x, due) ==
    LET cart == Subtotal(q) + x
    IN  cart - o - Max({0, cart - o - due})

Bought == [l \in Lines |-> Quantity]
Price == Subtotal(Bought) + Extras - Off - FromWallet

(* update: the new quantities, the items they change, the amount due and   *)
(* the amount of the payload, computed from the order as it was loaded.    *)
Reduction(q) ==
    LET due == payable - (Subtotal(qty) - Subtotal(q))
    IN  [qty |-> q, edited |-> {l \in Lines : q[l] # qty[l]}, due |-> due,
         asked |-> AmountAsked(q, off, extras, due)]
Whole == [qty |-> Bought, edited |-> {}, due |-> Price, asked |-> Price]

(* HANDLED: confirmed, shipped or delivered.                               *)
Statuses == {"PENDING_PAYMENT", "PAID", "HANDLED", "CANCELED"}
Procs == Callbacks \cup Admins
RemoteStates == {"none", "PENDING", "VERIFY", "SETTLE", "REVERT", "CANCEL"}
NoAnswer == "no answer"
Codes == RemoteStates \cup {NoAnswer}
PCs == {"idle", "ask", "verify", "verifyStatus", "settle", "settleStatus", "caught",
        "finalize", "fail", "done", "reconcile", "settleOnce", "view", "write",
        "cancel", "cancelWrite", "reduce", "reduceWrite"}

TypeOK ==
    /\ pay \in {"PENDING", "PAID", "FAILED"}
    /\ status \in Statuses
    /\ deleted \in BOOLEAN /\ token \in BOOLEAN /\ expired \in BOOLEAN
    /\ qty \in [Lines -> 0..MaxQuantity]
    /\ {total, off, extras, payable, charged} \subseteq Nat
    /\ amended \in BOOLEAN /\ restated \in BOOLEAN
    /\ tx \in {"INITIATED", "PAID", "FAILED"}
    /\ gw \in Codes \cup {"NULL", "CALLBACK_RECEIVED"}
    /\ remote \in RemoteStates /\ authorised \in BOOLEAN
    /\ shop \in {"placed", "asked", "sent", "ended"}
    /\ pc \in [Procs -> PCs] /\ attempt \in [Procs -> 0..2]
    /\ seen \in [Procs -> Codes \cup {"NULL", "CALLBACK_RECEIVED", "PAID", "FAILED", "INITIATED"}]
    /\ \A p \in Procs :
        /\ target[p].qty \in [Lines -> 0..MaxQuantity] /\ target[p].edited \subseteq Lines
        /\ target[p].due \in Nat \ {0} /\ target[p].asked \in Int
    /\ claimed \subseteq Callbacks /\ hooks \in Nat
    /\ lost \in 0..MaxLost /\ failures \in 0..MaxFailures /\ acts \in 0..MaxActs

(* The transaction of checkout has committed.                              *)
Init ==
    /\ pay = "PENDING" /\ status = "PENDING_PAYMENT" /\ deleted = FALSE
    /\ qty = Bought /\ total = Subtotal(Bought) /\ off = Off /\ extras = Extras /\ payable = Price
    /\ amended = FALSE /\ restated = FALSE
    /\ tx = "INITIATED" /\ gw = "NULL" /\ token = FALSE
    /\ remote = "none" /\ charged = 0 /\ authorised = FALSE
    /\ expired = FALSE /\ shop = "placed"
    /\ pc = [p \in Procs |-> "idle"]
    /\ attempt = [p \in Procs |-> 0]
    /\ seen = [p \in Procs |-> NoAnswer]
    /\ target = [p \in Procs |-> Whole]
    /\ claimed = {} /\ hooks = 0
    /\ lost = 0 /\ failures = 0 /\ acts = 0

--------------------------------------------------------------------------------
(* releaseOrder: nothing unless the order is still pending.                *)
Released ==
    IF pay = "PENDING" /\ ~deleted
    THEN /\ pay' = "FAILED" /\ status' = "CANCELED"
         /\ tx' = IF tx = "INITIATED" THEN "FAILED" ELSE tx
         /\ UNCHANGED <<deleted, amounts, restated>>
    ELSE UNCHANGED <<order, tx>>

Goto(p, label) ==
    /\ pc' = [pc EXCEPT ![p] = label]
    /\ UNCHANGED <<attempt, seen, target>>

(* The end of a request; an administrator may start another.               *)
Rest(p) == IF p \in Callbacks THEN "done" ELSE "idle"
End(p) ==
    /\ pc' = [pc EXCEPT ![p] = Rest(p)]
    /\ attempt' = [attempt EXCEPT ![p] = 0]
    /\ seen' = [seen EXCEPT ![p] = NoAnswer]
    /\ target' = [target EXCEPT ![p] = Whole]

(* A call that Snapp does not answer in time uses up one of MaxLost.       *)
Answered == UNCHANGED lost
Unanswered == lost < MaxLost /\ lost' = lost + 1

(* getStatus; with .catch(() => null) a failure is NoAnswer.               *)
Answer(a) == \/ a = remote /\ Answered
             \/ a = NoAnswer /\ Unanswered

(* verifyAndSettle gives up: the callback catches it, an admin sees it.    *)
Throw(p) ==
    IF p \in Callbacks THEN Goto(p, "caught") ELSE End(p)

Fails(p, code) ==
    /\ pc' = [pc EXCEPT ![p] = "fail"]
    /\ seen' = [seen EXCEPT ![p] = code]
    /\ UNCHANGED <<attempt, target>>

--------------------------------------------------------------------------------
(* Checkout, after its transaction.                                        *)

RequestToken ==
    /\ shop = "placed"
    /\ shop' = "asked" /\ remote' = "PENDING" /\ charged' = AmountAsked(qty, off, extras, payable)
    /\ UNCHANGED <<order, payment, authorised, procs, expired, claimed, hooks, bounds>>

TokenRefused ==
    /\ shop = "placed"
    /\ shop' = "ended"
    /\ Released
    /\ UNCHANGED <<gw, token, snapp, procs, expired, claimed, hooks, bounds>>

StoreAuthority ==
    /\ shop = "asked"
    /\ shop' = "sent"
    /\ token' = (tx = "INITIATED")
    /\ UNCHANGED <<order, tx, gw, snapp, procs, expired, claimed, hooks, bounds>>

CheckoutDies ==
    /\ shop \in {"placed", "asked"}
    /\ failures < MaxFailures
    /\ failures' = failures + 1 /\ shop' = "ended"
    /\ UNCHANGED <<order, payment, snapp, procs, expired, claimed, hooks, lost, acts>>

(* The customer on Snapp's page; Snapp giving a purchase up.               *)
Authorise ==
    /\ shop = "sent" /\ remote = "PENDING" /\ ~authorised
    /\ authorised' = TRUE
    /\ UNCHANGED <<order, payment, remote, charged, procs, expired, shop, claimed, hooks, bounds>>

Revert ==
    /\ remote \in {"PENDING", "VERIFY"}
    /\ remote' = "REVERT"
    /\ UNCHANGED <<order, payment, charged, authorised, procs, expired, shop, claimed, hooks, bounds>>

--------------------------------------------------------------------------------
(* The guard of the update that claims the attempt.                        *)
Claimable == tx = "INITIATED" /\ gw = "NULL"

(* snappPayCallback, phase 1.                                              *)
Post(c, ok) ==
    /\ pc[c] = "idle" /\ shop = "sent"
    /\ ok => authorised
    /\ IF Claimable
       THEN /\ gw' = "CALLBACK_RECEIVED"
            /\ claimed' = claimed \cup {c}
            /\ Goto(c, IF ok THEN "verify" ELSE "ask")
       ELSE Goto(c, "done") /\ UNCHANGED <<gw, claimed>>
    /\ UNCHANGED <<order, tx, token, snapp, expired, shop, hooks, bounds>>

(* Phase 2.  The form says the purchase failed: Snapp is asked.            *)
AskState(c) ==
    /\ pc[c] = "ask"
    /\ \E a \in Codes :
        /\ Answer(a)
        /\ IF a \in {"VERIFY", "SETTLE"} THEN Goto(c, "verify") ELSE Fails(c, a)
    /\ UNCHANGED <<order, payment, snapp, expired, shop, claimed, hooks, failures, acts>>

(* verifyAndSettle, first loop.                                            *)
Verify(p) ==
    /\ pc[p] = "verify"
    /\ LET accepts == remote = "PENDING" /\ authorised
       IN  \/ /\ accepts /\ remote' = "VERIFY" /\ Answered
              /\ pc' = [pc EXCEPT ![p] = "settle"]
              /\ attempt' = [attempt EXCEPT ![p] = 0]
           \/ /\ accepts /\ remote' = "VERIFY" /\ Unanswered
              /\ pc' = [pc EXCEPT ![p] = "verifyStatus"] /\ UNCHANGED attempt
           \/ /\ UNCHANGED remote
              /\ IF accepts THEN Unanswered ELSE Answered
              /\ pc' = [pc EXCEPT ![p] = "verifyStatus"] /\ UNCHANGED attempt
    /\ UNCHANGED <<order, payment, charged, authorised, seen, target, expired, shop, claimed, hooks,
                   failures, acts>>

VerifyStatus(p) ==
    /\ pc[p] = "verifyStatus"
    /\ \E a \in Codes :
        /\ Answer(a)
        /\ CASE a \in {"VERIFY", "SETTLE"} ->
                  /\ pc' = [pc EXCEPT ![p] = "settle"]
                  /\ attempt' = [attempt EXCEPT ![p] = 0] /\ UNCHANGED <<seen, target>>
             [] a = "PENDING" /\ attempt[p] < 2 ->
                  /\ pc' = [pc EXCEPT ![p] = "verify"]
                  /\ attempt' = [attempt EXCEPT ![p] = @ + 1] /\ UNCHANGED <<seen, target>>
             [] OTHER -> Throw(p)
    /\ UNCHANGED <<order, payment, snapp, expired, shop, claimed, hooks, failures, acts>>

(* Mutant: a verified purchase is taken for a settled one.                 *)
SettledOrHeld == {"SETTLE", "VERIFY"}

(* The answers at which the loop stops asking.                             *)
SettledAnswers == {"SETTLE"}

(* verifyAndSettle, second loop.                                           *)
Settle(p) ==
    /\ pc[p] = "settle"
    /\ \/ remote = "VERIFY" /\ remote' = "SETTLE" /\ Answered /\ Goto(p, "finalize")
       \/ remote = "VERIFY" /\ remote' = "SETTLE" /\ Unanswered /\ Goto(p, "settleStatus")
       \/ /\ UNCHANGED remote
          /\ IF remote = "VERIFY" THEN Unanswered ELSE Answered
          /\ Goto(p, "settleStatus")
    /\ UNCHANGED <<order, payment, charged, authorised, expired, shop, claimed, hooks,
                   failures, acts>>

SettleStatus(p) ==
    /\ pc[p] = "settleStatus"
    /\ \E a \in Codes :
        /\ Answer(a)
        /\ CASE a \in SettledAnswers -> Goto(p, "finalize")
             [] a \notin SettledAnswers /\ attempt[p] < 2 ->
                  /\ pc' = [pc EXCEPT ![p] = "settle"]
                  /\ attempt' = [attempt EXCEPT ![p] = @ + 1] /\ UNCHANGED <<seen, target>>
             [] OTHER -> Throw(p)
    /\ UNCHANGED <<order, payment, snapp, expired, shop, claimed, hooks, failures, acts>>

(* The catch branch of the callback.                                       *)
Caught(c) ==
    /\ pc[c] = "caught"
    /\ \E a \in Codes :
        /\ Answer(a)
        /\ \/ a = "SETTLE" /\ Goto(c, "finalize") /\ UNCHANGED gw
           \/ a = "VERIFY" /\ gw' = "VERIFY" /\ End(c)
           \/ a \notin {"SETTLE", "VERIFY"} /\ Fails(c, a) /\ UNCHANGED gw
    /\ UNCHANGED <<order, tx, token, snapp, expired, shop, claimed, hooks, failures, acts>>

(* failSnappAttempt.                                                       *)
FailAttempt(p) ==
    /\ pc[p] = "fail"
    /\ Released
    /\ gw' = IF tx' = "PAID" THEN gw ELSE seen[p]
    /\ End(p)
    /\ UNCHANGED <<token, snapp, expired, shop, claimed, hooks, bounds>>

(* Mutant: finalizing does not ask whether the order is PAID.              *)
NeverKnown == FALSE

Known == tx = "PAID" \/ pay = "PAID"

(* Mutant: a released order is not revived.                                *)
NeverRevived == FALSE

(* confirmPaidAfterRelease, where the guarded updates missed a row.        *)
Revived == ~deleted

(* finalizeSnappPaid: phase 3, also after a release.                       *)
Finalize(p) ==
    /\ pc[p] = "finalize"
    /\ LET settled == ~Known /\ ((tx = "INITIATED" /\ pay = "PENDING") \/ Revived)
       IN /\ gw' = IF Known \/ settled \/ tx = "INITIATED" THEN "SETTLE" ELSE gw
          /\ tx' = IF settled \/ (tx = "INITIATED" /\ ~Known) THEN "PAID" ELSE tx
          /\ IF settled THEN pay' = "PAID" /\ status' = "PAID" ELSE UNCHANGED <<pay, status>>
          /\ hooks' = IF settled THEN hooks + 1 ELSE hooks
    /\ End(p)
    /\ UNCHANGED <<deleted, amounts, restated, token, snapp, expired, shop, claimed, bounds>>

--------------------------------------------------------------------------------
(* What administrators do; each of these reads the payment row first.      *)
Act(a, label, value) ==
    /\ pc[a] = "idle" /\ acts < MaxActs
    /\ acts' = acts + 1
    /\ pc' = [pc EXCEPT ![a] = label]
    /\ seen' = [seen EXCEPT ![a] = value]
    /\ UNCHANGED <<attempt, order, payment, snapp, expired, shop, claimed, hooks, lost, failures>>

Look(a, label, value) == Act(a, label, value) /\ UNCHANGED target

Reconcile(a) == token /\ Look(a, "reconcile", tx)

ReconcileStatus(a) ==
    /\ pc[a] = "reconcile"
    /\ \E s \in Codes :
        /\ Answer(s)
        /\ CASE s = NoAnswer -> End(a)
             [] s # NoAnswer /\ seen[a] = "PAID" ->
                  /\ pc' = [pc EXCEPT ![a] = "write"]
                  /\ seen' = [seen EXCEPT ![a] = s] /\ UNCHANGED <<attempt, target>>
             [] s = "PENDING" /\ seen[a] # "PAID" -> Goto(a, "verify")
             [] s = "VERIFY" /\ seen[a] # "PAID" -> Goto(a, "settleOnce")
             [] s = "SETTLE" /\ seen[a] # "PAID" -> Goto(a, "finalize")
             [] OTHER -> Fails(a, s)
    /\ UNCHANGED <<order, payment, snapp, expired, shop, claimed, hooks, failures, acts>>

SettleOnce(a) ==
    /\ pc[a] = "settleOnce"
    /\ \/ remote = "VERIFY" /\ remote' = "SETTLE" /\ Answered /\ Goto(a, "finalize")
       \/ remote = "VERIFY" /\ remote' = "SETTLE" /\ Unanswered /\ End(a)
       \/ /\ UNCHANGED remote /\ End(a)
          /\ IF remote = "VERIFY" THEN Unanswered ELSE Answered
    /\ UNCHANGED <<order, payment, charged, authorised, expired, shop, claimed, hooks,
                   failures, acts>>

(* remoteStatus: a look at the live status also stores it.                 *)
View(a) == token /\ Look(a, "view", gw)

ViewStatus(a) ==
    /\ pc[a] = "view"
    /\ \E s \in Codes :
        /\ Answer(s)
        /\ IF s \in {NoAnswer, seen[a]} THEN End(a)
           ELSE /\ pc' = [pc EXCEPT ![a] = "write"]
                /\ seen' = [seen EXCEPT ![a] = s] /\ UNCHANGED <<attempt, target>>
    /\ UNCHANGED <<order, payment, snapp, expired, shop, claimed, hooks, failures, acts>>

WriteStatus(a) ==
    /\ pc[a] = "write"
    /\ gw' = seen[a]
    /\ End(a)
    /\ UNCHANGED <<order, tx, token, snapp, expired, shop, claimed, hooks, bounds>>

Cancel(a) == token /\ tx = "PAID" /\ gw # "CANCEL" /\ Look(a, "cancel", tx)

RemoteCancel(a) ==
    /\ pc[a] = "cancel"
    /\ \/ remote = "SETTLE" /\ remote' = "CANCEL" /\ Answered /\ Goto(a, "cancelWrite")
       \/ remote = "SETTLE" /\ remote' \in {"SETTLE", "CANCEL"} /\ Unanswered /\ End(a)
       \/ remote # "SETTLE" /\ UNCHANGED remote /\ Answered /\ End(a)
    /\ UNCHANGED <<order, payment, charged, authorised, expired, shop, claimed, hooks,
                   failures, acts>>

(* Mutant: the order itself is left as it is.                              *)
CancelWriteSnappOnly(a) ==
    /\ pc[a] = "cancelWrite"
    /\ gw' = "CANCEL" /\ restated' = FALSE
    /\ End(a)
    /\ UNCHANGED <<pay, status, deleted, amounts, tx, token, snapp, expired, shop, claimed, hooks, bounds>>

CancelWrite(a) ==
    /\ pc[a] = "cancelWrite"
    /\ gw' = "CANCEL" /\ status' = "CANCELED" /\ restated' = FALSE
    /\ End(a)
    /\ UNCHANGED <<pay, deleted, amounts, tx, token, snapp, expired, shop, claimed, hooks, bounds>>

(* Mutant: nothing may be left to pay.                                     *)
ReducibleToNothing(q) ==
    /\ ~deleted /\ \A l \in Lines : q[l] <= qty[l]
    /\ \E l \in Lines : q[l] > 0
    /\ Subtotal(q) < Subtotal(qty)

Reducible(q) ==
    /\ ~deleted /\ \A l \in Lines : q[l] <= qty[l]
    /\ \E l \in Lines : q[l] > 0
    /\ Subtotal(q) < Subtotal(qty) /\ Reduction(q).due > 0

Reduce(a, q) ==
    /\ token /\ tx = "PAID" /\ gw # "CANCEL" /\ Reducible(q)
    /\ Act(a, "reduce", tx)
    /\ target' = [target EXCEPT ![a] = Reduction(q)]

(* A payload of nothing is not sent.                                       *)
RemoteReduce(a) ==
    /\ pc[a] = "reduce"
    /\ LET asked == target[a].asked
           accepts == remote = "SETTLE" /\ asked > 0 /\ asked < charged
       IN  \/ accepts /\ charged' = asked /\ Answered /\ Goto(a, "reduceWrite")
           \/ accepts /\ charged' \in {charged, asked} /\ Unanswered /\ End(a)
           \/ ~accepts /\ UNCHANGED charged /\ Answered /\ End(a)
    /\ UNCHANGED <<order, payment, remote, authorised, expired, shop, claimed, hooks,
                   failures, acts>>

ReduceWrite(a) ==
    /\ pc[a] = "reduceWrite"
    /\ qty' = [l \in Lines |-> IF l \in target[a].edited THEN target[a].qty[l] ELSE qty[l]]
    /\ total' = Subtotal(target[a].qty) /\ payable' = target[a].due
    /\ End(a)
    /\ UNCHANGED <<pay, status, deleted, off, extras, amended, restated, payment, snapp, expired, shop,
                   claimed, hooks, bounds>>

--------------------------------------------------------------------------------
(* What the order's own endpoints do, one transaction each; none of them   *)
(* tells Snapp.                                                            *)
OrderAct ==
    /\ acts < MaxActs /\ acts' = acts + 1
    /\ UNCHANGED <<pay, payment, snapp, procs, expired, shop, claimed, hooks, lost, failures>>

(* deleteOrder, with the items of the order: any order that is not pending.*)
DeleteOrder ==
    /\ pay # "PENDING" /\ ~deleted
    /\ deleted' = TRUE
    /\ OrderAct
    /\ UNCHANGED <<status, amounts, restated>>

(* PATCH /orders/:code/status, at any time.                                *)
UpdateStatus(s) ==
    /\ ~deleted
    /\ s = "PAID" => pay = "PAID"
    /\ status' = s /\ restated' = TRUE
    /\ OrderAct
    /\ UNCHANGED <<deleted, amounts>>

(* recalc, for items q, discount o and costs x: the wallet's share stays.  *)
Share == Max({0, total - off + extras - payable})
Recalc(q, o, x) ==
    LET sum == Subtotal(q)
        discount == Min({o, sum})
        rest == sum - discount + x
    IN  /\ total' = sum /\ off' = discount /\ extras' = x
        /\ payable' = rest - Min({Share, rest})

Edit(q, o, x) ==
    /\ pay = "PAID" /\ ~deleted
    /\ qty' = q /\ Recalc(q, o, x) /\ amended' = TRUE
    /\ OrderAct
    /\ UNCHANGED <<status, deleted, restated>>

(* updateItem, and deleteItem of all items but the last.  A new price of   *)
(* an item changes the amounts as a new quantity does.                     *)
EditItem(l, n) ==
    /\ qty[l] > 0
    /\ n = 0 => \E k \in Lines \ {l} : qty[k] > 0
    /\ Edit([qty EXCEPT ![l] = n], off, extras)

(* updateOrder: a discount that is entered must fit.                       *)
UpdateOrder(o, x) ==
    /\ o = off \/ o <= Subtotal(qty)
    /\ Edit(qty, o, x)

--------------------------------------------------------------------------------
(* Mutant: the job passes over attempts that a callback has claimed.       *)
OverdueUnclaimed ==
    expired /\ ~deleted /\ status = "PENDING_PAYMENT" /\ pay = "PENDING" /\ gw = "NULL"

Overdue == expired /\ ~deleted /\ status = "PENDING_PAYMENT" /\ pay = "PENDING"

(* The sweep of the job; a later checkout of the customer does the same.   *)
Sweep ==
    /\ Overdue
    /\ Released
    /\ UNCHANGED <<gw, token, snapp, procs, expired, shop, claimed, hooks, bounds>>

Expire ==
    /\ ~expired
    /\ expired' = TRUE
    /\ UNCHANGED <<order, payment, snapp, procs, shop, claimed, hooks, bounds>>

(* A request dies where it stands.                                         *)
Fail(p) ==
    /\ pc[p] \notin {"idle", "done"}
    /\ failures < MaxFailures
    /\ failures' = failures + 1
    /\ End(p)
    /\ UNCHANGED <<order, payment, snapp, expired, shop, claimed, hooks, lost, acts>>

AtSnapp(p) == Verify(p) \/ VerifyStatus(p) \/ Settle(p) \/ SettleStatus(p)

CallbackStep(c) ==
    AskState(c) \/ AtSnapp(c) \/ Caught(c) \/ FailAttempt(c) \/ Finalize(c)

AdminStep(a) ==
    \/ ReconcileStatus(a) \/ SettleOnce(a) \/ AtSnapp(a) \/ FailAttempt(a) \/ Finalize(a)
    \/ ViewStatus(a) \/ WriteStatus(a)
    \/ RemoteCancel(a) \/ CancelWrite(a) \/ RemoteReduce(a) \/ ReduceWrite(a)

OrderStep ==
    \/ DeleteOrder \/ \E s \in Statuses : UpdateStatus(s)
    \/ \E l \in Lines, n \in 0..MaxQuantity : EditItem(l, n)
    \/ \E o \in NewOff \cup {off}, x \in NewExtras \cup {extras} : UpdateOrder(o, x)

Next ==
    \/ RequestToken \/ TokenRefused \/ StoreAuthority \/ CheckoutDies
    \/ Authorise \/ Revert \/ Sweep \/ Expire
    \/ OrderStep
    \/ \E c \in Callbacks : CallbackStep(c) \/ \E ok \in BOOLEAN : Post(c, ok)
    \/ \E a \in Admins :
        \/ AdminStep(a) \/ Reconcile(a) \/ View(a) \/ Cancel(a)
        \/ \E q \in [Lines -> 0..MaxQuantity] : Reduce(a, q)
    \/ \E p \in Procs : Fail(p)

(* Requests go on once started, time passes, and cron starts the sweep.    *)
Fairness ==
    /\ \A c \in Callbacks : WF_vars(CallbackStep(c))
    /\ \A a \in Admins : WF_vars(AdminStep(a))
    /\ WF_vars(Expire) /\ WF_vars(Sweep)

Spec == Init /\ [][Next]_vars
FairSpec == Spec /\ Fairness

--------------------------------------------------------------------------------
Quiet == \A p \in Procs : pc[p] \in {"idle", "done"}

(* Only money that Snapp has settled makes an order PAID, whatever answers *)
(* were lost and whoever else was reconciling (finalizeSnappPaid's callers).*)
PaidMeansSettled == pay = "PAID" => remote \in {"SETTLE", "CANCEL"}

(* Settled money is recorded when all requests are through: neither a lost *)
(* answer nor a release in between drops it.  A process that died may, and *)
(* an order that was deleted stays deleted.  Of three lost answers the     *)
(* first two can end a callback before it settles, and the third hides the *)
(* settlement of a reconciliation, which does not ask again.               *)
SettledIsRecorded ==
    Quiet /\ failures = 0 /\ lost <= 2 /\ remote \in {"SETTLE", "CANCEL"} => pay = "PAID" \/ deleted

(* At most one post of the browser goes on to call verify, which Snapp     *)
(* wants to be called once; and callbacks and reconciliations of one       *)
(* purchase, whatever their order, start the paid hooks once.              *)
HooksStartOnce == Cardinality(claimed) <= 1 /\ hooks <= 1

(* With every answer received, one administrator at work at Snapp and      *)
(* nobody dying, Snapp's own endpoints leave shop and Snapp with the same  *)
(* amount and the same cancellation.  The order's endpoints tell Snapp     *)
(* nothing: the amounts agree while nobody has edited the order there, and *)
(* a cancelled purchase's order is CANCELED until somebody sets its status *)
(* again (order-admin.service.ts:43: money is not refunded by itself).     *)
BooksAgree ==
    Quiet /\ failures = 0 /\ lost = 0 /\ pay = "PAID" =>
        /\ ~amended => /\ payable = charged
                       /\ payable = Subtotal(qty) + Extras - Off - FromWallet
        /\ remote = "CANCEL" => status = "CANCELED" \/ restated

(* Every order that is pending and waits for its payment is settled in the *)
(* end, also if the callback died after it claimed the attempt, unless an  *)
(* administrator gives it another status: the job then passes over it.     *)
AttemptEnds ==
    pay = "PENDING" /\ status = "PENDING_PAYMENT" ~> pay # "PENDING" \/ status # "PENDING_PAYMENT"

================================================================================
