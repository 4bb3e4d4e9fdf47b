--------------------------------- MODULE Wallet ---------------------------------
(***************************************************************************)
(* Customer wallets: top-ups through a gateway, withdrawals an             *)
(* administrator settles by hand, the part of an order paid from the       *)
(* wallet, and the rewards of orders and prize wheels.                     *)
(*                                                                         *)
(* A handler reads first and writes in a later transaction; the read and   *)
(* the transaction are one step each, and other handlers run in between.   *)
(* Every transaction that changes a balance adds a ledger entry; of the    *)
(* entries only their sum per reason is kept.  A wallet that does not      *)
(* exist yet is one with balance 0.                                        *)
(***************************************************************************)
EXTENDS Integers, FiniteSetsExt

CONSTANTS
    Users,
    TopUps, Withdrawals, Orders, EventPayments,   \* row identities
    Owner,        \* the user each of them belongs to
    Referrer,     \* Referrer[o]: owner of the referral code used by order o
    Zarinpal,     \* the top-ups made through Zarinpal; the others use Zibal
    Requests,     \* requests that may be in progress at the same time
    Admins,       \* those of them that may settle withdrawals
    Amounts,      \* amounts a customer may ask for
    Reward,       \* amount of one cashback, coupon, referral credit or prize
    MaxRequests,  \* bound: how many requests come in
    MaxFailures   \* bound: how many of them may die

Rows == TopUps \cup Withdrawals \cup Orders \cup EventPayments
ASSUME RowsAssumption ==
    /\ Owner \in [Rows -> Users]
    /\ Referrer \in [Orders -> Users]
    /\ Zarinpal \subseteq TopUps
    /\ Admins \subseteq Requests
    /\ IsFiniteSet(Rows) /\ IsFiniteSet(Requests)
ASSUME AmountsAssumption ==
    /\ Amounts \subseteq Nat \ {0}
    /\ Reward \in Nat \ {0}
    /\ MaxRequests \in Nat /\ MaxFailures \in Nat

VARIABLES
    balance,      \* Wallet.balance
    ledger,       \* sum of CreditLedgerEntry.amount per wallet and reason
    lapsed,       \* cashback whose expiresAt has passed
    topUp,        \* WalletTopUp, with what the gateway knows of it
    withdrawal,   \* WalletWithdrawalRequest
    order,        \* payment status of the order and its share from the wallet
    redemptions,  \* IncentiveRedemption: number of rows per order and reason
    due,          \* orders whose referral hook has still to run
    credited,     \* orders whose ReferralRedemption is CREDITED
    spun,         \* EventSpin: the prize of an event payment
    pc, req,      \* where request t stands and what it is working on
    received,     \* how many requests have come in
    failures      \* how many of them have died

wallets == <<balance, ledger>>
tables == <<lapsed, topUp, withdrawal, order, redemptions, due, credited, spun>>
procs == <<pc, req>>
bounds == <<received, failures>>
vars == <<wallets, tables, procs, bounds>>

Rewards == {"CASHBACK", "COUPON"}
Reasons == Rewards \cup {"TOPUP", "GIFT", "USED", "WITHDRAWAL_REQUEST", "ADJUSTMENT"}
Prizes == {"CASHBACK", "GIFT", "other"}     \* "other": a discount code, free shipping
PCs == {"idle", "askGateway", "verify", "credit", "withdraw", "reject", "payOut",
        "placeOrder", "reward", "referral", "apply", "spin"}
NoReq == [id |-> "none", amount |-> 0, reason |-> "none"]

TypeOK ==
    /\ balance \in [Users -> Int]
    /\ ledger \in [Users -> [Reasons -> Int]]
    /\ lapsed \in [Users -> Nat]
    /\ topUp \in [TopUps -> [status : {"absent", "INITIATED", "PAID", "FAILED"}, amount : Nat,
                             gateway : {"none", "sent", "paid", "verified", "waived"}]]
    /\ withdrawal \in [Withdrawals -> [status : {"absent", "PENDING", "PAID", "REJECTED"},
                                       amount : Nat]]
    /\ order \in [Orders -> [status : {"absent", "PENDING", "PAID", "FAILED"}, wallet : Nat]]
    /\ redemptions \in [Orders -> [Rewards -> 0..Cardinality(Requests)]]
    /\ due \subseteq Orders
    /\ credited \subseteq Orders
    /\ spun \in [EventPayments -> Prizes \cup {"none"}]
    /\ pc \in [Requests -> PCs]
    /\ req \in [Requests -> [id : Rows \cup Users \cup {"none"}, amount : Nat,
                             reason : Reasons \cup Prizes \cup {"none"}]]
    /\ received \in 0..MaxRequests
    /\ failures \in 0..MaxFailures

Init ==
    /\ balance = [u \in Users |-> 0]
    /\ ledger = [u \in Users |-> [r \in Reasons |-> 0]]
    /\ lapsed = [u \in Users |-> 0]
    /\ topUp = [x \in TopUps |-> [status |-> "absent", amount |-> 0, gateway |-> "none"]]
    /\ withdrawal = [w \in Withdrawals |-> [status |-> "absent", amount |-> 0]]
    /\ order = [o \in Orders |-> [status |-> "absent", wallet |-> 0]]
    /\ redemptions = [o \in Orders |-> [r \in Rewards |-> 0]]
    /\ due = {}
    /\ credited = {}
    /\ spun = [e \in EventPayments |-> "none"]
    /\ pc = [t \in Requests |-> "idle"]
    /\ req = [t \in Requests |-> NoReq]
    /\ received = 0
    /\ failures = 0

--------------------------------------------------------------------------------

Begin(t, label, id, amount, reason) ==
    /\ pc[t] = "idle"
    /\ received < MaxRequests
    /\ received' = received + 1
    /\ pc' = [pc EXCEPT ![t] = label]
    /\ req' = [req EXCEPT ![t] = [id |-> id, amount |-> amount, reason |-> reason]]
    /\ UNCHANGED failures

Finish(t) ==
    /\ pc' = [pc EXCEPT ![t] = "idle"]
    /\ req' = [req EXCEPT ![t] = NoReq]

(* A transaction commits: the wallet moves and an entry explains it.       *)
Post(u, amount, reason) ==
    /\ balance' = [balance EXCEPT ![u] = @ + amount]
    /\ ledger' = [ledger EXCEPT ![u][reason] = @ + amount]

Working(label, id) == \E t \in Requests : pc[t] = label /\ req[t].id = id

--------------------------------------------------------------------------------
(* topUp.                                                                  *)

TopUp(t, x, amount) ==
    /\ topUp[x].status = "absent"
    /\ Begin(t, "askGateway", x, amount, "TOPUP")
    /\ topUp' = [topUp EXCEPT ![x].status = "INITIATED", ![x].amount = amount]
    /\ UNCHANGED <<wallets, lapsed, withdrawal, order, redemptions, due, credited, spun>>

(* The gateway gives an authority; once it is stored the customer may pay. *)
TopUpSent(t) ==
    /\ pc[t] = "askGateway"
    /\ topUp' = [topUp EXCEPT ![req[t].id].gateway = "sent"]
    /\ Finish(t)
    /\ UNCHANGED <<wallets, lapsed, withdrawal, order, redemptions, due, credited, spun, bounds>>

TopUpRefused(t) ==
    /\ pc[t] = "askGateway"
    /\ topUp' = [topUp EXCEPT ![req[t].id].status = "FAILED"]
    /\ Finish(t)
    /\ UNCHANGED <<wallets, lapsed, withdrawal, order, redemptions, due, credited, spun, bounds>>

(* Mock mode: paid at once.                                                *)
TopUpMocked(t) ==
    LET x == req[t].id IN
    /\ pc[t] = "askGateway"
    /\ topUp' = [topUp EXCEPT ![x].status = "PAID", ![x].gateway = "waived"]
    /\ Post(Owner[x], topUp[x].amount, "TOPUP")
    /\ Finish(t)
    /\ UNCHANGED <<lapsed, withdrawal, order, redemptions, due, credited, spun, bounds>>

CustomerPays(x) ==
    /\ topUp[x].gateway = "sent"
    /\ topUp' = [topUp EXCEPT ![x].gateway = "paid"]
    /\ UNCHANGED <<wallets, lapsed, withdrawal, order, redemptions, due, credited, spun,
                   procs, bounds>>

--------------------------------------------------------------------------------
(* verifyTopUpCallback: one transaction under the lock wallet-topup:x,     *)
(* in which the gateway is asked.                                          *)

InCallback(x) == Working("verify", x) \/ Working("credit", x)

(* Mutant: without the lock.                                               *)
CallbackUnlocked(t, x) ==
    /\ topUp[x].gateway \in {"sent", "paid", "verified"}
    /\ topUp[x].status # "PAID"
    /\ Begin(t, "verify", x, topUp[x].amount, "TOPUP")
    /\ UNCHANGED <<wallets, tables>>

(* A callback may come at any time and again and again; one for a top-up   *)
(* that is PAID does nothing, one for a FAILED top-up is taken seriously.  *)
CallbackBegin(t, x) ==
    /\ topUp[x].gateway \in {"sent", "paid", "verified"}
    /\ ~InCallback(x)
    /\ topUp[x].status # "PAID"
    /\ Begin(t, "verify", x, topUp[x].amount, "TOPUP")
    /\ UNCHANGED <<wallets, tables>>

(* Zarinpal confirms a payment again that it has confirmed before; Zibal's *)
(* answer to a repeated question is not the one the code accepts.          *)
VerifyTopUp(t) ==
    LET x == req[t].id IN
    /\ pc[t] = "verify"
    /\ \/ topUp[x].gateway = "paid"
       \/ topUp[x].gateway = "verified" /\ x \in Zarinpal
    /\ topUp' = [topUp EXCEPT ![x].gateway = "verified"]
    /\ pc' = [pc EXCEPT ![t] = "credit"]
    /\ UNCHANGED <<wallets, lapsed, withdrawal, order, redemptions, due, credited, spun,
                   req, bounds>>

(* The request is flagged as failed, or the question to the gateway fails, *)
(* perhaps after the gateway has confirmed and only the answer was lost.   *)
VerifyFails(t) ==
    LET x == req[t].id IN
    /\ pc[t] = "verify"
    /\ \E known \in {topUp[x].gateway} \cup
                     (IF topUp[x].gateway = "paid" THEN {"verified"} ELSE {}) :
           topUp' = [topUp EXCEPT ![x].status = "FAILED", ![x].gateway = known]
    /\ Finish(t)
    /\ UNCHANGED <<wallets, lapsed, withdrawal, order, redemptions, due, credited, spun, bounds>>

CreditTopUp(t) ==
    LET x == req[t].id IN
    /\ pc[t] = "credit"
    /\ topUp' = [topUp EXCEPT ![x].status = "PAID"]
    /\ Post(Owner[x], req[t].amount, "TOPUP")
    /\ Finish(t)
    /\ UNCHANGED <<lapsed, withdrawal, order, redemptions, due, credited, spun, bounds>>

--------------------------------------------------------------------------------
(* requestWithdrawal and resolveWithdrawal.                                *)

RequestWithdrawal(t, w, amount) ==
    /\ withdrawal[w].status = "absent" /\ ~Working("withdraw", w)
    /\ balance[Owner[w]] >= amount
    /\ Begin(t, "withdraw", w, amount, "WITHDRAWAL_REQUEST")
    /\ UNCHANGED <<wallets, tables>>

(* Mutant: the balance read before is not checked again.                   *)
HoldUnguarded(t) ==
    LET w == req[t].id
        amount == req[t].amount
    IN
    /\ pc[t] = "withdraw"
    /\ Post(Owner[w], -amount, "WITHDRAWAL_REQUEST")
    /\ withdrawal' = [withdrawal EXCEPT ![w] = [status |-> "PENDING", amount |-> amount]]
    /\ Finish(t)
    /\ UNCHANGED <<lapsed, topUp, order, redemptions, due, credited, spun, bounds>>

(* The decrement is guarded by balance: { gte: amount }.                   *)
HoldWithdrawal(t) ==
    LET w == req[t].id
        amount == req[t].amount
    IN
    /\ pc[t] = "withdraw"
    /\ IF balance[Owner[w]] >= amount
       THEN /\ Post(Owner[w], -amount, "WITHDRAWAL_REQUEST")
            /\ withdrawal' = [withdrawal EXCEPT ![w] = [status |-> "PENDING", amount |-> amount]]
       ELSE UNCHANGED <<wallets, withdrawal>>
    /\ Finish(t)
    /\ UNCHANGED <<lapsed, topUp, order, redemptions, due, credited, spun, bounds>>

(* The administrator's request finds the withdrawal PENDING ...            *)
ResolveWithdrawal(t, w) ==
    /\ t \in Admins
    /\ withdrawal[w].status = "PENDING"
    /\ \E action \in {"reject", "payOut"} :
           Begin(t, action, w, withdrawal[w].amount, "ADJUSTMENT")
    /\ UNCHANGED <<wallets, tables>>

(* ... and then writes without looking again.                              *)
RejectWithdrawal(t) ==
    LET w == req[t].id IN
    /\ pc[t] = "reject"
    /\ Post(Owner[w], req[t].amount, "ADJUSTMENT")
    /\ withdrawal' = [withdrawal EXCEPT ![w].status = "REJECTED"]
    /\ Finish(t)
    /\ UNCHANGED <<lapsed, topUp, order, redemptions, due, credited, spun, bounds>>

PayOutWithdrawal(t) ==
    /\ pc[t] = "payOut"
    /\ withdrawal' = [withdrawal EXCEPT ![req[t].id].status = "PAID"]
    /\ Finish(t)
    /\ UNCHANGED <<wallets, lapsed, topUp, order, redemptions, due, credited, spun, bounds>>

--------------------------------------------------------------------------------
(* The wallet's share of an order.                                         *)

CheckoutOf(u) == \E t \in Requests : pc[t] = "placeOrder" /\ Owner[req[t].id] = u

(* applyToCheckout: read under the lock checkout:userId, outside of the    *)
(* transaction that will debit.                                            *)
ApplyToCheckout(t, o, requested) ==
    /\ order[o].status = "absent"
    /\ ~CheckoutOf(Owner[o])
    /\ Begin(t, "placeOrder", o, Max({0, Min({requested, balance[Owner[o]]})}), "USED")
    /\ UNCHANGED <<wallets, tables>>

(* debitForCheckout: the order is placed only if the wallet still covers   *)
(* the amount.                                                             *)
PlaceOrder(t) ==
    LET o == req[t].id
        amount == req[t].amount
    IN
    /\ pc[t] = "placeOrder"
    /\ IF amount = 0 \/ balance[Owner[o]] >= amount
       THEN /\ Post(Owner[o], -amount, "USED")
            /\ order' = [order EXCEPT ![o] = [status |-> "PENDING", wallet |-> amount]]
       ELSE UNCHANGED <<wallets, order>>
    /\ Finish(t)
    /\ UNCHANGED <<lapsed, topUp, withdrawal, redemptions, due, credited, spun, bounds>>

(* The order is settled as OrderSettlement describes it.  A release gives  *)
(* nothing back to the wallet; the hooks are due once the order is PAID.   *)
SettleOrder(o, status) ==
    /\ \/ order[o].status = "PENDING" /\ status \in {"PAID", "FAILED"}
       \/ order[o].status = "FAILED" /\ status = "PAID"
    /\ order' = [order EXCEPT ![o].status = status]
    /\ due' = IF status = "PAID" THEN due \cup {o} ELSE due
    /\ UNCHANGED <<wallets, lapsed, topUp, withdrawal, redemptions, credited, spun, procs, bounds>>

--------------------------------------------------------------------------------
(* Rewards.                                                                *)

(* Mutant: an order may be rewarded again.                                 *)
RewardAgain(t, o, reason) ==
    /\ order[o].status = "PAID"
    /\ Begin(t, "reward", o, Reward, reason)
    /\ UNCHANGED <<wallets, tables>>

(* CashbackGrantService.grantForOrder and CouponTriggerService.            *)
(* onOrderCompleted, by the hook or by an administrator.                   *)
RewardBegin(t, o, reason) ==
    /\ order[o].status = "PAID"
    /\ redemptions[o][reason] = 0
    /\ Begin(t, "reward", o, Reward, reason)
    /\ UNCHANGED <<wallets, tables>>

GrantReward(t) ==
    LET o == req[t].id
        reason == req[t].reason
    IN
    /\ pc[t] = "reward"
    /\ Post(Owner[o], req[t].amount, reason)
    /\ redemptions' = [redemptions EXCEPT ![o][reason] = @ + 1]
    /\ Finish(t)
    /\ UNCHANGED <<lapsed, topUp, withdrawal, order, due, credited, spun, bounds>>

(* ReferralCashbackService.grantForOrder: by the hook only.                *)
ReferralBegin(t, o) ==
    /\ o \in due /\ o \notin credited
    /\ due' = due \ {o}
    /\ Begin(t, "referral", o, Reward, "CASHBACK")
    /\ UNCHANGED <<wallets, lapsed, topUp, withdrawal, order, redemptions, credited, spun>>

CreditReferrer(t) ==
    LET o == req[t].id IN
    /\ pc[t] = "referral"
    /\ Post(Referrer[o], req[t].amount, "CASHBACK")
    /\ credited' = credited \cup {o}
    /\ Finish(t)
    /\ UNCHANGED <<lapsed, topUp, withdrawal, order, redemptions, due, spun, bounds>>

(* EventSpinService.spin: the prize is drawn before the transaction.       *)
SpinBegin(t, e) ==
    /\ spun[e] = "none"
    /\ \E prize \in Prizes : Begin(t, "spin", e, IF prize = "other" THEN 0 ELSE Reward, prize)
    /\ UNCHANGED <<wallets, tables>>

(* Mutant: a second spin is not noticed.                                   *)
SpinAgain(t) ==
    LET e == req[t].id IN
    /\ pc[t] = "spin"
    /\ spun' = [spun EXCEPT ![e] = req[t].reason]
    /\ IF req[t].amount = 0 THEN UNCHANGED wallets
                            ELSE Post(Owner[e], req[t].amount, req[t].reason)
    /\ Finish(t)
    /\ UNCHANGED <<lapsed, topUp, withdrawal, order, redemptions, due, credited, bounds>>

(* A second spin violates the unique key and is rolled back altogether.    *)
Spin(t) ==
    LET e == req[t].id
        prize == req[t].reason
    IN
    /\ pc[t] = "spin"
    /\ IF spun[e] = "none"
       THEN /\ spun' = [spun EXCEPT ![e] = prize]
            /\ IF prize = "other" THEN UNCHANGED wallets
                                  ELSE Post(Owner[e], req[t].amount, prize)
       ELSE UNCHANGED <<wallets, spun>>
    /\ Finish(t)
    /\ UNCHANGED <<lapsed, topUp, withdrawal, order, redemptions, due, credited, bounds>>

--------------------------------------------------------------------------------
(* CashbackApplyService.apply.                                             *)

(* computeAvailableCashback: cashback that has not lapsed, less everything *)
(* that was ever USED, whatever it was used for.                           *)
AvailableCashback(u) ==
    Max({0, ledger[u]["CASHBACK"] - lapsed[u] + ledger[u]["USED"]})

ApplyBegin(t, u, requested) ==
    LET amount == Min({requested, AvailableCashback(u)}) IN
    /\ amount > 0
    /\ Begin(t, "apply", u, amount, "USED")
    /\ UNCHANGED <<wallets, tables>>

(* The decrement is not guarded.                                           *)
Apply(t) ==
    /\ pc[t] = "apply"
    /\ Post(req[t].id, -req[t].amount, "USED")
    /\ Finish(t)
    /\ UNCHANGED <<tables, bounds>>

LapseCashback(u) ==
    /\ lapsed[u] + Reward <= ledger[u]["CASHBACK"]
    /\ lapsed' = [lapsed EXCEPT ![u] = @ + Reward]
    /\ UNCHANGED <<wallets, topUp, withdrawal, order, redemptions, due, credited, spun,
                   procs, bounds>>

(* A process dies or its transaction is rolled back.                       *)
Fail(t) ==
    /\ pc[t] # "idle"
    /\ failures < MaxFailures
    /\ failures' = failures + 1
    /\ Finish(t)
    /\ UNCHANGED <<wallets, tables, received>>

--------------------------------------------------------------------------------

Arrive(t) ==
    \/ \E x \in TopUps : CallbackBegin(t, x) \/ \E a \in Amounts : TopUp(t, x, a)
    \/ \E w \in Withdrawals :
           ResolveWithdrawal(t, w) \/ \E a \in Amounts : RequestWithdrawal(t, w, a)
    \/ \E o \in Orders, a \in Amounts \cup {0} : ApplyToCheckout(t, o, a)
    \/ \E o \in Orders : ReferralBegin(t, o) \/ \E r \in Rewards : RewardBegin(t, o, r)
    \/ \E e \in EventPayments : SpinBegin(t, e)
    \/ \E u \in Users, a \in Amounts : ApplyBegin(t, u, a)

Handle(t) ==
    \/ TopUpSent(t) \/ TopUpRefused(t) \/ TopUpMocked(t)
    \/ VerifyTopUp(t) \/ VerifyFails(t) \/ CreditTopUp(t)
    \/ HoldWithdrawal(t) \/ RejectWithdrawal(t) \/ PayOutWithdrawal(t)
    \/ PlaceOrder(t) \/ GrantReward(t) \/ CreditReferrer(t) \/ Spin(t) \/ Apply(t)

Next ==
    \/ \E t \in Requests : Arrive(t) \/ Handle(t) \/ Fail(t)
    \/ \E x \in TopUps : CustomerPays(x)
    \/ \E o \in Orders, s \in {"PAID", "FAILED"} : SettleOrder(o, s)
    \/ \E u \in Users : LapseCashback(u)

Spec == Init /\ [][Next]_vars

--------------------------------------------------------------------------------
(* Properties.                                                             *)

(* A sum, as the size of the set of all units that the counts stand for.   *)
UnitsIn(count) == UNION {{x} \X (1..count[x]) : x \in DOMAIN count}
Total(count) == Cardinality(UnitsIn(count))

AmountOf(rows, ids, u, statuses) ==
    Total([i \in ids |-> IF Owner[i] = u /\ rows[i].status \in statuses THEN rows[i].amount ELSE 0])
RewardsOf(u) ==
    Reward * ( Total([o \in Orders |-> IF Owner[o] = u
                                       THEN redemptions[o]["CASHBACK"] + redemptions[o]["COUPON"] ELSE 0])
             + Cardinality({o \in credited : Referrer[o] = u})
             + Cardinality({e \in EventPayments : Owner[e] = u /\ spun[e] \in {"CASHBACK", "GIFT"}}) )
SpentBy(u) == -ledger[u]["USED"]

(* A wallet is explained by the other tables: its top-ups that are PAID,   *)
(* the rewards on record, less what was used and the withdrawals that are  *)
(* not rejected.  Repeated and overlapping callbacks, rewards and spins    *)
(* credit nothing that has no row of its own, and a request that dies      *)
(* leaves nothing half done.  It needs one administrator at a time.        *)
BalanceExplained ==
    \A u \in Users :
        balance[u] = AmountOf(topUp, TopUps, u, {"PAID"}) + RewardsOf(u) - SpentBy(u)
                     - AmountOf(withdrawal, Withdrawals, u, {"PENDING", "PAID"})

(* Withdrawals and checkouts decide on a balance they have read before;    *)
(* still neither of them ever takes a wallet below zero.                   *)
DebitsCovered ==
    [][ \A u \in Users :
            balance'[u] < balance[u] /\ balance'[u] < 0
                => \E t \in Requests : pc[t] = "apply" /\ pc'[t] = "idle" ]_vars

(* A top-up is PAID only with the gateway's confirmation, and no callback  *)
(* that comes late, fails or is repeated takes that back.                  *)
TopUpStaysPaid ==
    [][ \A x \in TopUps :
            /\ topUp[x].status = "PAID" => topUp'[x].status = "PAID"
            /\ topUp'[x].status = "PAID" => topUp'[x].gateway \in {"verified", "waived"} ]_vars

(* resolveWithdrawal rejects a request that was already handled: a wallet  *)
(* gets back exactly the amounts of its rejected withdrawals.              *)
WithdrawalHandledOnce ==
    \A u \in Users :
        ledger[u]["ADJUSTMENT"] = AmountOf(withdrawal, Withdrawals, u, {"REJECTED"})
================================================================================
