# Verification of divine-style-service

TLA+ models of a NestJS, Prisma and PostgreSQL shop backend, with the TLC runs
that check them and the theorems TLAPS proves about them. Source paths below are
relative to `src/src/modules/`.

## 1. Inventory

| Component | State | Operations | Interacts with |
|---|---|---|---|
| Order settlement (`order/order-reservation.service.ts`, `order/stock-reservation-sweeper.service.ts`, `payment/`, the checkout of `basket.controller.ts`) | `Order`, `PaymentTransaction`, stock, discount uses | checkout, gateway request, Zarinpal and Zibal callbacks, release, late confirmation, sweep | stock, basket, wallet, rewards, gateway |
| Basket (`catalog/presentation/controllers/basket.controller.ts`) | `TempBasket`, `TempBasketItem`, stock | add, update, remove, preview, checkout, restore | sweeper, settlement, discounts |
| Wallet (`wallet/`) | balance, wallet transactions, withdrawal requests | top-up and its callback, withdrawal and its resolution, debit at checkout, rewards | checkout, gateway, rewards |
| SnappPay (`payment/snapp-pay*`, `payment.controller.ts` 807-1129) | attempt state of a payment, and the purchase at Snapp | claim, verify, settle, reconcile, look up, reduce, cancel | settlement, sweeper, remote service |
| Discount codes (`discount/`, `loyalty/discount-incentive/`, `referral/`, the pricing in `basket.controller.ts`) | three tables of codes, their uses | price, preview, use at checkout and at the till, create, change, remove | checkout, settlement, segments |
| Rewards (`loyalty/cashback-incentive/`, `loyalty/coupon-incentive/`, `loyalty/incentive-reports/`) | incentives, redemptions, ledger | grant, issue, use cashback, create, change, report | paid hooks, segments, wallet |
| Segments (`loyalty/segmentation*`, `loyalty/bi/`, `loyalty/segments/`) | membership rows, two snapshots a night | classify, evaluate churn and loyalty | orders |
| Back office (`order/order-admin.service.ts`, `offline-sale/`) | orders, sales, stock | edit and delete an order, record, edit and remove a sale | stock, settlement, reports |
| Reports (`reports/`) | none | summaries by range, day, month, channel and product | back office |
| Events (`event/`) | event payments, their sales, spins | pay, verify, sell, assign items, spin | gateway, offline sales, wallet |
| Customer groups, authentication, catalogue, content, direct messages, product feed, shared clients | rows | CRUD, codes and tokens, read-only queries | - |

Where it gets hard:

- Everything that settles an order runs concurrently and at READ COMMITTED. The
  code relies on guarded `updateMany` statements (`where: paymentStatus:
  'PENDING'`), on their row locks, and on advisory locks of which not every
  path takes every one.
- A payment lives in two places. The gateway can confirm before, while or after
  the order is released, several times, or its answer can be lost. Snapp has two
  phases, verify and settle, and can be asked to cancel and to reduce.
- Checkout is a transaction, then a remote call, then another write; a process
  may die between any two.
- A hold has a deadline. The sweeper, the owner and the checkout each act on a
  row they read earlier.
- Stock, discount uses and wallet balances are counters that several tables
  explain only together, and administrators edit each of those tables.
- A reward is looked for and then written, a use is counted and then added, a row
  is loaded and then updated: each pair is only as safe as the lock around it.
- Prices, discounts and profits are computed twice or more, by code that was
  written twice: preview and checkout, two report controllers, two evaluations.

What correctness means, component by component: the two status rows of an order
agree; money the gateway confirmed ends as a PAID order; nothing is PAID without
money; stock and discount uses are given back exactly once; the paid hooks run at
most once; no order and no basket row holds stock for ever; a basket is ordered
once; a sweep gives back what the row holds; a wallet balance is explained by the
rows that moved it and a guarded debit never overdraws it. Snapp and the shop agree
on amount and cancellation after Snapp's own endpoints, and every attempt that waits
for its payment ends. The preview shows what checkout
charges, and a code is not used beyond its limit. An order earns each reward once.
The amounts of an order are those of its items after every edit. Every report shows
the same figures. A payment at an event is sold once, and its items leave the shelf
once.

`PROJECT.json` lists every component, the code behind each definition, and the
hazards at the line where they bite.

## 2. Modules

| Module | Role |
|---|---|
| `SettlementPromise` | Abstract specification: an order's payment status moves absent, PENDING, then PAID or FAILED, and from FAILED to PAID; PAID needs money that is in. |
| `OrderSettlement` | Core: the transactions that settle orders, statement by statement. |
| `OrderSettlement_proofs` | Its inductive invariant, that its two status rows agree, that it implements `SettlementPromise`, runs the paid hooks at most once, and loses neither stock nor uses. |
| `BasketReservation` | Stock holds: basket requests, checkout, sweep, and what settlement does to shelf and basket. |
| `BasketReservation_proofs` | Its inductive invariants and theorems. |
| `Wallet` | Balances: top-ups, withdrawals, the wallet's share of orders, rewards, spins. |
| `Wallet_proofs` | Its invariants and theorems. |
| `SnappPay` | One purchase in instalments, between the shop and Snapp. |
| `SnappPay_proofs` | Its invariants and theorems. |
| `DiscountCodes` | What a customer pays less and by which code; preview, checkout, till. |
| `DiscountCodes_proofs` | Its invariants and theorems. |
| `Segments` | The nightly segmentation and its two evaluations. |
| `Rewards` | Extends `Segments`: cashback and coupons earned by orders, use of cashback, the incentive report. |
| `Rewards_proofs` | Its invariants and theorems. |
| `BackOffice` | Administrators' edits of orders and of sales in the shop, beside settlement. |
| `Reports` | Extends `BackOffice`: every figure of the two report controllers. |
| `BackOffice_proofs` | Sums over finite sets; the invariants of `BackOffice` and what they mean for `Reports`. |
| `EventSales` | Payments at an event's booth, their sales and items. |
| `EventSales_proofs` | Its invariants and theorems. |
| `MCOrderSettlement`, `MCBasketReservation`, `MCWallet`, `MCDiscountCodes`, `MCRewards`, `MCBackOffice`, `MCEventSales` | Instances for TLC. |

### OrderSettlement

A process is an HTTP request or a run of the sweep job; `pc` is the statement it
is about to execute, `kind` what it is running, `cur` its order. Uncommitted
writes are private: `newPay[t][o]` and `newTx[t][o]` are what transaction `t` has
written to the order row and the payment row of `o`, which are also the row locks
it holds (`OrderRowFree`, `TxRowFree`). A guarded update looks at the committed
row, waits while somebody else has it locked, and touches nothing if the guard
does not match; that is `updateMany` at READ COMMITTED, which re-evaluates its
condition when the lock is released. `CommitSettlement` publishes the writes.

The statements on stock and discount counters follow the row updates of the same
transaction, and are increments and guarded decrements; they take effect with
the commit. `HoldsSettleLock` and `InCheckout` are the advisory locks
`order-settle:<id>` and `checkout:<userId>`, held by exactly the transactions that
take them in the code.

| Actions | Code |
|---|---|
| `CheckoutBegin`, `ReleaseNextStale`, `PlaceOrder` | the checkout transaction and its cleanup of stale orders |
| `GatewayAccepts`, `GatewayRefuses`, `NothingDue`, `StoreAuthority` | what follows it, outside the transaction |
| `ReleaseOrder`, `ReleaseTx` | `releaseOrder`, in the transaction of whoever calls it |
| `CallbackBegin`, `VerifySucceeds`, `VerifyFails`, `ConfirmTx`, `ConfirmOrder`, `Revive`, `CommitRequest`, `RunHooks` | `zarinpalCallback` and `zibalCallback`; `Revive` is `confirmPaidAfterRelease` with the updates after it |
| `SweepBegin`, `SweepNext`, `SweepCommit`, `SweepEnd` | `sweepExpiredPendingOrders` |
| `UpdateStatus` | an administrator setting the order status |
| `DeadlockVictim`, `Fail` | PostgreSQL breaking a wait cycle; a process dying, a transaction timing out |
| `Expire`, `CustomerPays`, `ReserveElsewhere` | time, the customer on the gateway's page, other baskets |

Abstractions: one contested variant, one unit per order; amounts, addresses and
messages left out; the fulfilment statuses after PAID are one value, `HANDLED`.
The two providers differ only in what a repeated verification answers.
`holding`, `hooks` and `answered` are ghosts, read by properties only.

### BasketReservation

The handlers read first and write in a later transaction, so each read is a step
(`AddBegin`, `EditBegin`, `ReadItem`, `CheckoutRead`, `SweepList`) and the writes
of one handler are one step. There is one variant, so a basket has at most one
row, `row[b]`, which survives as a soft-deleted row. The steps of settlement
appear with what they do to shelf and basket (`Release`, `GatewayRefuses`,
`PaymentFails`, `Pay`, `PayLate`); the interleaving inside them is
`OrderSettlement`'s subject. `unbacked` is a ghost that counts the units held
without having left the shelf. `Serial` restricts a run to requests that do not
overlap.

### Wallet

Each handler is a read and a transaction (`RequestWithdrawal` and
`HoldWithdrawal`, `ResolveWithdrawal` and `RejectWithdrawal`, `ApplyToCheckout` and
`PlaceOrder`, `RewardBegin` and `GrantReward`, `SpinBegin` and `Spin`, `ApplyBegin`
and `Apply`), two steps between which others run. The top-up callback is longer,
because the gateway is asked inside its transaction: `CallbackBegin`,
`VerifyTopUp`, `CreditTopUp`. `Post` is the pair of statements with which every
transaction moves a wallet: the balance and a ledger entry. Ledger entries are
kept as sums per reason, which is all the code reads of them. Settlement appears
as `SettleOrder`: it gives nothing back to the wallet, and makes the hooks due
when the order is PAID. Which rewards an order qualifies for is left open, and all
rewards have one amount.

### SnappPay

Every call to Snapp is outside a transaction and is a step of its own: it takes
effect at Snapp (`remote`, `charged`), and its answer arrives or is lost
(`MaxLost`). `CallbackStep` is the machine of `verifyAndSettle`: verify, on
no answer ask for the status, settle, ask again, at most as many rounds as the code
makes; then `Finalize` or `FailAttempt`, each one transaction. `Post` is the
claim, a guarded update of `gatewayStatus` from null. Administrators read the row,
ask Snapp and write back what they saw (`Reconcile`, `View`, `Cancel`, `Reduce`), so
a look at the live status writes the very column a callback claims. `AmountAsked`
and `Reduction` are the arithmetic of the two payload builders.

`OrderStep` is what the order's own endpoints do to a purchase: set its status
(`UpdateStatus`), change an item or an amount (`EditItem` and `UpdateOrder`, which
recompute the order as `recalc` does: `Recalc`), delete it. Each is one transaction, and
none of them tells Snapp. Two ghosts remember it: `amended`, that items or amounts were
edited there, and `restated`, that the status was set there and Snapp's cancel did not
write it since. `BooksAgree` asks for equal amounts while nobody has edited the order, and
for a cancelled purchase's order to be CANCELED until its status is set again. `AttemptEnds`
speaks of the orders the sweeper selects, those of status PENDING_PAYMENT.

### DiscountCodes

`Priced` is the pricing of `checkout`: a shop code, else a club code, else a
referral code, else a welcome tier. `Preview` is that of `checkoutPreview`, written
apart. A checkout is two steps under the lock of its user, a redemption at the till
two under a lock named by the code. `Load...` and `Store...` are the halves of an
update, which merges the body with the row it read; a club code's update always writes
the code, the one it read if the body names none. `BodiesAssumption` says which fields the
bodies have and of which type, as the DTOs do; what the services check of their values is
in the actions. No two rows of a table have one code (`Unique`): each write looks for
another row with it, and so do the tables a run begins with. Any number of administrators
may edit; the run has one. A code's text is a model value, so trimming and upper case are
left out.
`Pay`, `Release` and `Revive` are what settlement does to `usedCount`.

### Segments and Rewards

`RunSegmentation`, `EvaluateChurn` and `EvaluateLoyalty` are the three awaits of the
night's job. The segmentation writes all rows in one `createMany`; the two evaluations
read the latest rows later, when orders may have changed but rows have not. A grant
finds at its start which incentives an order earns (`GrantForOrder`,
`OnOrderCompleted`, `OnReferralConfirmed`), then for each one looks for a redemption
(`Consider`) and writes one in a transaction (`GrantCashback`, `IssueCoupon`). The
order of the incentives is the database's, so `Consider` may take any; one it skips
needs no step. A redemption and its ledger entry are one row. Payable amounts do not
change here (they do in `BackOffice`), and the customers and the wallets exist.
`Overlap = FALSE` lets no two grants of one order overlap. The code has no lock and
no unique constraint against that: with `TRUE`, two calls that both look before
either writes reward an order twice, and two uses of cashback spend it twice.

### BackOffice and Reports

An edit of an order is one transaction of four statements with row locks: `Begin`
(the load), `Change` (stock and item), `Recalc` (the second read of the items),
`CommitEdit`. Deleting an order and editing or removing a sale are a load and a
write. `Recalculated` is `recalc`: discount, shipping and packaging stay, the wallet's
share is what is missing. An edit returns `Delta` to the shelf and keeps `left` off it, as
the administrator asked. `Serial` lets one operation of the administrators run at a
time: overlapping edits of one item lose one of the two, in the order's total as in
the stock (the load is not locked), and so do overlapping removals of a sale. It does not
restrict payments, releases, revivals and customers, which come between the steps of an
operation as they do in the code. One of these loses something: `deleteOrder` decides what
to give back on the order it loaded (`order-admin.service.ts` lines 277-315), so an order
that was FAILED then and is revived by a late confirmation before it writes is deleted with
its unit and its use still taken. The ghost `astray` counts these orders, and
`StockBalanced` and `UsesMatchOrders` say that nothing else is lost. A revival is one step
here; its statements are told apart in `OrderSettlement`.
`Changes` are the bodies of `updateOrder`, each with some of the three amounts; only an
entered discount is refused when it exceeds the items, one that was there is cut to them.
`SumOver` is defined by counting units, so that sums can be proved about. Time
goes in half hours, so that the three and a half hours between Tehran and UTC are
exact. `RowDay` is what `AT TIME ZONE` does to a column without a zone when the
session's zone is UTC: it subtracts the offset where it should add it.
The reports by day therefore place rows paid near midnight on the wrong day, and those before the first midnight
of a month on none: `ReportsAgree` asks the days of a month only for no more than the
month.

### EventSales

A callback is one transaction under an advisory lock with the gateway's call inside;
an assignment is one under another. An operation that changes stock is a load and a
write, as the write waits for rows and the load does not. `Serial` restricts the page
of offline sales to one operation at a time, which `ShelfBalanced` needs: its edits
take no lock, so two of them, or one and an assignment, return the same items twice.
`PaidSoldOnce` and the theorems need no such restriction. Totals beyond the amount,
discounts and receipts are left out.

## 3. Runs

| Run | Instance | Shows |
|---|---|---|
| `settlement` | 2 orders of one user, both Zarinpal and both with the discount code of one use; 2 requests, 1 sweep, 1 failure, an administrator | `TypeOK` (no negative shelf), `PaymentMatchesOrder`, `StockConserved`, `UsesCounted`, `ConfirmedIsPaid`, `HooksRunOnce`; implements `SettlementPromise` (`KeepsPromise`) |
| `overdue` | 2 users, 1 request, 1 sweep, 1 failure, one order with Zarinpal and one with Zibal | `OverdueSettled` under fairness |
| `basket` | 1 user, 2 overlapping requests, 3 requests in all, 2 baskets, 1 order, 1 sweep, a deadline of one tick | `TypeOK`, `SweepReleasesHeld`, `CheckoutOwnsBasket`, `HoldsEnd` |
| `basket_serial` | 2 users, 5 requests one after the other, 2 orders, 1 sweep that overlaps them | `StockExplained` |
| `basket_readd` | 1 user, 1 request at a time, no checkout | finding: a re-added item holds more than was taken |
| `wallet` | 1 top-up, 1 withdrawal, 1 order, 1 prize wheel, amounts 1 and 2; 6 requests in all, 2 at a time, one of them an administrator's; 1 failure | `TypeOK`, `BalanceExplained`, `DebitsCovered`, `TopUpStaysPaid` |
| `withdrawal_twice` | 2 administrators | finding: a withdrawal is settled twice |
| `snapp` | 2 lines of 2 units, 2 posts of the browser, 1 administrator; 2 operations at Snapp or on the order, with quantities up to 3, another discount and other costs; 2 lost answers, 1 death | `TypeOK`, `PaidMeansSettled`, `SettledIsRecorded`, `HooksStartOnce`, `BooksAgree`; `AttemptEnds` under fairness |
| `discounts` | 2 customers, one of them also at the till, 2 requests, 2 texts of codes, one row of each kind, a limit of one use; 1 edit by an administrator, 2 acts of settlement or of the world | `TypeOK` (rows stay what create would accept), `PreviewAgrees`, `CountsStayTrue`, `UsesWithinLimit` |
| `rewards` | 2 customers, 3 orders of which one was paid and rewarded before, 2 incentives, 2 overlapping calls, 1 edit, 2 days with a night between | `TypeOK`, `RewardedOnce`, `FirstPurchaseOnce`, `CashbackNotOverspent`, `FiguresAgree` |
| `back_office` | 1 order of 2 items, 1 sale, 3 operations of administrators, settlement at any moment, 3 bodies of amounts, 2 instants on either side of a midnight | `TypeOK`, `TotalsMatchItems`, `StockBalanced`, `UsesMatchOrders`, `ReportsAgree` |
| `events` | 1 payment, 3 sales, 2 variants, 2 requests, 2 administrators with 4 operations, 2 failures | `TypeOK`, `PaidSoldOnce`, `ShelfBalanced` |

Why the bounds are enough. A race over one order needs a confirming callback, a
releasing checkout of the same user and a sweep: two requests and one sweep, with
a second order for the checkout to place. The shelf starts empty, so a released
unit can be taken by `ReserveElsewhere` before the order is revived, and the code
has one use, so the next checkout can take the use a release gave back. One
failure is enough to abandon an order at each place a process can die. In the
basket runs, three requests are the shortest history with a hold, a change and a
checkout; the second basket is the one made after a checkout, or by two first
requests at once. In the wallet run six requests are enough to fill a wallet, to let
two debits race for it, and to reject or repeat; every handler is two steps, so two
overlapping requests show every order of their reads and writes. In the Snapp run
two posts contend for the claim, the administrator can act before and after the
callback, an edit or a new status can come between an operation's look at the rows and
its write, and two lost answers lose both a call and the question that follows it. In
`discounts` the limit is one, so the second use is one too many. In `rewards` each of the two tables
of incentives has one kind the other lacks, and a call may die between look and write
and be made again. In `back_office` the discount is as large as the price of one item, so
taking one away makes it exceed the total. In `events` a payment can be sold, its sale
removed and sold again, with one row to spare, and two units of a variant are all there
are. The constants named `Max...` are the only bounds; they appear in guards. Symmetry
is used in safety runs only. Deadlock checking is off: customers may all go away.

Fairness. Every process that has started goes on (`WF` on its steps: the event
loop and the database finish what they have begun, unless it fails); cron starts
the sweep every 30 seconds (`WF` on `SweepBegin`); PostgreSQL queues the waiters of
an advisory lock, so a sweep that waits for the lock of an order again and again
gets it (`SF` on `SweepNext`). Nobody is obliged to check out, to pay or to call
back. In `BasketReservation` only the sweep is fair. In `SnappPay` requests that have
started go on, time passes and the sweep runs; that suffices for `AttemptEnds`, since a
sweep also settles an attempt whose claimant died.

### Findings

1. Checkout relies on the stock having been taken when items were added. An item
   that was removed, or swept, and is added again revives its old row with the old
   quantity added.
2. `resolveWithdrawal` checks the status outside the transaction and updates without
   a guard: two requests both handle a withdrawal.

Other behaviour of the code met while modelling, which the properties are worded
around:

- `reservation.constants.ts` says that whatever settles a pending order takes the
  settle lock. Checkout's stale cleanup and its catch branch do not. The guarded
  updates keep the data right, as `settlement` and the theorems show, but the two
  transactions take the two rows in opposite orders and one can become a deadlock's
  victim.
- An administrator may set the status of an order whose payment is pending, also of one
  with Snapp. Releases look for `PENDING_PAYMENT`, so a pending order cancelled by hand is
  never released.
- An order that a late confirmation revives while it is being deleted as a FAILED one keeps
  its unit and its use of the code for ever (`astray` in `BackOffice`). The comment at
  `order-admin.service.ts` line 298 takes it that such an order has given its code back.
- Checkout's guard against a concurrent sweep uses data read before it. A hold swept in
  between is ordered, and its unit is also back on the shelf; `StockExplained` is
  checked with requests that do not overlap.
- Cancelling and reducing a purchase at Snapp come before the shop's own transaction,
  so a lost answer or a death in between leaves the two books apart: `BooksAgree`
  speaks of runs without either.
- The order's own endpoints change items, amounts and status of a purchase in instalments
  without telling Snapp. After an edit the amounts differ until somebody settles it by hand
  (`order-admin.service.ts` line 43 says so of refunds), and a cancelled purchase's order
  may be given any status.
- The sweeper releases an order whose time is up also when Snapp holds money it has
  not settled; a look at the live status can take the claim from the callback. The
  attempt ends all the same (`AttemptEnds`), and settled money is recorded for up to two lost
  answers (`SettledIsRecorded`). With three, those of verify, of the question after it
  and of the settle of a reconciliation, which does not ask again, it stays unrecorded
  until someone reconciles once more.
- Till and checkout hold different locks, so a single-use club code can be used once
  on either path. `CountsStayTrue` speaks of each path.
- A customer whose first order is not yet paid gets the first welcome tier again.
- Cashback that was granted counts as used when the wallet pays an order, also with
  money that was never cashback.
- A referral code's discount and cashback may come to 20 percent together;
  `prisma/schema.prisma` line 975 says 15.

Two texts also call the hold a 5-minute one (`stock-reservation-sweeper.service.ts`
line 8, `basket.controller.ts` line 1117); it is 10 minutes.

## 4. Proofs

Every theorem is about `Spec` with any values of the constants that satisfy the module's
assumptions, which TLC evaluates in every run: any finite sets of orders, customers, rows
and processes, any amounts, any bounds. Some take one thing more, because without it the
code does not keep the property (sections 2 and 3): `Serial` in `BasketReservation`,
`BackOffice` and `EventSales`, `OneAdmin` (at most one administrator) in `Wallet`, `SnappPay` and
`DiscountCodes`, `~Overlap` in `Rewards`.

| Component | Theorems | Assumed beside the constants' types |
|---|---|---|
| `OrderSettlement` | `TypeCorrect`, `PaymentAlwaysMatchesOrder`, `ConfirmedStaysPaid`, `ImplementsPromise`, `HooksAtMostOnce`, `StockAlwaysConserved`, `UsesAlwaysCounted` | - |
| `BasketReservation` | `TypeCorrect`, `SweepAlwaysReleasesHeld`, `CheckoutAlwaysOwnsBasket` | - |
| | `StockAlwaysExplained` | `Serial` |
| `Wallet` | `TypeCorrect`, `DebitsAlwaysCovered`, `TopUpsStayPaid` | - |
| | `BalanceAlwaysExplained` | `OneAdmin` |
| `SnappPay` | `TypeCorrect`, `PaidIsSettled`, `HooksStartAtMostOnce`, `SettledAlwaysRecorded` | - |
| | `BooksAlwaysAgree` | `OneAdmin` |
| `DiscountCodes` | `PreviewAlwaysAgrees`, `CountsAlwaysTrue`, `UsesAlwaysWithinLimit` | `BodiesAssumption` |
| | `TypeCorrect` | `BodiesAssumption`, `OneAdmin` |
| `Rewards` | `TypeCorrect` | `FormsAssumption`, `HistoryAssumption` |
| | `OrdersRewardedOnce`, `FirstPurchasesOnce`, `CashbackNeverOverspent`, `FiguresAlwaysAgree` | the same, `~Overlap` |
| `BackOffice` | `TypeCorrect` | - |
| | `TotalsAlwaysMatchItems`, `StockAlwaysBalanced`, `UsesAlwaysMatchOrders` | `Serial` |
| `Reports` | `ReportsAlwaysAgree` | `Serial` |
| `EventSales` | `TypeCorrect`, `PaymentsSoldOnce` | - |
| | `ShelfAlwaysBalanced` | `Serial` |

None of the properties is inductive. Each argument is a strengthening, and one lemma per
action that the strengthening survives it.

### OrderSettlement

The properties speak of committed rows, and what is about to be committed is in the
processes. `IInv` adds what an open transaction knows:

- `WritesByPc`: which rows a process has written follows from where it stands;
- `WritesGuarded`: a pending guarded write still finds the committed row in the
  state its guard asked for, because the row is locked;
- `RowLocks`: no two processes have written the same row;
- `WorkByPc` and `KindByPc`: a process past its start has an order, one it may
  settle, and runs what its place in the code allows;
- `PlacedOnce`: no two checkouts create the same order.

For a step of process `t` the proof shows that `t` stays sound and that nothing
the soundness of any other process depends on has changed: either `t` changed no
committed row (`LocalStep`), or it committed rows it had locked (`CommitStep`), or
it ended (`FinishStep`). `PaymentMatchesOrder` then follows at a commit because the
writes of a transaction come in matching pairs at that point, and `ConfirmedIsPaid`
because no guarded write leaves PAID.

Three more invariants build on it:

- `ImplementsPromise` (`Spec => KeepsPromise`, the refinement). `MoneyInv` adds that the
  gateway has not heard of an order that does not exist (`Unheard`), that the request that
  placed an order is alone with it until the customer is sent to the payment page, and that
  who is about to mark an order paid has seen its money come in and marks no other
  (`MoneySound`). Every action is then `Promised`: it moves committed rows forward, or the
  gateway hears of one order, or neither. These are `Settle`, `Confirm` and a stutter of the
  abstract specification (`PromisedIsAllowed`).
- `HooksAtMostOnce`. `HookInv` says that no two processes have the hooks of one order
  before them (`HooksApart`), that none has run them before (`HookSound`), and that an order
  whose hooks ran has its money in (`HooksPaid`). For an order with money due, the hooks
  belong to the transaction whose guarded update found it unpaid, and there is one such
  transaction because PAID is never left.
- `StockAlwaysConserved` and `UsesAlwaysCounted`. What a transaction releases is exactly
  what its orders hold and what is counted for them, and what it revives is neither
  (`ReleasedAreCounted`). The guards of the decrements therefore never bite, and each commit
  moves the shelf and the counter by the size of the set that changed sides.

### BasketReservation

`IInv` says that past its first query a request works on a basket of its user
(`WorksOnOwn`), that checkouts of one user exclude each other (`LockedApart`), and what the
steps of settlement need. For `StockExplained`, what baskets and orders hold is written as
the number of elements of a set of units, `{<<b, i>> : i \in 1..held[b]}`; `UnitsChange`
says what changing one row does to that number, so each action is a sum of two or three such
changes. `SerialInv` adds that what a request has read is still what the row holds when it
writes (`ReadTrue`), which is what overlapping requests break.

### Wallet

`DebitsCovered` follows from the types of the tables alone (`Types`, `IdSound`).
`TopUpStaysPaid` needs that two requests are never at work on one top-up (`Alone`, the
lock), that the one at work finds it as it left it (`TopUpSound`), and what a row's status
says of the gateway (`RowSound`). The type invariant bounds the number of redemptions, so
`KInv` counts those of an order and those still being written together (`Lots`), and knows
for each place in the code which rows exist (`Facts`). `BalanceExplained` is
then kept by each action because it moves the balance and one of the sums by the same amount
(`Explains`, `Books`); that a withdrawal is still pending when its resolution writes needs
`OneAdmin`, since nothing guards the update.

### SnappPay

`PaidMeansSettled` and `HooksStartOnce`: who is about to mark the order paid knows that
Snapp has settled, and who is about to write a status has one of Snapp's, never the null of
an unclaimed attempt (`ProcSound`); so a claimed attempt cannot be claimed again
(`ClaimedOnce`), hooks are due only with a first payment (`HooksArePaid`), and what Snapp
has settled it does not take back.

`SettledIsRecorded`: as long as no process died, somebody has a verified and a settled
purchase in hand, unless enough answers were lost for all to give up (`InHand`). The proof
follows each answer that a callback did not get (`RoundsWereLost`) and shows that giving up on
a settled purchase takes three.

`BooksAgree`: with one administrator at Snapp and no edit of the order (`Alone`), what an
operation has read and asked for is still the state of the rows (`AtBooks`); Snapp is ahead
of the shop only while somebody stands between the two writes (`Cancelled`, `ChargedRight`).
An edit ends the part about amounts for good, since `amended` stays; the part about the
cancellation survives it, and is suspended by `restated` alone.

`TypeCorrect` needs none of this: a reduction leaves something due (`Reducible`), and
`Recalc` caps the discount at the items and the wallet's share at what is left, so neither
takes the payable amount below zero, whichever of them writes over the other.

### DiscountCodes

Four invariants, each the next one's foundation. `CodesApart`: rows have their fields and no
two rows of a table have one code; then the text of a code finds at most one row, which is
all that `PreviewAgrees` needs, since preview and checkout then pick the same row whatever
order each reads the tables in. `CountInv`: no two checkouts of one customer and no two
redemptions of one code overlap (`CheckoutsApart`, `TillsApart`, the advisory locks), and what
one has found still stands (`Found`, `TillCode`), which gives `CountsStayTrue`. `LimitInv`:
`used` of a shop code is at most the highest limit it has had, revived orders aside
(`WithinPeak`). `FitInv`: every row is one a form would be accepted for, and an update that
is under way loaded the row as it is (`AsLoaded`, which needs `OneAdmin`: each of two partial
updates is checked against a row the other is changing). From it and the arithmetic of
percentages come the amounts in `TypeOK`.

### Rewards

`HistoryAssumption` says that the redemptions a run begins with are ones the services
wrote. For `RewardedOnce` and `FirstPurchaseOnce` the invariant adds that two grants at work
never have the same order (`Apart`), that a chosen incentive is not yet given for the order
(`GrantSound`), and that the orders whose first purchase is rewarded or about to be (`First`)
are paid orders of their customer and, while none of these is deleted, one. TLC finds a
counterexample when `Overlap` holds; the theorems say that overlap is the only way.

`TypeOK` holds with overlapping grants too: `TInv` gives each table its own part, and an
incentive stays one its service would create although a partial update checks only what it
touches. `CashbackNotOverspent`: one use at a time leaves room for what it read (`RoomFor`),
because sums of cashback only grow while it waits. `FiguresAgree` compares sums: a sum over
redemptions is the number of elements of a set of units, and grouping redemptions by incentive
or by segment splits that set into parts (`CountOfParts`), each redemption in exactly one.

### BackOffice and Reports

The module first proves what sums do: they add up over a new element, a changed one, a
linear combination, the parts of a partition, and a table by rows and by columns. The
library's induction takes an operator, which the provers cannot instantiate; `SetInduction`
says the same with a set `G` of sets instead, from the least size an exception could have.

`TypeCorrect` needs no `Serial`. That a commit leaves no negative stock rests on the locked
row: whoever is between `Change` and `CommitEdit` with units to take is alone with the
variant (`HeldApart`), and the shelf still has them (`Covered`), because nobody else takes
from a locked row (`TakenFree`).

With `Serial`, at most one operation is under way (`Alone`) and what it has read is still so
(`JobSound`): an edited order is paid and not deleted, the items it was computed from are
those of the order but for the one being changed, an order being deleted has the items it was
loaded with and its payment, unless it was FAILED and has been revived since. Payments,
releases and revivals may come in between: they touch pending and failed orders, which nobody
can be editing, and of those being deleted only failed ones, whose revival `astray` counts
at the commit. `TotalsMatchItems` is part of that invariant (`EditInv`), since the wallet's share
is read back from the amounts of the edit before. For `StockBalanced` every action changes one
order or one sale (`OnlyOrder`, `OnlySale`), and the sums change by what it held. For
`UsesMatchOrders` an order that was released is no longer counted, so deleting it may not give
its use back again.

`ReportsAgree` follows from `EditInv` in each state: profits by linearity; days and channels
because they partition the rows of a range; products by exchanging rows and columns, and
because an order's total is its items'; the days of a month because the rows placed on them
are among those the year places in the month.

### EventSales

`PaidSoldOnce`: an assignment decides on what it loaded and a callback on what it found.
`IInv` adds

- `Alone`: no two requests, and no two administrators' assignments, have the same
  payment in hand, which is what the two advisory locks are for;
- `RequestSound`: a request that creates or verifies a payment finds it unpaid, and one
  that reports it finds it unreported;
- `AdminSound`: an assignment that found no standing sale still finds none, and one
  that found a sale holds the payment's own. Removals only take sales away, and edits
  keep them, so no lock of theirs is needed;
- `PaymentSound`, `SaleSound`: a payment names one of its sales, and only that one may
  stand.

`ShelfBalanced` adds that what an operation has loaded is still so (`Remembers`), since under
`Serial` nobody else has the page (`PageAlone`).

### Only model-checked

Liveness (`OverdueSettled`, `HoldsEnd`, `AttemptEnds`): the fairness of a specification is
stated with ENABLED, which the provers do not handle. Every other property of a passing run
is a theorem.

The provers have no induction over folds such as `MapThenSumSet`. Where a proof is about a
sum, the module therefore states the sum as the number of elements of a set.

## 5. Not modelled, and what is left

Not modelled on purpose:

- customer groups, catalogue, content, direct messages, product feed: CRUD or queries
  whose rows no other service writes;
- authentication: its state is in the SMS provider, in signed tokens and in a counter
  in the memory of one process;
- Prisma, object storage and SMS clients: pure input and output;
- lists, searches and statistics of the modelled components, comments on orders, and
  the wording of messages;
- the backfill script of rewards and the deletion of users.

Left for later: the composition of `EventSales` and `BackOffice` over one shelf.
