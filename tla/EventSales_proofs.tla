--------------------------- MODULE EventSales_proofs ---------------------------
(***************************************************************************)
(* Proofs about EventSales, for any numbers of events, payments, sales,    *)
(* variants, requests and administrators, and whether or not the page of   *)
(* offline sales is used one operation at a time.                          *)
(***************************************************************************)
EXTENDS EventSales, FiniteSetTheorems, TLAPS

Workers == Requests \cup Admins

RequestKinds == {"request", "store", "verify", "mark", "notify"}
SaleKinds == {"update", "remove"}
Items == [Variants -> Nat]

Jobs ==
    {Idle}
    \cup [kind : RequestKinds, payment : Payments]
    \cup [kind : {"assign"}, payment : Payments, sale : Sales \cup {None}, items : Items, old : Items]
    \cup [kind : SaleKinds, sale : Sales, old : Items, items : Items]

(* Who does what, and that nobody works for the same payment beside        *)
(* another: a request that creates, verifies, records or reports it, or    *)
(* an administrator who assigns its items.                                 *)
JobsOK ==
    /\ job \in [Workers -> Jobs]
    /\ \A w \in Workers :
        /\ job[w].kind \in RequestKinds => w \in Requests
        /\ job[w].kind = "assign" => w \in Admins

Works(w, p) == job[w].kind \in RequestKinds /\ job[w].payment = p
Assigns(w, p) == job[w].kind = "assign" /\ job[w].payment = p
Alone ==
    \A v, w \in Workers, p \in Payments :
        \/ Works(v, p) /\ Works(w, p)
        \/ Assigns(v, p) /\ Assigns(w, p)
        => v = w

(* What a request knows of its payment.                                    *)
RequestSound(w) ==
    LET p == job[w].payment
    IN  /\ job[w].kind \in {"request", "store"} =>
                payment[p].status = "INITIATED" /\ ~payment[p].authority
        /\ job[w].kind \in {"verify", "mark"} => payment[p].status \notin {"absent", "PAID"}
        /\ job[w].kind = "notify" => payment[p].status = "PAID" /\ notified[p] = 0

(* What an administrator knows of the sale: an assignment that found none  *)
(* standing still finds none, and one that found one is of its payment.    *)
AdminSound(w) ==
    /\ job[w].kind = "assign" =>
        LET p == job[w].payment
        IN  /\ payment[p].status = "PAID"
            /\ IF job[w].sale = None THEN ~LiveSale(p) ELSE job[w].sale = payment[p].sale
    /\ job[w].kind \in SaleKinds => sale[job[w].sale].payment # None

(* A payment and its sales.                                                *)
PaymentSound(p) ==
    /\ payment[p].status = "absent" => payment[p] = NoPayment
    /\ payment[p].status # "PAID" => payment[p].sale = None /\ notified[p] = 0
    /\ payment[p].status = "PAID" =>
        payment[p].sale \in Sales /\ sale[payment[p].sale].payment = p
    /\ notified[p] \in {0, 1}

SaleSound(s) ==
    /\ sale[s].payment = None => sale[s] = NoSale
    /\ sale[s].payment # None =>
        LET p == sale[s].payment
        IN  /\ payment[p].status = "PAID"
            /\ sale[s].live => s = payment[p].sale
            /\ sale[s].edited \/ sale[s].payable = payment[p].amount

IInv ==
    /\ TypeOK /\ JobsOK /\ Alone
    /\ \A w \in Workers : RequestSound(w) /\ AdminSound(w)
    /\ \A p \in Payments : PaymentSound(p)
    /\ \A s \in Sales : SaleSound(s)

--------------------------------------------------------------------------------
(* Helpers.                                                                *)

LEMMA Provider == \A requested : ResolveProvider(requested) \in Providers
<1>1. Fallback \in Active
  BY EventSalesAssumption DEF Fallback
<1> QED BY <1>1, EventSalesAssumption DEF ResolveProvider

LEMMA NoItemsType == NoItems \in Items
BY DEF NoItems, Items

(* The types of rows.                                                      *)
Statuses == {"absent", "INITIATED", "PAID", "FAILED"}
PaymentRows == [status : Statuses, event : Events \cup {None}, provider : Providers \cup {None},
                amount : Nat, authority : BOOLEAN, sale : Sales \cup {None}]
SaleRows == [live : BOOLEAN, payment : Payments \cup {None}, payable : Nat, items : Items,
             edited : BOOLEAN]

LEMMA RowTypes ==
    ASSUME TypeOK
    PROVE  payment \in [Payments -> PaymentRows] /\ sale \in [Sales -> SaleRows]
BY DEF TypeOK, PaymentRows, SaleRows, Statuses, Items

(* Only a row of the payment changes.                                      *)
LEMMA PaymentWrite ==
    ASSUME TypeOK, NEW p \in Payments, NEW row \in PaymentRows,
           payment' = [payment EXCEPT ![p] = row]
    PROVE  /\ payment' \in [Payments -> PaymentRows] /\ payment'[p] = row
           /\ \A q \in Payments \ {p} : payment'[q] = payment[q]
BY RowTypes

LEMMA StatusWrite ==
    ASSUME TypeOK, NEW p \in Payments, NEW status \in Statuses, SetStatus(p, status)
    PROVE  /\ payment' \in [Payments -> PaymentRows]
           /\ payment'[p] = [payment[p] EXCEPT !.status = status]
           /\ \A q \in Payments \ {p} : payment'[q] = payment[q]
<1>1. payment[p] \in PaymentRows
  BY RowTypes
<1>2. [payment[p] EXCEPT !.status = status] \in PaymentRows
  BY <1>1 DEF PaymentRows
<1>3. payment' = [payment EXCEPT ![p] = [payment[p] EXCEPT !.status = status]]
  BY DEF SetStatus
<1> QED BY <1>2, <1>3, PaymentWrite

(* The type invariant, when the rows have their types.                     *)
LEMMA TypesFromRows ==
    ASSUME payment' \in [Payments -> PaymentRows], sale' \in [Sales -> SaleRows],
           event' \in [Events -> {"active", "paused", "removed"}],
           stock' \in Items, taken' \in Items,
           gateway' \in [Payments -> {"none", "open", "paid", "verified"}],
           notified' \in [Payments -> Nat], edits' \in 0..MaxEdits, failures' \in 0..MaxFailures
    PROVE  TypeOK'
BY DEF TypeOK, PaymentRows, SaleRows, Statuses, Items

(* One worker's job changes.                                               *)
LEMMA GotoWrite ==
    ASSUME JobsOK, NEW w \in Workers, NEW work, Goto(w, work)
    PROVE  job'[w] = work /\ \A v \in Workers \ {w} : job'[v] = job[v]
BY DEF JobsOK, Goto

LEMMA GotoTyped ==
    ASSUME JobsOK, NEW w \in Workers, NEW work \in Jobs, Goto(w, work),
           work.kind \in RequestKinds => w \in Requests,
           work.kind = "assign" => w \in Admins
    PROVE  JobsOK'
<1>1. job' \in [Workers -> Jobs]
  BY DEF JobsOK, Goto
<1> QED BY <1>1, GotoWrite DEF JobsOK

LEMMA IdleIsNoWork == Idle \in Jobs /\ Idle.kind \notin RequestKinds \cup SaleKinds \cup {"assign"}
BY DEF Idle, Jobs, RequestKinds, SaleKinds

(* The jobs by their kinds.                                                *)
LEMMA JobOf ==
    ASSUME JobsOK, NEW w \in Workers
    PROVE  /\ job[w].kind \in RequestKinds => job[w] \in [kind : RequestKinds, payment : Payments]
           /\ job[w].kind = "assign" => job[w] \in [kind : {"assign"}, payment : Payments,
                                     sale : Sales \cup {None}, items : Items, old : Items]
           /\ job[w].kind \in SaleKinds => job[w] \in
                    [kind : SaleKinds, sale : Sales, old : Items, items : Items]
BY DEF JobsOK, Jobs, Idle, RequestKinds, SaleKinds

(* A worker that goes idle does no harm, while the rows stay.              *)
LEMMA AloneFinish ==
    ASSUME JobsOK, Alone, NEW w \in Workers, Finish(w)
    PROVE  Alone'
<1>1. job'[w] = Idle /\ \A v \in Workers \ {w} : job'[v] = job[v]
  BY GotoWrite DEF Finish
<1> QED BY <1>1, IdleIsNoWork DEF Alone, Works, Assigns

(* A worker that goes on with its payment is as alone as before.           *)
LEMMA AloneGoesOn ==
    ASSUME JobsOK, Alone, NEW w \in Workers, NEW work, Goto(w, work),
           job[w].kind \in RequestKinds, work.kind \in RequestKinds,
           work.payment = job[w].payment
    PROVE  Alone'
<1>1. job'[w] = work /\ \A v \in Workers \ {w} : job'[v] = job[v]
  BY GotoWrite
<1> QED BY <1>1 DEF Alone, Works, Assigns, RequestKinds

--------------------------------------------------------------------------------
(* The payment's own steps.                                                *)

LEMMA CreateStep ==
    ASSUME IInv, NEW r \in Requests, NEW p \in Payments, NEW e \in Events, NEW amount \in Amounts,
           NEW requested, Create(r, p, e, amount, requested)
    PROVE  IInv'
<1> DEFINE work == [kind |-> "request", payment |-> p]
           row == [NoPayment EXCEPT !.status = "INITIATED", !.event = e, !.amount = amount,
                                    !.provider = ResolveProvider(requested)]
<1>1. /\ work \in Jobs /\ work.kind = "request" /\ work.payment = p
      /\ r \in Workers /\ Goto(r, work) /\ payment[p] = NoPayment
  BY DEF Jobs, RequestKinds, Workers, Create
<1>2. /\ row \in [status : {"INITIATED"}, event : Events, provider : Providers, amount : Nat,
                  authority : {FALSE}, sale : {None}]
      /\ row.status = "INITIATED" /\ row.authority = FALSE /\ row.sale = None
  BY Provider, EventSalesAssumption DEF NoPayment
<1>3. /\ payment'[p] = row /\ \A q \in Payments \ {p} : payment'[q] = payment[q]
      /\ UNCHANGED <<event, sale, stock, taken, gateway, notified, edits, failures>>
  BY DEF Create, IInv, TypeOK
<1>4. TypeOK'
  <2>1. payment' = [payment EXCEPT ![p] = row]
    BY DEF Create
  <2>2. row \in PaymentRows
    BY <1>2 DEF PaymentRows, Statuses
  <2> HIDE DEF row
  <2>3. payment' \in [Payments -> PaymentRows]
    BY <2>1, <2>2, PaymentWrite DEF IInv
  <2> QED BY <1>3, <2>3, RowTypes, TypesFromRows DEF IInv, TypeOK, Items
<1>5. job'[r] = work /\ \A w \in Workers \ {r} : job'[w] = job[w]
  BY <1>1, GotoWrite DEF IInv
<1>6. JobsOK'
  BY <1>1, GotoTyped DEF IInv, RequestKinds
<1>7. \A w \in Workers : ~Works(w, p) /\ ~Assigns(w, p)
  BY <1>1 DEF IInv, RequestSound, AdminSound, Works, Assigns, RequestKinds, NoPayment
<1>8. Alone'
  BY <1>1, <1>5, <1>7 DEF IInv, Alone, Works, Assigns, RequestKinds
<1>9. \A s \in Sales : sale[s].payment # p
  BY <1>1, EventSalesAssumption DEF IInv, SaleSound, NoPayment
<1> HIDE DEF row, work
<1>10. ASSUME NEW w \in Workers
       PROVE  RequestSound(w)' /\ AdminSound(w)'
  <2>1. CASE w = r
    BY <1>1, <1>2, <1>3, <1>5, <2>1 DEF RequestSound, AdminSound, SaleKinds
  <2>2. CASE w # r
    BY <1>3, <1>5, <1>7, <2>2, JobOf
    DEF IInv, RequestSound, AdminSound, Works, Assigns, LiveSale, RequestKinds
  <2> QED BY <2>1, <2>2
<1>11. ASSUME NEW q \in Payments
       PROVE  PaymentSound(q)'
  BY <1>1, <1>2, <1>3 DEF IInv, PaymentSound, NoPayment
<1>12. ASSUME NEW s \in Sales
       PROVE  SaleSound(s)'
  BY <1>3, <1>9 DEF IInv, SaleSound, TypeOK
<1> QED BY <1>4, <1>6, <1>8, <1>10, <1>11, <1>12 DEF IInv

(* A payment's status turns to FAILED while it is not paid, and a request  *)
(* for it, if there is one, is through.                                    *)
LEMMA FailedStep ==
    ASSUME IInv, NEW p \in Payments, SetStatus(p, "FAILED"), payment[p].status \notin {"absent", "PAID"},
           UNCHANGED <<event, sale, stock, taken, gateway, notified, edits>>,
           failures' \in 0..MaxFailures,
           JobsOK', Alone', \A w \in Workers : job'[w] \in {job[w], Idle},
           \A w \in Workers : ~Works(w, p)'
    PROVE  IInv'
<1>1. /\ payment' \in [Payments -> PaymentRows]
      /\ payment'[p] = [payment[p] EXCEPT !.status = "FAILED"]
      /\ \A q \in Payments \ {p} : payment'[q] = payment[q]
  BY StatusWrite DEF IInv, Statuses
<1>2. /\ payment'[p].status = "FAILED" /\ payment'[p].sale = payment[p].sale
      /\ payment'[p].amount = payment[p].amount
  BY <1>1 DEF IInv, TypeOK
<1>3. TypeOK'
  BY <1>1, RowTypes, TypesFromRows DEF IInv, TypeOK, Items
<1>4. ASSUME NEW w \in Workers
      PROVE  RequestSound(w)' /\ AdminSound(w)'
  <2>1. CASE job'[w] = Idle
    BY <2>1, IdleIsNoWork DEF RequestSound, AdminSound, RequestKinds
  <2>2. CASE job'[w] = job[w]
    BY <1>1, <1>2, <2>2, JobOf DEF IInv, RequestSound, AdminSound, Works, LiveSale, RequestKinds
  <2> QED BY <2>1, <2>2
<1>5. ASSUME NEW q \in Payments
      PROVE  PaymentSound(q)'
  BY <1>1, <1>2 DEF IInv, PaymentSound
<1>6. ASSUME NEW s \in Sales
      PROVE  SaleSound(s)'
  <2>1. sale[s].payment \in Payments \cup {None}
    BY RowTypes DEF IInv, SaleRows
  <2>2. sale[s].payment # p
    BY <2>1, EventSalesAssumption DEF IInv, SaleSound
  <2> QED BY <1>1, <2>1, <2>2 DEF IInv, SaleSound
<1> QED BY <1>3, <1>4, <1>5, <1>6 DEF IInv

LEMMA RefusedSteps ==
    ASSUME IInv, NEW r \in Requests, RequestRefused(r) \/ VerifyRefused(r)
    PROVE  IInv'
<1>1. r \in Workers /\ job[r].kind \in {"request", "verify"}
  BY DEF Workers, RequestRefused, VerifyRefused
<1>2. PICK p \in Payments : p = job[r].payment
  BY <1>1, JobOf DEF IInv, RequestKinds
<1>3. Works(r, p) /\ payment[p].status \notin {"absent", "PAID"}
  BY <1>1, <1>2 DEF IInv, RequestSound, Works, RequestKinds
<1>4. /\ SetStatus(p, "FAILED") /\ Finish(r) /\ failures' \in 0..MaxFailures
      /\ UNCHANGED <<event, sale, stock, taken, gateway, notified, edits>>
  BY <1>2, EventSalesAssumption DEF RequestRefused, VerifyRefused, IInv, TypeOK
<1>5. job'[r] = Idle /\ \A w \in Workers \ {r} : job'[w] = job[w]
  BY <1>1, <1>4, GotoWrite DEF IInv, Finish
<1>6. JobsOK' /\ Alone'
  BY <1>1, <1>4, IdleIsNoWork, GotoTyped, AloneFinish DEF IInv, Finish
<1>7. \A w \in Workers : ~Works(w, p)'
  BY <1>1, <1>3, <1>5, IdleIsNoWork DEF IInv, Alone, Works
<1> QED BY <1>3, <1>4, <1>5, <1>6, <1>7, FailedStep

LEMMA NotOkStep ==
    ASSUME IInv, NEW r \in Requests, NEW p \in Payments, NotOk(r, p)
    PROVE  IInv'
<1>1. /\ payment[p].authority /\ payment[p].status # "PAID"
      /\ SetStatus(p, "FAILED") /\ UNCHANGED <<event, sale, stock, taken, gateway, notified, job, edits, failures>>
  BY DEF NotOk, Open
<1>2. \A w \in Workers : ~Works(w, p)
  BY <1>1 DEF IInv, JobsOK, NotOk, Open, CallbackLockFree, Works, RequestSound, RequestKinds
<1>3. payment[p].status # "absent"
  BY <1>1 DEF IInv, PaymentSound, NoPayment
<1>4. JobsOK' /\ Alone'
  BY <1>1 DEF IInv, JobsOK, Alone, Works, Assigns
<1>5. \A w \in Workers : ~Works(w, p)'
  BY <1>1, <1>2 DEF Works
<1>6. failures' \in 0..MaxFailures
  BY <1>1 DEF IInv, TypeOK
<1> QED BY <1>1, <1>3, <1>4, <1>5, <1>6, FailedStep

(* Payments, sales and what the managers know stay; whoever has other work *)
(* than before is sound in it.                                             *)
LEMMA RowsStay ==
    ASSUME IInv, UNCHANGED <<payment, sale, notified>>, TypeOK', JobsOK', Alone',
           \A w \in Workers : job'[w] = job[w] \/ (RequestSound(w)' /\ AdminSound(w)')
    PROVE  IInv'
<1>1. ASSUME NEW w \in Workers
      PROVE  RequestSound(w)' /\ AdminSound(w)'
  <2>1. CASE job'[w] = job[w]
    BY <2>1 DEF IInv, RequestSound, AdminSound, LiveSale
  <2> QED BY <2>1
<1>2. \A p \in Payments : PaymentSound(p)'
  BY DEF IInv, PaymentSound
<1>3. \A s \in Sales : SaleSound(s)'
  BY DEF IInv, SaleSound
<1> QED BY <1>1, <1>2, <1>3 DEF IInv

(* A request goes on with its payment, at the gateway.                     *)
LEMMA GatewaySteps ==
    ASSUME IInv, NEW r \in Requests, RequestAccepted(r) \/ RequestMocked(r) \/ VerifySucceeds(r)
    PROVE  IInv'
<1>1. PICK kind \in {"store", "mark"} :
        Goto(r, [job[r] EXCEPT !.kind = kind]) /\ (job[r].kind = "verify" => kind = "mark")
  BY DEF RequestAccepted, RequestMocked, VerifySucceeds
<1>2. r \in Workers /\ job[r].kind \in {"request", "verify"}
  BY DEF Workers, RequestAccepted, RequestMocked, VerifySucceeds
<1> DEFINE work == [job[r] EXCEPT !.kind = kind]
<1>3. work \in Jobs /\ work.kind = kind /\ work.payment = job[r].payment
  BY <1>2, JobOf DEF IInv, Jobs, RequestKinds
<1>4. /\ UNCHANGED <<rows, notified, edits, failures>>
      /\ gateway' \in [Payments -> {"none", "open", "paid", "verified"}]
  <2>1. job[r].payment \in Payments
    BY <1>2, JobOf DEF IInv, RequestKinds
  <2>2. gateway \in [Payments -> {"none", "open", "paid", "verified"}]
    BY DEF IInv, TypeOK
  <2>3. CASE RequestAccepted(r)
    BY <2>1, <2>2, <2>3 DEF RequestAccepted
  <2>4. CASE RequestMocked(r)
    BY <2>2, <2>4 DEF RequestMocked
  <2>5. CASE VerifySucceeds(r)
    BY <2>1, <2>2, <2>5 DEF VerifySucceeds
  <2> QED BY <2>3, <2>4, <2>5
<1>5. TypeOK'
  BY <1>4 DEF IInv, TypeOK, rows
<1>6. Goto(r, work)
  BY <1>1
<1> HIDE DEF work
<1>7. job'[r] = work /\ \A w \in Workers \ {r} : job'[w] = job[w]
  BY <1>2, <1>6, GotoWrite DEF IInv
<1>8. JobsOK'
  BY <1>2, <1>3, <1>6, GotoTyped DEF IInv, RequestKinds
<1>9. Alone'
  BY <1>2, <1>3, <1>6, AloneGoesOn DEF IInv, RequestKinds
<1>10. RequestSound(r)' /\ AdminSound(r)'
  BY <1>1, <1>2, <1>3, <1>4, <1>7 DEF IInv, RequestSound, AdminSound, SaleKinds, rows
<1> QED BY <1>4, <1>5, <1>7, <1>8, <1>9, <1>10, RowsStay DEF rows

LEMMA CallbackBeginStep ==
    ASSUME IInv, NEW r \in Requests, NEW p \in Payments, CallbackBegin(r, p)
    PROVE  IInv'
<1> DEFINE work == [kind |-> "verify", payment |-> p]
<1>1. /\ r \in Workers /\ work \in Jobs /\ work.kind = "verify" /\ work.payment = p
      /\ Goto(r, work) /\ UNCHANGED <<rows, gateway, notified, edits, failures>>
      /\ payment[p].authority /\ payment[p].status # "PAID"
  BY DEF CallbackBegin, Open, Workers, Jobs, RequestKinds
<1> HIDE DEF work
<1>2. \A w \in Workers : ~Works(w, p)
  BY <1>1 DEF IInv, JobsOK, CallbackBegin, Open, CallbackLockFree, Works, RequestSound, RequestKinds
<1>3. payment[p].status # "absent"
  BY <1>1 DEF IInv, PaymentSound, NoPayment
<1>4. TypeOK'
  BY <1>1 DEF IInv, TypeOK, rows
<1>5. job'[r] = work /\ \A w \in Workers \ {r} : job'[w] = job[w]
  BY <1>1, GotoWrite DEF IInv
<1>6. JobsOK'
  BY <1>1, GotoTyped DEF IInv, RequestKinds
<1>7. Alone'
  BY <1>1, <1>2, <1>5 DEF IInv, Alone, Works, Assigns
<1>8. RequestSound(r)' /\ AdminSound(r)'
  BY <1>1, <1>3, <1>5 DEF RequestSound, AdminSound, SaleKinds, rows
<1> QED BY <1>1, <1>4, <1>5, <1>6, <1>7, <1>8, RowsStay DEF rows

LEMMA FailStep ==
    ASSUME IInv, NEW r \in Requests, Fail(r)
    PROVE  IInv'
<1>1. /\ r \in Workers /\ Finish(r) /\ UNCHANGED <<rows, gateway, notified, edits>>
      /\ failures < MaxFailures /\ failures' = failures + 1
  BY DEF Fail, Workers
<1>2. TypeOK'
  BY <1>1, EventSalesAssumption DEF IInv, TypeOK, rows
<1>3. job'[r] = Idle /\ \A w \in Workers \ {r} : job'[w] = job[w]
  BY <1>1, GotoWrite DEF IInv, Finish
<1>4. JobsOK' /\ Alone'
  BY <1>1, IdleIsNoWork, GotoTyped, AloneFinish DEF IInv, Finish
<1>5. RequestSound(r)' /\ AdminSound(r)'
  BY <1>3, IdleIsNoWork DEF RequestSound, AdminSound, RequestKinds
<1> QED BY <1>1, <1>2, <1>3, <1>4, <1>5, RowsStay DEF rows

LEMMA StoreAuthorityStep ==
    ASSUME IInv, NEW r \in Requests, StoreAuthority(r)
    PROVE  IInv'
<1>1. r \in Workers /\ job[r].kind = "store" /\ Finish(r)
  BY DEF Workers, StoreAuthority
<1>2. PICK p \in Payments : p = job[r].payment
  BY <1>1, JobOf DEF IInv, RequestKinds
<1>3. PICK row \in PaymentRows : row = [payment[p] EXCEPT !.authority = TRUE]
  <2>1. payment[p] \in PaymentRows
    BY RowTypes DEF IInv
  <2> QED BY <2>1 DEF PaymentRows
<1>4. /\ payment' = [payment EXCEPT ![p] = row]
      /\ UNCHANGED <<event, sale, stock, taken, gateway, notified, edits, failures>>
  BY <1>2, <1>3 DEF StoreAuthority
<1>5. /\ payment' \in [Payments -> PaymentRows] /\ payment'[p] = row
      /\ \A q \in Payments \ {p} : payment'[q] = payment[q]
  BY <1>4, PaymentWrite DEF IInv
<1>6. /\ row.status = payment[p].status /\ row.sale = payment[p].sale
      /\ row.amount = payment[p].amount
  BY <1>3, RowTypes DEF IInv, PaymentRows
<1>7. TypeOK'
  BY <1>4, <1>5, RowTypes, TypesFromRows DEF IInv, TypeOK, Items
<1>8. job'[r] = Idle /\ \A w \in Workers \ {r} : job'[w] = job[w]
  BY <1>1, GotoWrite DEF IInv, Finish
<1>9. JobsOK' /\ Alone'
  BY <1>1, IdleIsNoWork, GotoTyped, AloneFinish DEF IInv, Finish
<1>10. Works(r, p) /\ payment[p].status = "INITIATED"
  BY <1>1, <1>2 DEF IInv, RequestSound, Works, RequestKinds
<1>11. ASSUME NEW w \in Workers
       PROVE  RequestSound(w)' /\ AdminSound(w)'
  <2>1. CASE w = r
    BY <1>8, <2>1, IdleIsNoWork DEF RequestSound, AdminSound, RequestKinds
  <2>2. CASE w # r
    <3>1. ~Works(w, p)
      BY <1>1, <1>10, <2>2 DEF IInv, Alone
    <3> QED BY <1>4, <1>5, <1>6, <1>8, <2>2, <3>1, JobOf
        DEF IInv, RequestSound, AdminSound, Works, LiveSale, RequestKinds
  <2> QED BY <2>1, <2>2
<1>12. \A q \in Payments : PaymentSound(q)'
  BY <1>4, <1>5, <1>6, <1>10 DEF IInv, PaymentSound
<1>13. ASSUME NEW s \in Sales
       PROVE  SaleSound(s)'
  <2>1. sale[s].payment \in Payments \cup {None}
    BY RowTypes DEF IInv, SaleRows
  <2> QED BY <1>4, <1>5, <1>6, <2>1 DEF IInv, SaleSound
<1> QED BY <1>7, <1>9, <1>11, <1>12, <1>13 DEF IInv

LEMMA NotifyAdminsStep ==
    ASSUME IInv, NEW r \in Requests, NotifyAdmins(r)
    PROVE  IInv'
<1>1. r \in Workers /\ job[r].kind = "notify" /\ Finish(r) /\ UNCHANGED <<rows, gateway, edits, failures>>
  BY DEF Workers, NotifyAdmins
<1>2. PICK p \in Payments : p = job[r].payment
  BY <1>1, JobOf DEF IInv, RequestKinds
<1>3. Works(r, p) /\ payment[p].status = "PAID" /\ notified[p] = 0
  BY <1>1, <1>2 DEF IInv, RequestSound, Works, RequestKinds
<1>4. /\ notified' \in [Payments -> Nat] /\ notified'[p] = 1
      /\ \A q \in Payments \ {p} : notified'[q] = notified[q]
  BY <1>2, <1>3 DEF NotifyAdmins, IInv, TypeOK
<1>5. TypeOK'
  BY <1>1, <1>4 DEF IInv, TypeOK, rows
<1>6. job'[r] = Idle /\ \A w \in Workers \ {r} : job'[w] = job[w]
  BY <1>1, GotoWrite DEF IInv, Finish
<1>7. JobsOK' /\ Alone'
  BY <1>1, IdleIsNoWork, GotoTyped, AloneFinish DEF IInv, Finish
<1>8. ASSUME NEW w \in Workers
      PROVE  RequestSound(w)' /\ AdminSound(w)'
  <2>1. CASE w = r
    BY <1>6, <2>1, IdleIsNoWork DEF RequestSound, AdminSound, RequestKinds
  <2>2. CASE w # r
    <3>1. ~Works(w, p)
      BY <1>1, <1>3, <2>2 DEF IInv, Alone
    <3> QED BY <1>1, <1>4, <1>6, <2>2, <3>1, JobOf
        DEF IInv, RequestSound, AdminSound, Works, LiveSale, RequestKinds, rows
  <2> QED BY <2>1, <2>2
<1>9. \A q \in Payments : PaymentSound(q)'
  BY <1>1, <1>3, <1>4 DEF IInv, PaymentSound, rows
<1>10. \A s \in Sales : SaleSound(s)'
  BY <1>1 DEF IInv, SaleSound, rows
<1> QED BY <1>5, <1>7, <1>8, <1>9, <1>10 DEF IInv

--------------------------------------------------------------------------------
(* Sales.                                                                  *)

(* A payment that is sold for the first time, or again after its sale was  *)
(* removed, gets a row that no sale has.  Whoever has the payment in hand  *)
(* becomes idle or goes on to report it.                                   *)
LEMMA SoldStep ==
    ASSUME IInv, NEW p \in Payments, NEW s \in Sales, NEW w \in Workers, NEW row \in SaleRows,
           NEW paid \in PaymentRows,
           sale[s] = NoSale, row.payment = p, row.payable = payment[p].amount, row.live,
           \A x \in Sales : sale[x].payment = p => ~sale[x].live,
           payment[p].status # "absent",
           paid.status = "PAID", paid.sale = s, paid.amount = payment[p].amount,
           sale' = [sale EXCEPT ![s] = row], payment' = [payment EXCEPT ![p] = paid],
           UNCHANGED <<event, taken, gateway, notified, edits, failures>>, stock' \in Items,
           JobsOK', Alone',
           \A v \in Workers \ {w} :
                job'[v] = job[v] /\ ~Assigns(v, p) /\ (Works(v, p) => job[v].kind = "notify"),
           RequestSound(w)', AdminSound(w)'
    PROVE  IInv'
<1>1. /\ payment' \in [Payments -> PaymentRows] /\ payment'[p] = paid
      /\ \A q \in Payments \ {p} : payment'[q] = payment[q]
  BY PaymentWrite DEF IInv
<1>2. /\ sale' \in [Sales -> SaleRows] /\ sale'[s] = row
      /\ \A x \in Sales \ {s} : sale'[x] = sale[x]
  BY RowTypes DEF IInv
<1>3. TypeOK'
  BY <1>1, <1>2, TypesFromRows DEF IInv, TypeOK, Items
<1>4. sale[s].payment = None /\ None \notin Payments
  BY EventSalesAssumption DEF NoSale
<1>5. ASSUME NEW v \in Workers, v # w
      PROVE  RequestSound(v)' /\ AdminSound(v)'
  <2>1. job'[v] = job[v] /\ ~Assigns(v, p) /\ (Works(v, p) => job[v].kind = "notify")
    BY <1>5
  <2>2. RequestSound(v)'
    BY <1>1, <2>1, JobOf DEF IInv, RequestSound, Works, RequestKinds
  <2>3. AdminSound(v)'
    <3>1. CASE job[v].kind = "assign"
      <4>1. PICK q \in Payments : q = job[v].payment
        BY <3>1, JobOf DEF IInv
      <4>2. q # p /\ payment[q].status = "PAID"
        BY <2>1, <3>1, <4>1 DEF IInv, AdminSound, Assigns
      <4>3. payment'[q] = payment[q] /\ payment[q].sale \in Sales /\ payment[q].sale # s
        BY <1>1, <1>4, <4>2 DEF IInv, PaymentSound
      <4>4. sale'[payment[q].sale] = sale[payment[q].sale]
        BY <1>2, <4>3
      <4> QED BY <2>1, <3>1, <4>1, <4>3, <4>4 DEF IInv, AdminSound, LiveSale, SaleKinds
    <3>2. CASE job[v].kind \in SaleKinds
      <4>1. job[v].sale \in Sales /\ job[v].sale # s
        BY <1>4, <3>2, JobOf DEF IInv, AdminSound
      <4> QED BY <1>2, <2>1, <3>2, <4>1 DEF IInv, AdminSound, SaleKinds
    <3> QED BY <2>1, <3>1, <3>2 DEF AdminSound
  <2> QED BY <2>2, <2>3
<1>6. ASSUME NEW q \in Payments
      PROVE  PaymentSound(q)'
  <2>1. CASE q = p
    BY <1>1, <1>2, <2>1 DEF IInv, PaymentSound
  <2>2. CASE q # p
    <3>1. payment[q].status = "PAID" => payment[q].sale # s
      BY <1>4 DEF IInv, PaymentSound
    <3> QED BY <1>1, <1>2, <2>2, <3>1 DEF IInv, PaymentSound
  <2> QED BY <2>1, <2>2
<1>7. ASSUME NEW x \in Sales
      PROVE  SaleSound(x)'
  <2>1. CASE x = s
    BY <1>1, <1>2, <1>4, <2>1 DEF SaleSound
  <2>2. CASE x # s
    <3>1. sale[x].payment \in Payments \cup {None} /\ sale'[x] = sale[x]
      BY <1>2, <2>2, RowTypes DEF IInv, SaleRows
    <3> QED BY <1>1, <3>1 DEF IInv, SaleSound
  <2> QED BY <2>1, <2>2
<1> QED BY <1>3, <1>5, <1>6, <1>7 DEF IInv

LEMMA NewSaleRow ==
    ASSUME TypeOK, NEW p \in Payments, NEW items \in Items
    PROVE  /\ NewSale(p, items) \in SaleRows
           /\ NewSale(p, items).live /\ NewSale(p, items).payment = p
           /\ NewSale(p, items).payable = payment[p].amount
BY RowTypes DEF NewSale, SaleRows, PaymentRows

LEMMA MarkPaidStep ==
    ASSUME IInv, NEW r \in Requests, MarkPaid(r)
    PROVE  IInv'
<1>1. r \in Workers /\ job[r].kind = "mark"
  BY DEF Workers, MarkPaid
<1>2. PICK p \in Payments : p = job[r].payment
  BY <1>1, JobOf DEF IInv, RequestKinds
<1>3. Works(r, p) /\ payment[p].status \notin {"absent", "PAID"}
  BY <1>1, <1>2 DEF IInv, RequestSound, Works, RequestKinds
<1>4. Unsold(p) /\ notified[p] = 0
  BY <1>3 DEF IInv, PaymentSound, Unsold
<1>5. PICK s \in Sales :
        /\ sale[s] = NoSale /\ sale' = [sale EXCEPT ![s] = NewSale(p, NoItems)]
        /\ payment' = [payment EXCEPT ![p].status = "PAID", ![p].sale = s, ![p].authority = TRUE]
  BY <1>2, <1>4 DEF MarkPaid
<1>6. PICK paid \in PaymentRows :
        /\ paid.status = "PAID" /\ paid.sale = s /\ paid.amount = payment[p].amount
        /\ payment' = [payment EXCEPT ![p] = paid]
  <2> DEFINE paid == [payment[p] EXCEPT !.status = "PAID", !.sale = s, !.authority = TRUE]
  <2>1. payment[p] \in PaymentRows
    BY RowTypes DEF IInv
  <2>2. paid \in PaymentRows /\ paid.status = "PAID" /\ paid.sale = s /\ paid.amount = payment[p].amount
    BY <2>1 DEF PaymentRows, Statuses
  <2>3. payment' = [payment EXCEPT ![p] = paid]
    BY <1>5
  <2> HIDE DEF paid
  <2> QED BY <2>2, <2>3
<1> DEFINE work == [job[r] EXCEPT !.kind = "notify"]
<1>7. work \in Jobs /\ work.kind = "notify" /\ work.payment = p /\ Goto(r, work)
  BY <1>1, <1>2, JobOf DEF IInv, Jobs, RequestKinds, MarkPaid
<1> HIDE DEF work
<1>8. job'[r] = work /\ \A w \in Workers \ {r} : job'[w] = job[w]
  BY <1>1, <1>7, GotoWrite DEF IInv
<1>9. JobsOK' /\ Alone'
  BY <1>1, <1>2, <1>7, GotoTyped, AloneGoesOn DEF IInv, RequestKinds
<1>10. \A w \in Workers \ {r} : ~Works(w, p) /\ ~Assigns(w, p)
  BY <1>1, <1>3 DEF IInv, Alone, Assigns, AdminSound
<1>11. UNCHANGED <<event, taken, stock, gateway, notified, edits, failures>> /\ stock' \in Items
  BY DEF MarkPaid, IInv, TypeOK, Items
<1>12. RequestSound(r)' /\ AdminSound(r)'
  BY <1>4, <1>6, <1>7, <1>8, <1>11, RowTypes DEF IInv, RequestSound, AdminSound, SaleKinds
<1>13. \A x \in Sales : sale[x].payment # p
  BY <1>3, EventSalesAssumption DEF IInv, SaleSound
<1>14. PICK row \in SaleRows :
        /\ row.live /\ row.payment = p /\ row.payable = payment[p].amount
        /\ sale' = [sale EXCEPT ![s] = row]
  BY <1>5, NewSaleRow, NoItemsType DEF IInv
<1>15. \A v \in Workers \ {r} :
         job'[v] = job[v] /\ ~Assigns(v, p) /\ (Works(v, p) => job[v].kind = "notify")
  BY <1>8, <1>10
<1>16. \A x \in Sales : sale[x].payment = p => ~sale[x].live
  BY <1>13
<1>17. sale[s] = NoSale /\ payment[p].status # "absent"
  BY <1>3, <1>5
<1>18. UNCHANGED <<event, taken, gateway, notified, edits, failures>> /\ stock' \in Items
  BY <1>11
<1> QED BY <1>1, <1>6, <1>9, <1>12, <1>14, <1>15, <1>16, <1>17, <1>18, SoldStep

(* A sale's row changes, and stays the sale it is; the worker ends.        *)
LEMMA SaleChanged ==
    ASSUME IInv, NEW s \in Sales, NEW row \in SaleRows, NEW w \in Workers,
           sale[s].payment # None, row.payment = sale[s].payment, row.live => sale[s].live,
           row.edited \/ row.payable = payment[row.payment].amount,
           sale' = [sale EXCEPT ![s] = row], stock' \in Items, Finish(w),
           UNCHANGED <<event, payment, taken, gateway, notified, edits, failures>>
    PROVE  IInv'
<1>1. /\ sale' \in [Sales -> SaleRows] /\ sale'[s] = row
      /\ \A x \in Sales \ {s} : sale'[x] = sale[x]
  BY RowTypes DEF IInv
<1>2. TypeOK'
  BY <1>1, RowTypes, TypesFromRows DEF IInv, TypeOK, Items
<1>3. job'[w] = Idle /\ \A v \in Workers \ {w} : job'[v] = job[v]
  BY GotoWrite DEF IInv, Finish
<1>4. JobsOK' /\ Alone'
  BY IdleIsNoWork, GotoTyped, AloneFinish DEF IInv, Finish
<1>5. ASSUME NEW v \in Workers
      PROVE  RequestSound(v)' /\ AdminSound(v)'
  <2>1. CASE v = w
    BY <1>3, <2>1, IdleIsNoWork DEF RequestSound, AdminSound, RequestKinds
  <2>2. CASE v # w
    <3>1. job'[v] = job[v]
      BY <1>3, <2>2
    <3>2. RequestSound(v)'
      BY <3>1 DEF IInv, RequestSound
    <3>3. CASE job[v].kind = "assign"
      <4>1. PICK q \in Payments : q = job[v].payment
        BY <3>3, JobOf DEF IInv
      <4>2. payment[q].status = "PAID" /\ payment[q].sale \in Sales
        BY <3>3, <4>1 DEF IInv, AdminSound, PaymentSound
      <4>3. sale'[payment[q].sale].live => sale[payment[q].sale].live
        BY <1>1, <4>2
      <4> QED BY <3>1, <3>2, <3>3, <4>1, <4>2, <4>3 DEF IInv, AdminSound, LiveSale, SaleKinds
    <3>4. CASE job[v].kind # "assign"
      <4>1. job[v].kind \in SaleKinds => job[v].sale \in Sales /\ sale[job[v].sale].payment # None
        BY JobOf DEF IInv, AdminSound
      <4>2. job[v].kind \in SaleKinds => sale'[job[v].sale].payment # None
        BY <1>1, <4>1
      <4> QED BY <3>1, <3>2, <3>4, <4>2 DEF AdminSound
    <3> QED BY <3>3, <3>4
  <2> QED BY <2>1, <2>2
<1>6. ASSUME NEW q \in Payments
      PROVE  PaymentSound(q)'
  BY <1>1 DEF IInv, PaymentSound
<1>7. ASSUME NEW x \in Sales
      PROVE  SaleSound(x)'
  BY <1>1 DEF IInv, SaleSound
<1> QED BY <1>2, <1>4, <1>5, <1>6, <1>7 DEF IInv

(* What an operation puts back and takes leaves the shelf above zero.      *)
LEMMA ShelfTyped ==
    ASSUME TypeOK, NEW old \in Items, NEW items \in Items
    PROVE  /\ Restored(old) \in Items
           /\ ~Lacking(Restored(old), items) =>
                [v \in Variants |-> Restored(old)[v] - items[v]] \in Items
<1>1. Restored(old) \in Items
  BY DEF Restored, TypeOK, Items
<1> HIDE DEF Restored
<1>2. ASSUME ~Lacking(Restored(old), items), NEW v \in Variants
      PROVE  Restored(old)[v] - items[v] \in Nat
  BY <1>1, <1>2 DEF Lacking, Items
<1> QED BY <1>1, <1>2 DEF Items

(* An operation that is refused leaves everything as it is.                *)
LEMMA Refused ==
    ASSUME IInv, NEW w \in Workers, Finish(w), UNCHANGED <<payment, sale, notified>>, TypeOK'
    PROVE  IInv'
<1>1. job'[w] = Idle /\ \A v \in Workers \ {w} : job'[v] = job[v]
  BY GotoWrite DEF IInv, Finish
<1>2. JobsOK' /\ Alone'
  BY IdleIsNoWork, GotoTyped, AloneFinish DEF IInv, Finish
<1>3. RequestSound(w)' /\ AdminSound(w)'
  BY <1>1, IdleIsNoWork DEF RequestSound, AdminSound, RequestKinds
<1> QED BY <1>1, <1>2, <1>3, RowsStay

LEMMA AssignItemsStep ==
    ASSUME IInv, NEW a \in Admins, AssignItems(a)
    PROVE  IInv'
<1> DEFINE j == job[a]
           shelf == Restored(j.old)
<1>1. a \in Workers /\ j.kind = "assign" /\ Finish(a)
      /\ UNCHANGED <<event, taken, gateway, notified, edits, failures>>
  BY DEF Workers, AssignItems
<1>2. j \in [kind : {"assign"}, payment : Payments, sale : Sales \cup {None}, items : Items, old : Items]
  BY <1>1, JobOf DEF IInv
<1>3. PICK p \in Payments : p = j.payment
  BY <1>2
<1>4. PICK items \in Items : items = j.items
  BY <1>2
<1>5. /\ Assigns(a, p) /\ payment[p].status = "PAID"
      /\ IF j.sale = None THEN ~LiveSale(p) ELSE j.sale = payment[p].sale
  BY <1>1, <1>3 DEF IInv, AdminSound, Assigns
<1>6. payment[p].sale \in Sales /\ sale[payment[p].sale].payment = p
  BY <1>5 DEF IInv, PaymentSound
<1>7. CASE Lacking(shelf, j.items)
  <2>1. UNCHANGED <<stock, sale, payment>>
    BY <1>7 DEF AssignItems
  <2>2. TypeOK'
    BY <1>1, <2>1 DEF IInv, TypeOK
  <2> QED BY <1>1, <2>1, <2>2, Refused
<1>8. CASE ~Lacking(shelf, j.items) /\ j.sale # None
  <2>1. PICK s \in Sales : s = j.sale /\ s = payment[p].sale
    BY <1>5, <1>6, <1>8
  <2>2. PICK row \in SaleRows :
          /\ row.payment = sale[s].payment /\ row.live = sale[s].live /\ row.payable = payment[p].amount
          /\ sale' = [sale EXCEPT ![s] = row]
    <3> DEFINE row == [sale[s] EXCEPT !.items = items, !.edited = FALSE, !.payable = payment[p].amount]
    <3>1. sale[s] \in SaleRows /\ payment[p] \in PaymentRows
      BY RowTypes DEF IInv
    <3>2. /\ row \in SaleRows /\ row.payment = sale[s].payment /\ row.live = sale[s].live
          /\ row.payable = payment[p].amount
      BY <3>1 DEF SaleRows, PaymentRows
    <3>3. sale' = [sale EXCEPT ![s] = row]
      BY <1>3, <1>4, <1>8, <2>1 DEF AssignItems
    <3> HIDE DEF row
    <3> QED BY <3>2, <3>3
  <2>3. stock' \in Items /\ UNCHANGED payment
    BY <1>2, <1>8, ShelfTyped DEF AssignItems, IInv
  <2>4. sale[s].payment # None /\ sale[s].payment = p
    BY <1>6, <2>1, <2>2, EventSalesAssumption
  <2>5. /\ row.payment = sale[s].payment /\ (row.live => sale[s].live)
        /\ row.edited \/ row.payable = payment[row.payment].amount
    BY <2>2, <2>4
  <2>6. UNCHANGED <<event, payment, taken, gateway, notified, edits, failures>>
    BY <1>1, <2>3
  <2> QED BY <1>1, <2>2, <2>3, <2>4, <2>5, <2>6, SaleChanged
<1>9. CASE ~Lacking(shelf, j.items) /\ j.sale = None
  <2>1. PICK s \in Sales :
          /\ sale[s] = NoSale /\ sale' = [sale EXCEPT ![s] = NewSale(p, items)]
          /\ payment' = [payment EXCEPT ![p].sale = s]
    BY <1>3, <1>4, <1>9 DEF AssignItems
  <2>2. PICK row \in SaleRows :
          /\ row.live /\ row.payment = p /\ row.payable = payment[p].amount
          /\ sale' = [sale EXCEPT ![s] = row]
    BY <2>1, NewSaleRow DEF IInv
  <2>3. PICK paid \in PaymentRows :
          /\ paid.status = "PAID" /\ paid.sale = s /\ paid.amount = payment[p].amount
          /\ payment' = [payment EXCEPT ![p] = paid]
    <3> DEFINE paid == [payment[p] EXCEPT !.sale = s]
    <3>1. payment[p] \in PaymentRows
      BY RowTypes DEF IInv
    <3>2. paid \in PaymentRows /\ paid.status = "PAID" /\ paid.sale = s /\ paid.amount = payment[p].amount
      BY <1>5, <3>1 DEF PaymentRows
    <3>3. payment' = [payment EXCEPT ![p] = paid]
      BY <2>1
    <3> HIDE DEF paid
    <3> QED BY <3>2, <3>3
  <2>4. stock' \in Items
    BY <1>2, <1>9, ShelfTyped DEF AssignItems, IInv
  <2>5. job'[a] = Idle /\ \A v \in Workers \ {a} : job'[v] = job[v]
    BY <1>1, GotoWrite DEF IInv, Finish
  <2>6. JobsOK' /\ Alone'
    BY <1>1, IdleIsNoWork, GotoTyped, AloneFinish DEF IInv, Finish
  <2>7. RequestSound(a)' /\ AdminSound(a)'
    BY <2>5, IdleIsNoWork DEF RequestSound, AdminSound, RequestKinds
  <2>8. \A x \in Sales : sale[x].payment = p => ~sale[x].live
    BY <1>5, <1>6, <1>9, EventSalesAssumption DEF IInv, SaleSound, LiveSale
  <2>9. sale[s] = NoSale /\ payment[p].status # "absent"
    BY <1>5, <2>1
  <2>10. \A v \in Workers \ {a} :
           job'[v] = job[v] /\ ~Assigns(v, p) /\ (Works(v, p) => job[v].kind = "notify")
    BY <1>1, <1>5, <2>5 DEF IInv, Alone, Works, RequestSound, RequestKinds
  <2>11. UNCHANGED <<event, taken, gateway, notified, edits, failures>> /\ stock' \in Items
    BY <1>1, <2>4
  <2> HIDE DEF j, shelf
  <2> QED BY <1>1, <2>2, <2>3, <2>6, <2>7, <2>8, <2>9, <2>10, <2>11, SoldStep
<1> QED BY <1>7, <1>8, <1>9

(* An operation begins with what it loads.                                 *)
LEMMA AssignBeginStep ==
    ASSUME IInv, NEW a \in Admins, NEW p \in Payments, NEW items \in Items, AssignBegin(a, p, items)
    PROVE  IInv'
<1> DEFINE work == [kind |-> "assign", payment |-> p, sale |-> Loaded(p), items |-> items,
                    old |-> IF Loaded(p) = None THEN NoItems ELSE sale[Loaded(p)].items]
<1>1. /\ a \in Workers /\ Goto(a, work) /\ payment[p].status = "PAID" /\ AssignLockFree(p)
      /\ UNCHANGED <<rows, gateway, notified, failures>> /\ edits < MaxEdits /\ edits' = edits + 1
  BY DEF Workers, AssignBegin, Begin
<1>2. payment[p].sale \in Sales
  BY <1>1 DEF IInv, PaymentSound
<1>3. /\ Loaded(p) \in Sales \cup {None}
      /\ IF Loaded(p) = None THEN ~LiveSale(p) ELSE Loaded(p) = payment[p].sale
  BY <1>2, EventSalesAssumption DEF Loaded, LiveSale
<1>4. (IF Loaded(p) = None THEN NoItems ELSE sale[Loaded(p)].items) \in Items
  BY <1>3, NoItemsType, RowTypes DEF IInv, SaleRows
<1>5. /\ work \in Jobs /\ work.kind = "assign" /\ work.payment = p /\ work.sale = Loaded(p)
  BY <1>3, <1>4 DEF Jobs
<1> HIDE DEF work
<1>6. TypeOK'
  BY <1>1, EventSalesAssumption DEF IInv, TypeOK, rows
<1>7. job'[a] = work /\ \A w \in Workers \ {a} : job'[w] = job[w]
  BY <1>1, GotoWrite DEF IInv
<1>8. JobsOK'
  BY <1>1, <1>5, GotoTyped DEF IInv, RequestKinds
<1>9. \A w \in Workers : ~Assigns(w, p)
  BY <1>1 DEF IInv, JobsOK, AssignLockFree, Assigns
<1>10. Alone'
  BY <1>5, <1>7, <1>9 DEF IInv, Alone, Works, Assigns, RequestKinds
<1>11. RequestSound(a)'
  BY <1>5, <1>7 DEF RequestSound
<1>12. AdminSound(a)'
  BY <1>1, <1>3, <1>5, <1>7 DEF AdminSound, SaleKinds, LiveSale, rows
<1> QED BY <1>1, <1>6, <1>7, <1>8, <1>10, <1>11, <1>12, RowsStay DEF rows

LEMMA LoadSaleStep ==
    ASSUME IInv, NEW a \in Admins, NEW s \in Sales, NEW kind \in SaleKinds, NEW items \in Items,
           LoadSale(a, s, kind, items)
    PROVE  IInv'
<1> DEFINE work == [kind |-> kind, sale |-> s, old |-> sale[s].items, items |-> items]
<1>1. /\ a \in Workers /\ Goto(a, work) /\ sale[s].live
      /\ UNCHANGED <<rows, gateway, notified, failures>> /\ edits < MaxEdits /\ edits' = edits + 1
  BY DEF Workers, LoadSale, Begin
<1>2. sale[s].items \in Items
  BY RowTypes DEF IInv, SaleRows
<1>3. work \in Jobs /\ work.kind = kind /\ work.sale = s
  BY <1>2 DEF Jobs
<1> HIDE DEF work
<1>4. sale[s].payment # None
  BY <1>1 DEF IInv, SaleSound, NoSale
<1>5. TypeOK'
  BY <1>1, EventSalesAssumption DEF IInv, TypeOK, rows
<1>6. job'[a] = work /\ \A w \in Workers \ {a} : job'[w] = job[w]
  BY <1>1, GotoWrite DEF IInv
<1>7. JobsOK'
  BY <1>1, <1>3, GotoTyped DEF IInv, RequestKinds, SaleKinds
<1>8. Alone'
  BY <1>3, <1>6 DEF IInv, Alone, Works, Assigns, RequestKinds, SaleKinds
<1>9. RequestSound(a)' /\ AdminSound(a)'
  BY <1>1, <1>3, <1>4, <1>6 DEF RequestSound, AdminSound, RequestKinds, SaleKinds, rows
<1> QED BY <1>1, <1>5, <1>6, <1>7, <1>8, <1>9, RowsStay DEF rows

LEMMA UpdateSaleStep ==
    ASSUME IInv, NEW a \in Admins, UpdateSale(a)
    PROVE  IInv'
<1>1. /\ a \in Workers /\ job[a].kind = "update" /\ Finish(a)
      /\ UNCHANGED <<event, payment, taken, gateway, notified, edits, failures>>
  BY DEF Workers, UpdateSale
<1>2. PICK s \in Sales, old \in Items, items \in Items :
        s = job[a].sale /\ old = job[a].old /\ items = job[a].items
  BY <1>1, JobOf DEF IInv, SaleKinds
<1>3. sale[s].payment # None
  BY <1>1, <1>2 DEF IInv, AdminSound, SaleKinds
<1>4. CASE Lacking(Restored(old), items)
  <2>1. UNCHANGED <<stock, sale>>
    BY <1>2, <1>4 DEF UpdateSale
  <2>2. TypeOK'
    BY <1>1, <2>1 DEF IInv, TypeOK
  <2> QED BY <1>1, <2>1, <2>2, Refused
<1>5. CASE ~Lacking(Restored(old), items)
  <2>1. PICK amount \in Amounts :
          sale' = [sale EXCEPT ![s].items = items, ![s].payable = amount, ![s].edited = TRUE]
    BY <1>2, <1>5 DEF UpdateSale
  <2>2. PICK row \in SaleRows :
          /\ row.payment = sale[s].payment /\ row.live = sale[s].live /\ row.edited
          /\ sale' = [sale EXCEPT ![s] = row]
    <3> DEFINE row == [sale[s] EXCEPT !.items = items, !.payable = amount, !.edited = TRUE]
    <3>1. sale[s] \in SaleRows /\ amount \in Nat
      BY RowTypes, EventSalesAssumption DEF IInv
    <3>2. row \in SaleRows /\ row.payment = sale[s].payment /\ row.live = sale[s].live /\ row.edited
      BY <3>1 DEF SaleRows
    <3>3. sale' = [sale EXCEPT ![s] = row]
      BY <2>1
    <3> HIDE DEF row
    <3> QED BY <3>2, <3>3
  <2>3. stock' \in Items
    <3>1. stock' = [v \in Variants |-> Restored(old)[v] - items[v]]
      BY <1>2, <1>5 DEF UpdateSale
    <3> QED BY <1>5, <3>1, ShelfTyped DEF IInv
  <2>4. /\ row.live => sale[s].live
        /\ row.edited \/ row.payable = payment[row.payment].amount
    BY <2>2
  <2> QED BY <1>1, <1>3, <2>2, <2>3, <2>4, SaleChanged
<1> QED BY <1>4, <1>5

LEMMA RemoveSaleStep ==
    ASSUME IInv, NEW a \in Admins, RemoveSale(a)
    PROVE  IInv'
<1>1. /\ a \in Workers /\ job[a].kind = "remove" /\ Finish(a)
      /\ UNCHANGED <<event, payment, taken, gateway, notified, edits, failures>>
  BY DEF Workers, RemoveSale
<1>2. PICK s \in Sales, old \in Items : s = job[a].sale /\ old = job[a].old
  BY <1>1, JobOf DEF IInv, SaleKinds
<1>3. sale[s].payment # None
  BY <1>1, <1>2 DEF IInv, AdminSound, SaleKinds
<1>4. PICK row \in SaleRows :
        /\ row.payment = sale[s].payment /\ ~row.live /\ sale' = [sale EXCEPT ![s] = row]
        /\ row.edited = sale[s].edited /\ row.payable = sale[s].payable
  <2> DEFINE row == [sale[s] EXCEPT !.live = FALSE]
  <2>1. sale[s] \in SaleRows
    BY RowTypes DEF IInv
  <2>2. /\ row \in SaleRows /\ row.payment = sale[s].payment /\ ~row.live
        /\ row.edited = sale[s].edited /\ row.payable = sale[s].payable
    BY <2>1 DEF SaleRows
  <2>3. sale' = [sale EXCEPT ![s] = row]
    BY <1>2 DEF RemoveSale
  <2> HIDE DEF row
  <2> QED BY <2>2, <2>3
<1>5. stock' \in Items
  BY <1>2, ShelfTyped DEF RemoveSale, IInv
<1>6. row.edited \/ row.payable = payment[row.payment].amount
  BY <1>3, <1>4 DEF IInv, SaleSound
<1> QED BY <1>1, <1>3, <1>4, <1>5, <1>6, SaleChanged

--------------------------------------------------------------------------------
(* Customers and events.                                                   *)

(* Nobody's work changes, and no payment or sale.                          *)
LEMMA NobodyWorks ==
    ASSUME IInv, UNCHANGED <<payment, sale, notified, job>>, TypeOK'
    PROVE  IInv'
<1>1. JobsOK' /\ Alone'
  BY DEF IInv, JobsOK, Alone, Works, Assigns
<1> QED BY <1>1, RowsStay

LEMMA CustomerSteps ==
    ASSUME IInv,
           \/ \E p \in Payments : CustomerPays(p)
           \/ \E v \in Variants : AddToBasket(v)
           \/ \E e \in Events : UpdateEvent(e) \/ RemoveEvent(e)
    PROVE  IInv'
<1>1. CASE \E p \in Payments : CustomerPays(p)
  <2>1. PICK p \in Payments : CustomerPays(p)
    BY <1>1
  <2>2. TypeOK'
    BY <2>1 DEF IInv, TypeOK, CustomerPays, rows
  <2> QED BY <2>1, <2>2, NobodyWorks DEF CustomerPays, rows
<1>2. CASE \E v \in Variants : AddToBasket(v)
  <2>1. PICK v \in Variants : AddToBasket(v)
    BY <1>2
  <2>2. stock \in Items /\ taken \in Items
    BY DEF IInv, TypeOK, Items
  <2>3. stock' \in Items /\ taken' \in Items
    BY <2>1, <2>2 DEF AddToBasket, Items
  <2>4. TypeOK'
    BY <2>1, <2>3 DEF IInv, TypeOK, AddToBasket, Items
  <2> QED BY <2>1, <2>4, NobodyWorks DEF AddToBasket
<1>3. CASE \E e \in Events : UpdateEvent(e) \/ RemoveEvent(e)
  <2>1. PICK e \in Events, state \in {"active", "paused", "removed"} : SetActive(e, state)
    BY <1>3 DEF UpdateEvent, RemoveEvent
  <2>2. TypeOK'
    BY <2>1, EventSalesAssumption DEF IInv, TypeOK, SetActive
  <2> QED BY <2>1, <2>2, NobodyWorks DEF SetActive
<1> QED BY <1>1, <1>2, <1>3

--------------------------------------------------------------------------------
(* The invariant.                                                          *)

LEMMA Initially ==
    ASSUME Init
    PROVE  IInv
<1>1. TypeOK
  BY EventSalesAssumption DEF Init, TypeOK, NoPayment, NoSale, NoItems
<1>2. job \in [Workers -> {Idle}]
  BY DEF Init, Workers
<1>3. JobsOK /\ Alone
  BY <1>2, IdleIsNoWork DEF JobsOK, Alone, Works, Assigns
<1>4. \A w \in Workers : RequestSound(w) /\ AdminSound(w)
  BY <1>2, IdleIsNoWork DEF RequestSound, AdminSound, RequestKinds
<1>5. \A p \in Payments : PaymentSound(p)
  BY DEF Init, PaymentSound, NoPayment
<1>6. \A s \in Sales : SaleSound(s)
  BY DEF Init, SaleSound, NoSale
<1> QED BY <1>1, <1>3, <1>4, <1>5, <1>6 DEF IInv

LEMMA Inductive ==
    ASSUME IInv, [Next]_vars
    PROVE  IInv'
<1>1. CASE UNCHANGED vars
  <2>1. TypeOK'
    BY <1>1 DEF IInv, TypeOK, vars, rows
  <2> QED BY <1>1, <2>1, NobodyWorks DEF vars, rows
<1>2. CASE \E r \in Requests, p \in Payments, e \in Events, amount \in Amounts,
              requested \in Providers \cup {None} : Create(r, p, e, amount, requested)
  BY <1>2, CreateStep
<1>3. CASE \E r \in Requests, p \in Payments : NotOk(r, p) \/ CallbackBegin(r, p)
  BY <1>3, NotOkStep, CallbackBeginStep
<1>4. CASE \E r \in Requests : RequestStep(r) \/ Fail(r)
  BY <1>4, RefusedSteps, GatewaySteps, StoreAuthorityStep, MarkPaidStep, NotifyAdminsStep, FailStep
  DEF RequestStep
<1>5. CASE \E a \in Admins, p \in Payments, items \in Baskets : AssignBegin(a, p, items)
  BY <1>5, AssignBeginStep, EventSalesAssumption DEF Items
<1>6. CASE \E a \in Admins, s \in Sales, items \in Baskets \ {NoItems} :
              LoadSale(a, s, "update", items)
  BY <1>6, LoadSaleStep, EventSalesAssumption DEF Items, SaleKinds
<1>7. CASE \E a \in Admins, s \in Sales : LoadSale(a, s, "remove", NoItems)
  BY <1>7, LoadSaleStep, NoItemsType DEF SaleKinds
<1>8. CASE \E a \in Admins : AssignItems(a) \/ UpdateSale(a) \/ RemoveSale(a)
  BY <1>8, AssignItemsStep, UpdateSaleStep, RemoveSaleStep
<1>9. CASE \/ \E p \in Payments : CustomerPays(p)
           \/ \E v \in Variants : AddToBasket(v)
           \/ \E e \in Events : UpdateEvent(e) \/ RemoveEvent(e)
  BY <1>9, CustomerSteps
<1> QED BY <1>1, <1>2, <1>3, <1>4, <1>5, <1>6, <1>7, <1>8, <1>9 DEF Next

LEMMA Invariant == Spec => []IInv
<1>1. Init => IInv
  BY Initially
<1>2. IInv /\ [Next]_vars => IInv'
  BY Inductive
<1> QED BY <1>1, <1>2, PTL DEF Spec

--------------------------------------------------------------------------------

(* Every row and every shelf has its type: whatever an assignment, an edit *)
(* or a removal writes from what it loaded before, no shelf falls below    *)
(* zero (assignItems and the offline sales' update and remove).            *)
THEOREM TypeCorrect == Spec => []TypeOK
<1>1. IInv => TypeOK
  BY DEF IInv
<1> QED BY <1>1, Invariant, PTL

(* Any number of callbacks, answers that are lost, assignments and edits   *)
(* leave a payment with at most one sale that stands, of the amount paid   *)
(* unless it was edited by hand, and only once it is paid; the managers    *)
(* are told at most once (markPaid, verifyCallback, assignItems).          *)
THEOREM PaymentsSoldOnce == Spec => []PaidSoldOnce
<1>1. ASSUME IInv, NEW p \in Payments
      PROVE  /\ payment[p].status = "PAID" <=> SalesOf(p) # {}
             /\ \A s, t \in SalesOf(p) : sale[s].live /\ sale[t].live => s = t
             /\ \A s \in SalesOf(p) : sale[s].edited \/ sale[s].payable = payment[p].amount
             /\ notified[p] <= 1
  <2>1. p # None
    BY EventSalesAssumption
  <2>2. ASSUME NEW s \in SalesOf(p)
        PROVE  /\ payment[p].status = "PAID" /\ (sale[s].live => s = payment[p].sale)
               /\ sale[s].edited \/ sale[s].payable = payment[p].amount
    BY <1>1, <2>1 DEF IInv, SaleSound, SalesOf
  <2>3. payment[p].status = "PAID" => payment[p].sale \in SalesOf(p)
    BY <1>1 DEF IInv, PaymentSound, SalesOf
  <2>4. notified[p] <= 1
    BY <1>1 DEF IInv, PaymentSound
  <2> QED BY <2>2, <2>3, <2>4
<1>2. IInv => PaidSoldOnce
  BY <1>1 DEF PaidSoldOnce
<1> QED BY <1>2, Invariant, PTL
--------------------------------------------------------------------------------
(* The ledger of units, while the page of offline sales is used one        *)
(* operation at a time.                                                    *)

(* Counting units: one entry of the count changes.                         *)
LEMMA UnitsOfOne ==
    ASSUME NEW x, NEW n \in Nat
    PROVE  IsFiniteSet({x} \X (1..n)) /\ Cardinality({x} \X (1..n)) = n
<1>1. IsFiniteSet({x}) /\ Cardinality({x}) = 1
  BY FS_Singleton
<1>2. IsFiniteSet(1..n) /\ Cardinality(1..n) = n
  BY FS_Interval
<1>3. /\ IsFiniteSet({x} \X (1..n))
      /\ Cardinality({x} \X (1..n)) = Cardinality({x}) * Cardinality(1..n)
  BY <1>1, <1>2, FS_Product
<1> QED BY <1>1, <1>2, <1>3

LEMMA UnitsFinite ==
    ASSUME NEW S, IsFiniteSet(S), NEW f \in [S -> Nat]
    PROVE  IsFiniteSet(UnitsIn(f)) /\ Cardinality(UnitsIn(f)) \in Nat
<1>1. PICK T : T = {{x} \X (1..f[x]) : x \in S}
  OBVIOUS
<1>2. PICK g : g = [x \in S |-> {x} \X (1..f[x])]
  OBVIOUS
<1>3. g \in Surjection(S, T)
  BY <1>1, <1>2 DEF Surjection
<1>4. IsFiniteSet(T)
  BY <1>3, FS_Surjection
<1>5. \A u \in T : IsFiniteSet(u)
  <2> SUFFICES ASSUME NEW x \in S PROVE IsFiniteSet({x} \X (1..f[x]))
    BY <1>1
  <2> QED BY UnitsOfOne
<1>6. UnitsIn(f) = UNION T
  BY <1>1 DEF UnitsIn
<1> QED BY <1>4, <1>5, <1>6, FS_UNION, FS_CardinalityType

LEMMA UnitsChange ==
    ASSUME NEW S, IsFiniteSet(S), NEW f \in [S -> Nat], NEW x \in S, NEW n \in Nat,
           NEW g, g = [f EXCEPT ![x] = n]
    PROVE  /\ Cardinality(UnitsIn(g)) = Cardinality(UnitsIn(f)) - f[x] + n
           /\ Cardinality(UnitsIn(f)) \in Nat /\ Cardinality(UnitsIn(g)) \in Nat
<1>1. g \in [S -> Nat] /\ g[x] = n /\ \A y \in S \ {x} : g[y] = f[y]
  OBVIOUS
<1>2. /\ IsFiniteSet(UnitsIn(f)) /\ Cardinality(UnitsIn(f)) \in Nat
      /\ IsFiniteSet(UnitsIn(g)) /\ Cardinality(UnitsIn(g)) \in Nat
  BY <1>1, UnitsFinite
<1>3. PICK R : R = UNION {{y} \X (1..f[y]) : y \in S \ {x}}
  OBVIOUS
<1>4. UnitsIn(f) = R \cup ({x} \X (1..f[x])) /\ R \cap ({x} \X (1..f[x])) = {}
  BY <1>3 DEF UnitsIn
<1>5. UnitsIn(g) = R \cup ({x} \X (1..n)) /\ R \cap ({x} \X (1..n)) = {}
  BY <1>1, <1>3 DEF UnitsIn
<1>6. IsFiniteSet(R) /\ Cardinality(R) \in Nat
  BY <1>2, <1>4, FS_Subset, FS_CardinalityType
<1>7. Cardinality(UnitsIn(f)) = Cardinality(R) + f[x]
  <2>1. f[x] \in Nat
    OBVIOUS
  <2>2. IsFiniteSet({x} \X (1..f[x])) /\ Cardinality({x} \X (1..f[x])) = f[x]
    BY <2>1, UnitsOfOne
  <2>3. Cardinality(R \cap ({x} \X (1..f[x]))) = 0
    BY <1>4, FS_EmptySet
  <2>4. Cardinality(R \cup ({x} \X (1..f[x])))
          = Cardinality(R) + Cardinality({x} \X (1..f[x])) - Cardinality(R \cap ({x} \X (1..f[x])))
    BY <1>6, <2>2, FS_Union
  <2> QED BY <1>4, <1>6, <2>1, <2>2, <2>3, <2>4
<1>8. Cardinality(UnitsIn(g)) = Cardinality(R) + n
  <2>1. IsFiniteSet({x} \X (1..n)) /\ Cardinality({x} \X (1..n)) = n
    BY UnitsOfOne
  <2>2. Cardinality(R \cap ({x} \X (1..n))) = 0
    BY <1>5, FS_EmptySet
  <2>3. Cardinality(R \cup ({x} \X (1..n)))
          = Cardinality(R) + Cardinality({x} \X (1..n)) - Cardinality(R \cap ({x} \X (1..n)))
    BY <1>6, <2>1, FS_Union
  <2>4. Cardinality(UnitsIn(g)) = Cardinality(R \cup ({x} \X (1..n)))
    BY <1>5
  <2> QED BY <1>6, <2>1, <2>2, <2>3, <2>4
<1> QED BY <1>2, <1>6, <1>7, <1>8

LEMMA NothingCounted ==
    ASSUME NEW S, IsFiniteSet(S), NEW f, f = [x \in S |-> 0]
    PROVE  Cardinality(UnitsIn(f)) = 0
<1>1. UnitsIn(f) = {}
  BY DEF UnitsIn
<1> QED BY <1>1, FS_EmptySet

SaleUnits(row, v) == IF row.live THEN row.items[v] ELSE 0

LEMMA SoldTyped ==
    ASSUME TypeOK, NEW v \in Variants
    PROVE  [s \in Sales |-> SoldIn(s, v)] \in [Sales -> Nat] /\ Sold(v) \in Nat
<1>1. [s \in Sales |-> SoldIn(s, v)] \in [Sales -> Nat]
  BY RowTypes DEF SoldIn, SaleRows, Items
<1> QED BY <1>1, UnitsFinite, EventSalesAssumption DEF Sold

(* One sale's row changes: the ledger changes by its units.                *)
LEMMA SoldChange ==
    ASSUME TypeOK, NEW s \in Sales, NEW row \in SaleRows, NEW v \in Variants,
           sale' = [sale EXCEPT ![s] = row]
    PROVE  Sold(v)' = Sold(v) - SaleUnits(sale[s], v) + SaleUnits(row, v)
<1>1. PICK f : f = [x \in Sales |-> SoldIn(x, v)]
  OBVIOUS
<1>2. PICK g : g = [x \in Sales |-> SoldIn(x, v)']
  OBVIOUS
<1>3. sale'[s] = row /\ \A x \in Sales \ {s} : sale'[x] = sale[x]
  BY RowTypes
<1>4. f \in [Sales -> Nat] /\ f[s] = SaleUnits(sale[s], v)
  BY <1>1, SoldTyped DEF SoldIn, SaleUnits
<1>5. PICK n \in Nat : n = SaleUnits(row, v)
  BY DEF SaleUnits, SaleRows, Items
<1>6. g = [f EXCEPT ![s] = n]
  BY <1>1, <1>2, <1>3, <1>5 DEF SoldIn, SaleUnits
<1>7. IsFiniteSet(Sales) /\ f \in [Sales -> Nat]
  BY <1>4, EventSalesAssumption
<1>8. Cardinality(UnitsIn(g)) = Cardinality(UnitsIn(f)) - f[s] + n
  BY <1>6, <1>7, UnitsChange
<1> QED BY <1>1, <1>2, <1>4, <1>5, <1>8 DEF Sold

PageKinds == SaleKinds \cup {"assign"}

(* What an operation has loaded is still so: nobody else edits the sale.   *)
Remembers(w) ==
    job[w].kind \in PageKinds =>
        IF job[w].sale = None THEN job[w].old = NoItems
        ELSE sale[job[w].sale].live /\ job[w].old = sale[job[w].sale].items

(* Who uses the page is alone with the sales, but for requests.            *)
PageAlone(w) ==
    job[w].kind \in SaleKinds =>
        w \in Admins /\ \A v \in Workers : job[v].kind \in PageKinds => v = w

LedgerInv ==
    /\ IInv /\ ShelfBalanced
    /\ \A w \in Workers : Remembers(w) /\ PageAlone(w)

(* The sales and the shelf stay, and no operation of the page begins.      *)
LEMMA QuietStep ==
    ASSUME LedgerInv, IInv', UNCHANGED <<sale, stock, taken>>,
           \A w \in Workers : job'[w] = job[w] \/ job'[w].kind \notin PageKinds
    PROVE  LedgerInv'
<1>1. ASSUME NEW w \in Workers PROVE Remembers(w)' /\ PageAlone(w)'
  BY DEF LedgerInv, Remembers, PageAlone, PageKinds
<1>2. ShelfBalanced'
  <2>1. \A v \in Variants : Sold(v)' = Sold(v)
    BY DEF Sold, SoldIn
  <2> QED BY <2>1 DEF LedgerInv, ShelfBalanced
<1> QED BY <1>1, <1>2 DEF LedgerInv

(* One sale changes; what it gives up and takes is what the shelf gets and *)
(* gives.                                                                  *)
Moves(s, row, old, new) ==
    \A v \in Variants : /\ stock'[v] = (stock[v] + old[v]) - new[v]
                        /\ SaleUnits(sale[s], v) = old[v] /\ SaleUnits(row, v) = new[v]
OnlyOneOn(w, s) == \A x \in Workers \ {w} : job[x].kind \in PageKinds => job[x].sale # s

LEMMA WrittenStep ==
    ASSUME LedgerInv, IInv', NEW w \in Workers, NEW s \in Sales, NEW row \in SaleRows,
           NEW old \in Items, NEW new \in Items,
           sale' = [sale EXCEPT ![s] = row], UNCHANGED taken,
           Moves(s, row, old, new), OnlyOneOn(w, s),
           job'[w].kind \notin PageKinds, \A x \in Workers \ {w} : job'[x] = job[x]
    PROVE  LedgerInv'
<1>1. TypeOK /\ sale \in [Sales -> SaleRows]
  BY RowTypes DEF LedgerInv, IInv
<1>2. ASSUME NEW x \in Workers PROVE Remembers(x)' /\ PageAlone(x)'
  <2>1. CASE x = w
    BY <2>1 DEF Remembers, PageAlone, PageKinds
  <2>2. CASE x # w
    <3>1. job'[x] = job[x] /\ (job[x].kind \in PageKinds => job[x].sale # s)
      BY <2>2 DEF OnlyOneOn
    <3>2. job[x].kind \in PageKinds => job[x].sale \in Sales \cup {None}
      BY JobOf DEF LedgerInv, IInv, PageKinds
    <3>3. Remembers(x)'
      BY <1>1, <3>1, <3>2 DEF LedgerInv, Remembers
    <3>4. PageAlone(x)'
      BY <3>1 DEF LedgerInv, PageAlone, PageKinds
    <3> QED BY <3>3, <3>4
  <2> QED BY <2>1, <2>2
<1>3. ASSUME NEW v \in Variants PROVE stock'[v] + taken'[v] + Sold(v)' = ShelfStock
  <2>1. PICK a, b, c, d, e : /\ a = stock[v] /\ b = taken[v] /\ c = Sold(v)
                             /\ d = old[v] /\ e = new[v]
    OBVIOUS
  <2>2. a \in Nat /\ b \in Nat /\ c \in Nat /\ d \in Nat /\ e \in Nat
    BY <1>1, <2>1, SoldTyped DEF TypeOK, Items
  <2>3. a + b + c = ShelfStock
    BY <2>1 DEF LedgerInv, ShelfBalanced
  <2>4. Sold(v)' = Sold(v) - SaleUnits(sale[s], v) + SaleUnits(row, v)
    BY <1>1, SoldChange
  <2>5. Sold(v)' = c - d + e
    BY <2>1, <2>4 DEF Moves
  <2>6. stock'[v] = (a + d) - e /\ taken'[v] = b
    BY <2>1 DEF Moves
  <2> QED BY <2>2, <2>3, <2>5, <2>6
<1> QED BY <1>2, <1>3 DEF LedgerInv, ShelfBalanced

(* No operation of the page works on a row that no sale has yet.           *)
LEMMA NobodyLoaded ==
    ASSUME LedgerInv, NEW s \in Sales, sale[s] = NoSale, NEW x \in Workers, job[x].kind \in PageKinds
    PROVE  job[x].sale # s
<1>1. s # None /\ ~sale[s].live
  BY EventSalesAssumption DEF NoSale
<1> QED BY <1>1 DEF LedgerInv, Remembers

(* A worker's job that is none of the page's.                              *)
LEMMA QuietJob ==
    ASSUME LedgerInv, IInv', UNCHANGED <<sale, stock, taken>>,
           NEW w \in Workers, NEW work, Goto(w, work), work.kind \notin PageKinds
    PROVE  LedgerInv'
<1>1. job'[w] = work /\ \A x \in Workers \ {w} : job'[x] = job[x]
  BY GotoWrite DEF LedgerInv, IInv
<1>2. \A x \in Workers : job'[x] = job[x] \/ job'[x].kind \notin PageKinds
  BY <1>1
<1> QED BY <1>2, QuietStep

LEMMA QuietRequests ==
    ASSUME LedgerInv, IInv', NEW r \in Requests,
           \/ \E p \in Payments, e \in Events, amount \in Amounts, requested \in Providers \cup {None} :
                Create(r, p, e, amount, requested)
           \/ \E p \in Payments : NotOk(r, p) \/ CallbackBegin(r, p)
           \/ RequestRefused(r) \/ RequestAccepted(r) \/ RequestMocked(r) \/ StoreAuthority(r)
           \/ VerifySucceeds(r) \/ VerifyRefused(r) \/ NotifyAdmins(r) \/ Fail(r)
    PROVE  LedgerInv'
<1>1. UNCHANGED <<sale, stock, taken>> /\ r \in Workers
  BY DEF Workers, Create, NotOk, CallbackBegin, RequestRefused, RequestAccepted, RequestMocked,
         StoreAuthority, VerifySucceeds, VerifyRefused, NotifyAdmins, Fail, rows
<1>2. Idle.kind \notin PageKinds
  BY IdleIsNoWork DEF PageKinds
<1>3. CASE UNCHANGED job
  BY <1>1, <1>3, QuietStep
<1>4. CASE Finish(r)
  BY <1>1, <1>2, <1>4, QuietJob DEF Finish
<1>5. CASE \E p \in Payments, e \in Events, amount \in Amounts, requested \in Providers \cup {None} :
               Create(r, p, e, amount, requested)
  <2>1. PICK p \in Payments : Goto(r, [kind |-> "request", payment |-> p])
    BY <1>5 DEF Create
  <2> QED BY <1>1, <2>1, QuietJob DEF PageKinds, SaleKinds
<1>6. CASE \E p \in Payments : CallbackBegin(r, p)
  <2>1. PICK p \in Payments : Goto(r, [kind |-> "verify", payment |-> p])
    BY <1>6 DEF CallbackBegin
  <2> QED BY <1>1, <2>1, QuietJob DEF PageKinds, SaleKinds
<1>7. CASE RequestAccepted(r) \/ RequestMocked(r) \/ VerifySucceeds(r)
  <2>1. job[r].kind \in {"request", "verify"}
    BY <1>7 DEF RequestAccepted, RequestMocked, VerifySucceeds
  <2>2. job[r] \in [kind : RequestKinds, payment : Payments]
    BY <1>1, <2>1, JobOf DEF LedgerInv, IInv, RequestKinds
  <2>3. PICK kind \in {"store", "mark"} : Goto(r, [job[r] EXCEPT !.kind = kind])
    BY <1>7 DEF RequestAccepted, RequestMocked, VerifySucceeds
  <2>4. [job[r] EXCEPT !.kind = kind].kind = kind
    BY <2>2
  <2> QED BY <1>1, <2>3, <2>4, QuietJob DEF PageKinds, SaleKinds
<1> QED
  <2>1. \/ UNCHANGED job \/ Finish(r)
        \/ \E p \in Payments, e \in Events, amount \in Amounts, requested \in Providers \cup {None} :
               Create(r, p, e, amount, requested)
        \/ \E p \in Payments : CallbackBegin(r, p)
        \/ RequestAccepted(r) \/ RequestMocked(r) \/ VerifySucceeds(r)
    BY DEF NotOk, RequestRefused, StoreAuthority, VerifyRefused, NotifyAdmins, Fail
  <2> QED BY <2>1, <1>3, <1>4, <1>5, <1>6, <1>7

(* The sale of a payment begins without items.                             *)
LEMMA MarkPaidLedger ==
    ASSUME LedgerInv, IInv', NEW r \in Requests, MarkPaid(r)
    PROVE  LedgerInv'
<1>1. r \in Workers /\ job[r].kind = "mark" /\ UNCHANGED <<stock, taken>> /\ IInv
  BY DEF Workers, MarkPaid, LedgerInv
<1>2. PICK p \in Payments : p = job[r].payment
  BY <1>1, JobOf DEF IInv, RequestKinds
<1>3. Unsold(p)
  BY <1>1, <1>2 DEF IInv, RequestSound, PaymentSound, Unsold
<1>4. PICK s \in Sales : sale[s] = NoSale /\ sale' = [sale EXCEPT ![s] = NewSale(p, NoItems)]
  BY <1>2, <1>3 DEF MarkPaid
<1>5. PICK row : row = NewSale(p, NoItems)
  OBVIOUS
<1>6. row \in SaleRows /\ NoItems \in Items
  BY <1>1, <1>5, NewSaleRow, NoItemsType DEF IInv
<1>7. \A v \in Variants : SaleUnits(sale[s], v) = NoItems[v] /\ SaleUnits(row, v) = NoItems[v]
  BY <1>4, <1>5 DEF SaleUnits, NoSale, NewSale, NoItems
<1>8. \A v \in Variants : stock'[v] = (stock[v] + NoItems[v]) - NoItems[v]
  BY <1>1 DEF NoItems, IInv, TypeOK
<1>9. Goto(r, [job[r] EXCEPT !.kind = "notify"])
  BY DEF MarkPaid
<1>10. job'[r].kind \notin PageKinds /\ \A x \in Workers \ {r} : job'[x] = job[x]
  <2>1. job[r] \in [kind : RequestKinds, payment : Payments]
    BY <1>1, JobOf DEF IInv, RequestKinds
  <2> QED BY <1>1, <1>9, <2>1, GotoWrite DEF IInv, PageKinds, SaleKinds
<1>11. \A x \in Workers : job[x].kind \in PageKinds => job[x].sale # s
  BY <1>4, NobodyLoaded
<1>12. sale' = [sale EXCEPT ![s] = row]
  BY <1>4, <1>5
<1>13. Moves(s, row, NoItems, NoItems) /\ OnlyOneOn(r, s)
  BY <1>7, <1>8, <1>11 DEF Moves, OnlyOneOn
<1> QED BY <1>1, <1>6, <1>10, <1>12, <1>13, WrittenStep

(* The end of an operation of the page, when it writes.                    *)
LEMMA PageWrites ==
    ASSUME LedgerInv, IInv', NEW a \in Admins, Finish(a), NEW s \in Sales, NEW row \in SaleRows,
           NEW old \in Items, NEW new \in Items,
           sale' = [sale EXCEPT ![s] = row], UNCHANGED taken,
           Moves(s, row, old, new), OnlyOneOn(a, s)
    PROVE  LedgerInv'
<1>1. a \in Workers /\ IInv
  BY DEF Workers, LedgerInv
<1>2. job'[a] = Idle /\ \A x \in Workers \ {a} : job'[x] = job[x]
  BY <1>1, GotoWrite DEF IInv, Finish
<1>3. job'[a].kind \notin PageKinds
  BY <1>2, IdleIsNoWork DEF PageKinds
<1> QED BY <1>1, <1>2, <1>3, WrittenStep

LEMMA AssignLedger ==
    ASSUME LedgerInv, IInv', NEW a \in Admins, AssignItems(a)
    PROVE  LedgerInv'
<1>1. /\ a \in Workers /\ job[a].kind = "assign" /\ Finish(a) /\ UNCHANGED taken /\ IInv
      /\ Idle.kind \notin PageKinds
  BY IdleIsNoWork DEF Workers, AssignItems, LedgerInv, PageKinds
<1>2. job[a] \in [kind : {"assign"}, payment : Payments, sale : Sales \cup {None}, items : Items, old : Items]
  BY <1>1, JobOf DEF IInv
<1>3. PICK p \in Payments, old \in Items, new \in Items :
        p = job[a].payment /\ old = job[a].old /\ new = job[a].items
  BY <1>2
<1>4. CASE Lacking(Restored(old), new)
  <2>1. UNCHANGED <<sale, stock, taken>>
    BY <1>1, <1>3, <1>4 DEF AssignItems
  <2> QED BY <1>1, <2>1, QuietJob DEF Finish
<1>5. CASE ~Lacking(Restored(old), new)
  <2>1. \A v \in Variants : stock'[v] = (stock[v] + old[v]) - new[v]
    BY <1>3, <1>5 DEF AssignItems, Restored
  <2>2. CASE job[a].sale # None
    <3>1. PICK s \in Sales : s = job[a].sale /\ s = payment[p].sale /\ sale[s].payment = p
      BY <1>1, <1>2, <1>3, <2>2 DEF IInv, AdminSound, PaymentSound
    <3>2. sale[s].live /\ sale[s].items = old /\ sale[s] \in SaleRows
      BY <1>1, <1>3, <2>2, <3>1, RowTypes DEF LedgerInv, IInv, Remembers, PageKinds
    <3>3. PICK row : row = [sale[s] EXCEPT !.items = new, !.edited = FALSE, !.payable = payment[p].amount]
      OBVIOUS
    <3>4. row \in SaleRows /\ row.live /\ row.items = new
      BY <1>1, <3>2, <3>3, RowTypes DEF IInv, SaleRows, PaymentRows
    <3>5. sale' = [sale EXCEPT ![s] = row]
      BY <1>3, <1>5, <2>2, <3>1, <3>3 DEF AssignItems
    <3>6. ASSUME NEW x \in Workers \ {a}, job[x].kind \in PageKinds PROVE job[x].sale # s
      <4>1. job[x].kind = "assign"
        BY <1>1, <3>6 DEF LedgerInv, PageAlone, PageKinds
      <4>2. PICK q \in Payments : q = job[x].payment
        BY <4>1, <1>1, JobOf DEF IInv
      <4>3. q # p
        BY <1>1, <1>3, <4>1, <4>2 DEF IInv, Alone, Assigns
      <4>4. job[x].sale # None => sale[job[x].sale].payment = q
        BY <1>1, <4>1, <4>2 DEF IInv, AdminSound, PaymentSound
      <4> QED BY <3>1, <4>3, <4>4, EventSalesAssumption
    <3>7. \A v \in Variants : SaleUnits(sale[s], v) = old[v] /\ SaleUnits(row, v) = new[v]
      BY <3>2, <3>4 DEF SaleUnits
    <3>8. Moves(s, row, old, new) /\ OnlyOneOn(a, s)
      BY <2>1, <3>6, <3>7 DEF Moves, OnlyOneOn
    <3> QED BY <1>1, <3>4, <3>5, <3>8, PageWrites
  <2>3. CASE job[a].sale = None
    <3>1. PICK s \in Sales : sale[s] = NoSale /\ sale' = [sale EXCEPT ![s] = NewSale(p, new)]
      BY <1>3, <1>5, <2>3 DEF AssignItems
    <3>2. PICK row : row = NewSale(p, new)
      OBVIOUS
    <3>3. row \in SaleRows /\ sale' = [sale EXCEPT ![s] = row]
      BY <1>1, <3>1, <3>2, NewSaleRow DEF IInv
    <3>4. old = NoItems
      BY <1>1, <1>3, <2>3 DEF LedgerInv, Remembers, PageKinds
    <3>5. \A v \in Variants : SaleUnits(sale[s], v) = old[v] /\ SaleUnits(row, v) = new[v]
      BY <3>1, <3>2, <3>4 DEF SaleUnits, NoSale, NewSale, NoItems
    <3>6. \A x \in Workers \ {a} : job[x].kind \in PageKinds => job[x].sale # s
      BY <3>1, NobodyLoaded
    <3>7. Moves(s, row, old, new) /\ OnlyOneOn(a, s)
      BY <2>1, <3>5, <3>6 DEF Moves, OnlyOneOn
    <3> QED BY <1>1, <3>3, <3>7, PageWrites
  <2> QED BY <2>2, <2>3
<1> QED BY <1>4, <1>5

LEMMA SalePageLedger ==
    ASSUME LedgerInv, IInv', NEW a \in Admins, UpdateSale(a) \/ RemoveSale(a)
    PROVE  LedgerInv'
<1>1. /\ a \in Workers /\ job[a].kind \in SaleKinds /\ Finish(a) /\ UNCHANGED taken /\ IInv
      /\ Idle.kind \notin PageKinds
  BY IdleIsNoWork DEF Workers, UpdateSale, RemoveSale, LedgerInv, SaleKinds, PageKinds
<1>2. PICK s \in Sales, old \in Items, new \in Items :
        s = job[a].sale /\ old = job[a].old /\ new = job[a].items
  BY <1>1, JobOf DEF IInv
<1>3. sale[s].live /\ sale[s].items = old /\ sale[s] \in SaleRows /\ s # None
  BY <1>1, <1>2, RowTypes, EventSalesAssumption DEF LedgerInv, IInv, Remembers, PageKinds
<1>4. \A x \in Workers \ {a} : job[x].kind \notin PageKinds
  BY <1>1 DEF LedgerInv, PageAlone
<1>5. \A v \in Variants : SaleUnits(sale[s], v) = old[v]
  BY <1>3 DEF SaleUnits
<1>6. CASE UpdateSale(a) /\ Lacking(Restored(old), new)
  <2>1. UNCHANGED <<sale, stock, taken>>
    BY <1>2, <1>6 DEF UpdateSale
  <2> QED BY <1>1, <2>1, QuietJob DEF Finish
<1>7. CASE UpdateSale(a) /\ ~Lacking(Restored(old), new)
  <2>1. \A v \in Variants : stock'[v] = (stock[v] + old[v]) - new[v]
    BY <1>2, <1>7 DEF UpdateSale, Restored
  <2>2. PICK amount \in Amounts :
          sale' = [sale EXCEPT ![s].items = new, ![s].payable = amount, ![s].edited = TRUE]
    BY <1>2, <1>7 DEF UpdateSale
  <2>3. PICK row : row = [sale[s] EXCEPT !.items = new, !.payable = amount, !.edited = TRUE]
    OBVIOUS
  <2>4. row \in SaleRows /\ row.live /\ row.items = new
    BY <1>3, <2>3, EventSalesAssumption DEF SaleRows
  <2>5. sale' = [sale EXCEPT ![s] = row]
    BY <2>2, <2>3
  <2>6. \A v \in Variants : SaleUnits(row, v) = new[v]
    BY <2>4 DEF SaleUnits
  <2>7. Moves(s, row, old, new) /\ OnlyOneOn(a, s)
    BY <1>4, <1>5, <2>1, <2>6 DEF Moves, OnlyOneOn
  <2> QED BY <1>1, <2>4, <2>5, <2>7, PageWrites
<1>8. CASE RemoveSale(a)
  <2>1. \A v \in Variants : stock'[v] = (stock[v] + old[v]) - NoItems[v]
    <3>1. stock \in Items
      BY <1>1 DEF IInv, TypeOK, Items
    <3> QED BY <1>2, <1>8, <3>1 DEF RemoveSale, Restored, NoItems, Items
  <2>2. PICK row : row = [sale[s] EXCEPT !.live = FALSE]
    OBVIOUS
  <2>3. row \in SaleRows /\ ~row.live
    BY <1>3, <2>2 DEF SaleRows
  <2>4. sale' = [sale EXCEPT ![s] = row]
    BY <1>2, <1>8, <2>2 DEF RemoveSale
  <2>5. \A v \in Variants : SaleUnits(row, v) = NoItems[v]
    BY <2>3 DEF SaleUnits, NoItems
  <2>6. Moves(s, row, old, NoItems) /\ OnlyOneOn(a, s)
    BY <1>4, <1>5, <2>1, <2>5 DEF Moves, OnlyOneOn
  <2> QED BY <1>1, <2>3, <2>4, <2>6, NoItemsType, PageWrites
<1> QED BY <1>6, <1>7, <1>8

(* An operation of the page begins, with what it loads.                    *)
LEMMA LoadedStep ==
    ASSUME LedgerInv, IInv', NEW a \in Admins, NEW work, Begin(a, work),
           work.sale = None => work.old = NoItems,
           work.sale # None => sale[work.sale].live /\ work.old = sale[work.sale].items,
           \A x \in Workers : job[x].kind \notin SaleKinds,
           work.kind \in SaleKinds => \A x \in Workers : job[x].kind # "assign"
    PROVE  LedgerInv'
<1>1. a \in Workers /\ Goto(a, work) /\ UNCHANGED <<sale, stock, taken>> /\ IInv
  BY DEF Workers, Begin, LedgerInv, rows
<1>2. job'[a] = work /\ \A x \in Workers \ {a} : job'[x] = job[x]
  BY <1>1, GotoWrite DEF IInv
<1>3. ASSUME NEW x \in Workers PROVE Remembers(x)' /\ PageAlone(x)'
  <2>1. CASE x = a
    BY <1>1, <1>2, <2>1 DEF Remembers, PageAlone, PageKinds
  <2>2. CASE x # a
    BY <1>1, <1>2, <2>2 DEF LedgerInv, Remembers, PageAlone, PageKinds
  <2> QED BY <2>1, <2>2
<1>4. ShelfBalanced'
  <2>1. \A v \in Variants : Sold(v)' = Sold(v)
    BY <1>1 DEF Sold, SoldIn
  <2> QED BY <1>1, <2>1 DEF LedgerInv, ShelfBalanced
<1> QED BY <1>3, <1>4 DEF LedgerInv

LEMMA AssignBeginLedger ==
    ASSUME LedgerInv, IInv', Serial, NEW a \in Admins, NEW p \in Payments, NEW items,
           AssignBegin(a, p, items)
    PROVE  LedgerInv'
<1>1. PICK old : old = IF Loaded(p) = None THEN NoItems ELSE sale[Loaded(p)].items
  OBVIOUS
<1>2. PICK work : work = [kind |-> "assign", payment |-> p, sale |-> Loaded(p), items |-> items, old |-> old]
  OBVIOUS
<1>3. /\ Begin(a, work) /\ work.kind = "assign" /\ work.sale = Loaded(p) /\ work.old = old
      /\ \A b \in Admins : job[b].kind \notin SaleKinds
  BY <1>1, <1>2 DEF AssignBegin, SaleKinds
<1>4. \A x \in Workers : job[x].kind \notin SaleKinds
  BY <1>3 DEF LedgerInv, PageAlone
<1>5. Loaded(p) # None => sale[Loaded(p)].live
  BY DEF Loaded, LiveSale
<1>6. work.kind \notin SaleKinds
  BY <1>3 DEF SaleKinds
<1>7. work.sale = None => work.old = NoItems
  BY <1>1, <1>3
<1>8. work.sale # None => sale[work.sale].live /\ work.old = sale[work.sale].items
  BY <1>1, <1>3, <1>5
<1> QED BY <1>3, <1>4, <1>6, <1>7, <1>8, LoadedStep

LEMMA LoadSaleLedger ==
    ASSUME LedgerInv, IInv', Serial, NEW a \in Admins, NEW s \in Sales, NEW kind \in SaleKinds,
           NEW items, LoadSale(a, s, kind, items)
    PROVE  LedgerInv'
<1>1. PICK work : work = [kind |-> kind, sale |-> s, old |-> sale[s].items, items |-> items]
  OBVIOUS
<1>2. /\ Begin(a, work) /\ work.kind = kind /\ work.sale = s /\ work.old = sale[s].items /\ sale[s].live
      /\ \A b \in Admins : job[b].kind \notin PageKinds
  BY <1>1 DEF LoadSale, SaleKinds, PageKinds
<1>3. \A x \in Workers : job[x].kind \notin PageKinds
  BY <1>2 DEF LedgerInv, IInv, JobsOK, PageAlone, PageKinds
<1>4. /\ \A x \in Workers : job[x].kind \notin SaleKinds
      /\ \A x \in Workers : job[x].kind # "assign"
  BY <1>3 DEF PageKinds
<1>5. s # None
  BY EventSalesAssumption
<1> QED BY <1>2, <1>4, <1>5, LoadedStep

(* A customer takes a unit; the shop is asked nothing else.                *)
LEMMA CustomerLedger ==
    ASSUME LedgerInv, IInv', NEW v \in Variants, AddToBasket(v)
    PROVE  LedgerInv'
<1>1. /\ stock \in Items /\ taken \in Items /\ UNCHANGED <<sale, job>>
      /\ stock' = [stock EXCEPT ![v] = @ - 1] /\ taken' = [taken EXCEPT ![v] = @ + 1]
  BY DEF LedgerInv, IInv, TypeOK, AddToBasket, Items
<1>2. ASSUME NEW x \in Variants PROVE stock'[x] + taken'[x] + Sold(x)' = ShelfStock
  <2>1. Sold(x)' = Sold(x) /\ Sold(x) \in Nat
    BY <1>1, SoldTyped DEF Sold, SoldIn, LedgerInv, IInv
  <2>2. stock[x] + taken[x] + Sold(x) = ShelfStock
    BY DEF LedgerInv, ShelfBalanced
  <2>3. stock[x] \in Nat /\ taken[x] \in Nat
    BY <1>1 DEF Items
  <2>4. stock'[x] + taken'[x] = stock[x] + taken[x]
    BY <1>1, <2>3 DEF Items
  <2> QED BY <2>1, <2>2, <2>4
<1>3. \A w \in Workers : Remembers(w)' /\ PageAlone(w)'
  BY <1>1 DEF LedgerInv, Remembers, PageAlone
<1> QED BY <1>2, <1>3 DEF LedgerInv, ShelfBalanced

LEMMA LedgerInitially ==
    ASSUME Init
    PROVE  LedgerInv
<1>1. IInv
  BY Initially
<1>2. \A w \in Workers : Remembers(w) /\ PageAlone(w)
  BY IdleIsNoWork DEF Init, Workers, Remembers, PageAlone, PageKinds
<1>3. ASSUME NEW v \in Variants PROVE stock[v] + taken[v] + Sold(v) = ShelfStock
  <2>1. [s \in Sales |-> SoldIn(s, v)] = [s \in Sales |-> 0]
    BY DEF Init, SoldIn, NoSale
  <2>2. Sold(v) = 0
    BY <2>1, NothingCounted, EventSalesAssumption DEF Sold
  <2> QED BY <2>2, EventSalesAssumption DEF Init
<1> QED BY <1>1, <1>2, <1>3 DEF LedgerInv, ShelfBalanced

LEMMA LedgerInductive ==
    ASSUME Serial, LedgerInv, [Next]_vars
    PROVE  LedgerInv'
<1>1. IInv'
  BY Inductive DEF LedgerInv
<1>2. CASE UNCHANGED vars
  BY <1>1, <1>2, QuietStep DEF vars, rows
<1>3. CASE \E r \in Requests :
              \/ \E p \in Payments, e \in Events, amount \in Amounts, requested \in Providers \cup {None} :
                    Create(r, p, e, amount, requested)
              \/ \E p \in Payments : NotOk(r, p) \/ CallbackBegin(r, p)
              \/ RequestStep(r) \/ Fail(r)
  BY <1>1, <1>3, QuietRequests, MarkPaidLedger DEF RequestStep
<1>4. CASE \/ \E p \in Payments : CustomerPays(p)
           \/ \E e \in Events : UpdateEvent(e) \/ RemoveEvent(e)
  BY <1>1, <1>4, QuietStep DEF CustomerPays, UpdateEvent, RemoveEvent, SetActive, rows
<1>5. CASE \E v \in Variants : AddToBasket(v)
  BY <1>1, <1>5, CustomerLedger
<1>6. CASE \E a \in Admins, p \in Payments, items \in Baskets : AssignBegin(a, p, items)
  BY <1>1, <1>6, AssignBeginLedger
<1>7. CASE \E a \in Admins, s \in Sales, items \in Baskets \ {NoItems} :
              LoadSale(a, s, "update", items)
  BY <1>1, <1>7, LoadSaleLedger DEF SaleKinds
<1>8. CASE \E a \in Admins, s \in Sales : LoadSale(a, s, "remove", NoItems)
  BY <1>1, <1>8, LoadSaleLedger DEF SaleKinds
<1>9. CASE \E a \in Admins : AssignItems(a) \/ UpdateSale(a) \/ RemoveSale(a)
  BY <1>1, <1>9, AssignLedger, SalePageLedger
<1> QED BY <1>2, <1>3, <1>4, <1>5, <1>6, <1>7, <1>8, <1>9 DEF Next

(* No unit is lost or made, however assignments for different payments,    *)
(* callbacks and customers overlap, and however often the items of one are *)
(* assigned anew, while the page of offline sales, which takes no lock, is *)
(* used one operation at a time (assignItems and the offline sales' page). *)
THEOREM ShelfAlwaysBalanced ==
    ASSUME Serial
    PROVE  Spec => []ShelfBalanced
<1>1. Init => LedgerInv
  BY LedgerInitially
<1>2. LedgerInv /\ [Next]_vars => LedgerInv'
  BY LedgerInductive
<1>3. LedgerInv => ShelfBalanced
  BY DEF LedgerInv
<1> QED BY <1>1, <1>2, <1>3, PTL DEF Spec

================================================================================
