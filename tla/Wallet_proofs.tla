------------------------------- MODULE Wallet_proofs -------------------------------
(***************************************************************************)
(* Proofs about Wallet, for any customers, top-ups, withdrawals, orders    *)
(* and spins, and any number of requests and administrators, alive or not. *)
(***************************************************************************)
EXTENDS Wallet, TLAPS, FiniteSetTheorems

TopUpRow == [status : {"absent", "INITIATED", "PAID", "FAILED"}, amount : Nat,
             gateway : {"none", "sent", "paid", "verified", "waived"}]

(* What the proofs need of the types of the tables.                        *)
Types ==
    /\ balance \in [Users -> Int]
    /\ ledger \in [Users -> [Reasons -> Int]]
    /\ lapsed \in [Users -> Nat]
    /\ topUp \in [TopUps -> TopUpRow]
    /\ withdrawal \in [Withdrawals -> [status : {"absent", "PENDING", "PAID", "REJECTED"},
                                       amount : Nat]]
    /\ pc \in [Requests -> PCs]
    /\ req \in [Requests -> [id : Rows \cup Users \cup {"none"}, amount : Nat,
                             reason : Reasons \cup Prizes \cup {"none"}]]

(* What a request works on follows from where it stands.                   *)
TopUpPlaces == {"askGateway", "verify", "credit"}
WithdrawalPlaces == {"withdraw", "reject", "payOut"}
OrderPlaces == {"placeOrder", "reward", "referral"}
Elsewhere == WithdrawalPlaces \cup OrderPlaces \cup {"spin", "apply"}

AtTopUp(t) == pc[t] \in TopUpPlaces

IdSound(t) ==
    /\ AtTopUp(t) => req[t].id \in TopUps
    /\ pc[t] \in WithdrawalPlaces => req[t].id \in Withdrawals
    /\ pc[t] \in OrderPlaces => req[t].id \in Orders
    /\ pc[t] = "spin" => req[t].id \in EventPayments
    /\ pc[t] = "apply" => req[t].id \in Users

(* A request at work on a top-up finds it as it left it.                   *)
TopUpSound(t) ==
    LET x == topUp[req[t].id] IN
    /\ pc[t] = "askGateway" => x.status = "INITIATED" /\ x.gateway = "none"
    /\ pc[t] = "verify" => x.status # "PAID" /\ x.gateway \in {"sent", "paid", "verified"}
    /\ pc[t] = "credit" => x.status # "PAID" /\ x.gateway = "verified"

(* No two requests are at work on one top-up: the lock of the callbacks,   *)
(* and the one request that created it.                                    *)
Alone == \A s, t \in Requests : AtTopUp(s) /\ AtTopUp(t) /\ req[s].id = req[t].id => s = t

RowSound(x) ==
    /\ topUp[x].status = "absent" => topUp[x].gateway = "none"
    /\ topUp[x].status = "PAID" => topUp[x].gateway \in {"verified", "waived"}

IInv ==
    /\ Types
    /\ \A t \in Requests : IdSound(t) /\ TopUpSound(t)
    /\ Alone
    /\ \A x \in TopUps : RowSound(x)

(* The two action properties, as what one step does.                       *)
Covered ==
    \A u \in Users :
        balance'[u] < balance[u] /\ balance'[u] < 0
            => \E t \in Requests : pc[t] = "apply" /\ pc'[t] = "idle"
Confirmed ==
    \A x \in TopUps :
        /\ topUp[x].status = "PAID" => topUp'[x].status = "PAID"
        /\ topUp'[x].status = "PAID" => topUp'[x].gateway \in {"verified", "waived"}

--------------------------------------------------------------------------------
(* Requests begin, end and post.                                           *)

Others(t) == \A s \in Requests \ {t} : pc'[s] = pc[s] /\ req'[s] = req[s]
ProcTypes ==
    /\ pc \in [Requests -> PCs]
    /\ req \in [Requests -> [id : Rows \cup Users \cup {"none"}, amount : Nat,
                             reason : Reasons \cup Prizes \cup {"none"}]]

LEMMA Begins ==
    ASSUME Types, NEW t \in Requests, NEW label \in PCs, NEW id \in Rows \cup Users,
           NEW amount \in Nat, NEW reason \in Reasons \cup Prizes,
           Begin(t, label, id, amount, reason)
    PROVE  /\ ProcTypes' /\ Others(t)
           /\ pc[t] = "idle" /\ pc'[t] = label
           /\ req'[t].id = id /\ req'[t].amount = amount
BY DEF Types, ProcTypes, Others, Begin

LEMMA Finishes ==
    ASSUME Types, NEW t \in Requests, Finish(t)
    PROVE  ProcTypes' /\ Others(t) /\ pc'[t] = "idle"
BY DEF Types, ProcTypes, Others, Finish, NoReq, PCs

LEMMA Posts ==
    ASSUME Types, NEW u \in Users, NEW amount \in Int, NEW reason, Post(u, amount, reason)
    PROVE  /\ balance' \in [Users -> Int] /\ ledger' \in [Users -> [Reasons -> Int]]
           /\ balance'[u] = balance[u] + amount
           /\ \A v \in Users \ {u} : balance'[v] = balance[v]
<1> DEFINE row == [ledger[u] EXCEPT ![reason] = @ + amount]
<1>1. row \in [Reasons -> Int]
  <2>1. ledger[u] \in [Reasons -> Int]
    BY DEF Types
  <2>2. \A r \in Reasons : row[r] \in Int
    BY <2>1
  <2> QED BY <2>1, <2>2
<1>2. ledger' = [ledger EXCEPT ![u] = row]
  BY DEF Post
<1> HIDE DEF row
<1>3. ledger' \in [Users -> [Reasons -> Int]]
  BY <1>1, <1>2 DEF Types
<1>4. balance' = [balance EXCEPT ![u] = balance[u] + amount] /\ balance[u] \in Int
  BY DEF Types, Post
<1> QED BY <1>3, <1>4 DEF Types

(* A credit takes nothing away; a debit the balance covers leaves no debt. *)
LEMMA PostCovered ==
    ASSUME Types, NEW u \in Users, NEW amount \in Int, NEW reason, Post(u, amount, reason),
           amount >= 0 \/ balance[u] + amount >= 0
    PROVE  Covered
<1>1. /\ balance' \in [Users -> Int] /\ balance'[u] = balance[u] + amount
      /\ \A v \in Users \ {u} : balance'[v] = balance[v]
  BY Posts
<1>2. balance \in [Users -> Int]
  BY DEF Types
<1>3. ~(balance'[u] < balance[u] /\ balance'[u] < 0)
  BY <1>1, <1>2
<1>4. \A v \in Users \ {u} : ~(balance'[v] < balance[v])
  BY <1>1, <1>2
<1> QED BY <1>3, <1>4 DEF Covered

LEMMA SameCovered ==
    ASSUME Types, balance' = balance
    PROVE  Covered
BY DEF Types, Covered

LEMMA SameConfirmed ==
    ASSUME IInv, topUp' = topUp
    PROVE  Confirmed
BY DEF IInv, RowSound, Confirmed

--------------------------------------------------------------------------------
(* A step that leaves top-ups alone.                                       *)

LEMMA NoTopUp ==
    ASSUME IInv, Types', topUp' = topUp, NEW t \in Requests, Others(t),
           pc'[t] \notin TopUpPlaces, IdSound(t)'
    PROVE  IInv'
<1>1. \A s \in Requests : (IdSound(s) /\ TopUpSound(s))'
  <2> TAKE s \in Requests
  <2>1. CASE s = t
    BY <2>1 DEF TopUpSound, TopUpPlaces
  <2>2. CASE s # t
    BY <2>2 DEF IInv, Others, IdSound, TopUpSound, AtTopUp
  <2> QED BY <2>1, <2>2
<1>2. Alone'
  BY DEF IInv, Alone, Others, AtTopUp
<1>3. \A x \in TopUps : RowSound(x)'
  BY DEF IInv, RowSound
<1> QED BY <1>1, <1>2, <1>3 DEF IInv

LEMMA FinishesElsewhere ==
    ASSUME IInv, topUp' = topUp, NEW t \in Requests, Finish(t),
           balance' \in [Users -> Int], ledger' \in [Users -> [Reasons -> Int]],
           lapsed' = lapsed, withdrawal' \in [Withdrawals -> [status : {"absent", "PENDING", "PAID", "REJECTED"},
                                       amount : Nat]]
    PROVE  IInv'
<1>1. ProcTypes' /\ Others(t) /\ pc'[t] = "idle"
  BY Finishes DEF IInv
<1>2. Types'
  BY <1>1 DEF IInv, Types, ProcTypes
<1>3. IdSound(t)'
  BY <1>1 DEF IdSound, AtTopUp, TopUpPlaces, WithdrawalPlaces, OrderPlaces
<1> QED BY <1>1, <1>2, <1>3, NoTopUp DEF TopUpPlaces

LEMMA BeginsElsewhere ==
    ASSUME IInv, NEW t \in Requests, NEW label \in Elsewhere, NEW id \in Rows \cup Users,
           NEW amount \in Nat, NEW reason \in Reasons \cup Prizes,
           Begin(t, label, id, amount, reason),
           label \in WithdrawalPlaces => id \in Withdrawals,
           label \in OrderPlaces => id \in Orders,
           label = "spin" => id \in EventPayments,
           label = "apply" => id \in Users,
           UNCHANGED <<balance, ledger, lapsed, topUp, withdrawal>>
    PROVE  IInv' /\ Covered /\ Confirmed
<1> label \in PCs
  BY DEF Elsewhere, PCs, WithdrawalPlaces, OrderPlaces
<1>1. /\ ProcTypes' /\ Others(t) /\ pc'[t] = label /\ req'[t].id = id
  BY Begins DEF IInv
<1>2. Types'
  BY <1>1 DEF IInv, Types, ProcTypes
<1>3. label \notin TopUpPlaces
  BY DEF Elsewhere, TopUpPlaces, WithdrawalPlaces, OrderPlaces
<1>4. IdSound(t)'
  BY <1>1, <1>3 DEF IdSound, AtTopUp
<1>5. IInv'
  BY <1>1, <1>2, <1>3, <1>4, NoTopUp
<1> QED BY <1>5, SameCovered, SameConfirmed DEF IInv

(* Max and Min of two numbers.                                             *)
LEMMA MinOfTwo ==
    ASSUME NEW a \in Int, NEW b \in Int
    PROVE  Min({a, b}) \in Int
<1>1. \E m \in {a, b} : \A y \in {a, b} : m <= y
  BY a <= b \/ b <= a
<1> QED BY <1>1 DEF Min

LEMMA MaxWithZero ==
    ASSUME NEW b \in Int
    PROVE  Max({0, b}) \in Nat
<1>1. \E m \in {0, b} : \A y \in {0, b} : m >= y
  BY 0 >= b \/ b >= 0
<1>2. Max({0, b}) \in {0, b} /\ Max({0, b}) >= 0
  BY <1>1 DEF Max
<1> QED BY <1>2

--------------------------------------------------------------------------------
(* Writes to the row of a top-up.                                          *)

Written(x, status, gateway) ==
    /\ topUp' \in [TopUps -> TopUpRow]
    /\ \A y \in TopUps \ {x} : topUp'[y] = topUp[y]
    /\ topUp'[x].status = status /\ topUp'[x].gateway = gateway

LEMMA RowWritten ==
    ASSUME topUp \in [TopUps -> TopUpRow], NEW x \in TopUps,
           NEW row \in TopUpRow, topUp' = [topUp EXCEPT ![x] = row]
    PROVE  Written(x, row.status, row.gateway)
BY DEF Written, TopUpRow

LEMMA StatusWritten ==
    ASSUME topUp \in [TopUps -> TopUpRow], NEW x \in TopUps,
           NEW status \in {"absent", "INITIATED", "PAID", "FAILED"},
           topUp' = [topUp EXCEPT ![x].status = status]
    PROVE  Written(x, status, topUp[x].gateway)
<1> DEFINE row == [topUp[x] EXCEPT !.status = status]
<1>1. row \in TopUpRow /\ row.status = status /\ row.gateway = topUp[x].gateway
  BY DEF TopUpRow
<1>2. topUp' = [topUp EXCEPT ![x] = row]
  OBVIOUS
<1> HIDE DEF row
<1>3. Written(x, row.status, row.gateway)
  BY <1>1, <1>2, RowWritten
<1> QED BY <1>1, <1>3

LEMMA GatewayWritten ==
    ASSUME topUp \in [TopUps -> TopUpRow], NEW x \in TopUps,
           NEW gateway \in {"none", "sent", "paid", "verified", "waived"},
           topUp' = [topUp EXCEPT ![x].gateway = gateway]
    PROVE  Written(x, topUp[x].status, gateway)
<1> DEFINE row == [topUp[x] EXCEPT !.gateway = gateway]
<1>1. row \in TopUpRow /\ row.gateway = gateway /\ row.status = topUp[x].status
  BY DEF TopUpRow
<1>2. topUp' = [topUp EXCEPT ![x] = row]
  OBVIOUS
<1> HIDE DEF row
<1>3. Written(x, row.status, row.gateway)
  BY <1>1, <1>2, RowWritten
<1> QED BY <1>1, <1>3

LEMMA BothWritten ==
    ASSUME topUp \in [TopUps -> TopUpRow], NEW x \in TopUps,
           NEW status \in {"absent", "INITIATED", "PAID", "FAILED"},
           NEW gateway \in {"none", "sent", "paid", "verified", "waived"},
           topUp' = [topUp EXCEPT ![x].status = status, ![x].gateway = gateway]
    PROVE  Written(x, status, gateway)
<1> DEFINE row == [topUp[x] EXCEPT !.status = status, !.gateway = gateway]
<1>1. row \in TopUpRow /\ row.status = status /\ row.gateway = gateway
  BY DEF TopUpRow
<1>2. topUp' = [topUp EXCEPT ![x] = row]
  OBVIOUS
<1> HIDE DEF row
<1>3. Written(x, row.status, row.gateway)
  BY <1>1, <1>2, RowWritten
<1> QED BY <1>1, <1>3

LEMMA NewWritten ==
    ASSUME topUp \in [TopUps -> TopUpRow], NEW x \in TopUps, NEW amount \in Nat,
           topUp' = [topUp EXCEPT ![x].status = "INITIATED", ![x].amount = amount]
    PROVE  Written(x, "INITIATED", topUp[x].gateway)
<1> DEFINE row == [topUp[x] EXCEPT !.status = "INITIATED", !.amount = amount]
<1>1. row \in TopUpRow /\ row.status = "INITIATED" /\ row.gateway = topUp[x].gateway
  BY DEF TopUpRow
<1>2. topUp' = [topUp EXCEPT ![x] = row]
  OBVIOUS
<1> HIDE DEF row
<1>3. Written(x, row.status, row.gateway)
  BY <1>1, <1>2, RowWritten
<1> QED BY <1>1, <1>3

--------------------------------------------------------------------------------
(* Top-ups.                                                                *)

(* A step of t, at work on top-up x or about to be, that changes no other  *)
(* top-up.                                                                 *)
LEMMA TopUpStep ==
    ASSUME IInv, Types', NEW t \in Requests, NEW x \in TopUps, Others(t),
           \A y \in TopUps \ {x} : topUp'[y] = topUp[y],
           \A s \in Requests \ {t} : AtTopUp(s) => req[s].id # x,
           (IdSound(t) /\ TopUpSound(t))', AtTopUp(t)' => req'[t].id = x,
           RowSound(x)'
    PROVE  IInv'
<1>1. \A s \in Requests : (IdSound(s) /\ TopUpSound(s))'
  <2> TAKE s \in Requests
  <2>1. CASE s = t
    BY <2>1
  <2>2. CASE s # t /\ AtTopUp(s)
    <3>1. req[s].id \in TopUps \ {x}
      BY <2>2 DEF IInv, IdSound
    <3> QED BY <2>2, <3>1 DEF IInv, Others, IdSound, TopUpSound, AtTopUp
  <2>3. CASE s # t /\ ~AtTopUp(s)
    BY <2>3 DEF IInv, Others, IdSound, TopUpSound, AtTopUp, TopUpPlaces
  <2> QED BY <2>1, <2>2, <2>3
<1>2. Alone'
  BY DEF IInv, Alone, Others, AtTopUp
<1>3. \A y \in TopUps : RowSound(y)'
  BY DEF IInv, RowSound
<1> QED BY <1>1, <1>2, <1>3 DEF IInv

LEMMA TopUpConfirmed ==
    ASSUME IInv, IInv', NEW x \in TopUps, \A y \in TopUps \ {x} : topUp'[y] = topUp[y],
           topUp[x].status = "PAID" => topUp'[x].status = "PAID"
    PROVE  Confirmed
BY DEF IInv, RowSound, Confirmed

LEMMA TopUpKeeps ==
    ASSUME IInv, NEW t \in Requests, NEW x \in TopUps, NEW amount \in Amounts, TopUp(t, x, amount)
    PROVE  IInv' /\ Covered /\ Confirmed
<1> amount \in Nat /\ "askGateway" \in PCs /\ "TOPUP" \in Reasons /\ x \in Rows
  BY AmountsAssumption DEF PCs, Reasons, Rows
<1>1. ProcTypes' /\ Others(t) /\ pc'[t] = "askGateway" /\ req'[t].id = x
  BY Begins DEF IInv, TopUp
<1>2. topUp[x].status = "absent" /\ topUp[x].gateway = "none"
  BY DEF TopUp, IInv, RowSound
<1>3. Written(x, "INITIATED", topUp[x].gateway)
  BY NewWritten DEF TopUp, IInv, Types
<1>4. Types'
  BY <1>1, <1>3 DEF IInv, Types, ProcTypes, TopUp, wallets, Written
<1>5. /\ \A y \in TopUps \ {x} : topUp'[y] = topUp[y]
      /\ topUp'[x].status = "INITIATED" /\ topUp'[x].gateway = "none"
  BY <1>2, <1>3 DEF Written
<1>6. \A s \in Requests \ {t} : AtTopUp(s) => req[s].id # x
  BY <1>2 DEF IInv, TopUpSound, AtTopUp, TopUpPlaces
<1>7. (IdSound(t) /\ TopUpSound(t))' /\ RowSound(x)'
  BY <1>1, <1>5 DEF IdSound, TopUpSound, RowSound, WithdrawalPlaces, OrderPlaces
<1>8. IInv'
  BY <1>1, <1>4, <1>5, <1>6, <1>7, TopUpStep
<1>9. Confirmed
  BY <1>2, <1>5, <1>8, TopUpConfirmed
<1> QED BY <1>8, <1>9, SameCovered DEF IInv, TopUp, wallets

LEMMA CallbackBeginKeeps ==
    ASSUME IInv, NEW t \in Requests, NEW x \in TopUps, CallbackBegin(t, x)
    PROVE  IInv' /\ Covered /\ Confirmed
<1> topUp[x].amount \in Nat /\ "verify" \in PCs /\ "TOPUP" \in Reasons /\ x \in Rows
  BY DEF IInv, Types, TopUpRow, PCs, Reasons, Rows
<1>1. ProcTypes' /\ Others(t) /\ pc'[t] = "verify" /\ req'[t].id = x
  BY Begins DEF IInv, CallbackBegin
<1>2. UNCHANGED <<balance, ledger, lapsed, topUp, withdrawal>>
  BY DEF CallbackBegin, wallets, tables
<1>3. Types'
  BY <1>1, <1>2 DEF IInv, Types, ProcTypes
<1>4. \A s \in Requests \ {t} : AtTopUp(s) => req[s].id # x
  BY DEF IInv, TopUpSound, AtTopUp, TopUpPlaces, CallbackBegin, InCallback, Working
<1>5. (IdSound(t) /\ TopUpSound(t))'
  BY <1>1, <1>2 DEF IdSound, TopUpSound, WithdrawalPlaces, OrderPlaces, CallbackBegin
<1>6. RowSound(x)'
  BY <1>2 DEF IInv, RowSound
<1>7. IInv'
  BY <1>1, <1>2, <1>3, <1>4, <1>5, <1>6, TopUpStep
<1> QED BY <1>2, <1>7, SameCovered, SameConfirmed DEF IInv

(* A request at work on a top-up writes its row and ends.                  *)
LEMMA TopUpEnds ==
    ASSUME IInv, NEW t \in Requests, AtTopUp(t), Finish(t),
           NEW x \in TopUps, x = req[t].id, NEW status, NEW gateway,
           Written(x, status, gateway),
           status # "absent", status = "PAID" => gateway \in {"verified", "waived"},
           balance' \in [Users -> Int], ledger' \in [Users -> [Reasons -> Int]],
           UNCHANGED <<lapsed, withdrawal>>
    PROVE  IInv' /\ Confirmed
<1>1. topUp[x].status # "PAID"
  BY DEF IInv, TopUpSound, AtTopUp, TopUpPlaces
<1>2. ProcTypes' /\ Others(t) /\ pc'[t] = "idle"
  BY Finishes DEF IInv
<1>3. Types'
  BY <1>2 DEF IInv, Types, ProcTypes, Written
<1>4. \A s \in Requests \ {t} : AtTopUp(s) => req[s].id # x
  BY DEF IInv, Alone
<1>5. (IdSound(t) /\ TopUpSound(t))' /\ ~AtTopUp(t)'
  BY <1>2 DEF IdSound, TopUpSound, AtTopUp, TopUpPlaces, WithdrawalPlaces, OrderPlaces
<1>6. RowSound(x)'
  BY DEF RowSound, Written
<1>7. IInv'
  BY <1>2, <1>3, <1>4, <1>5, <1>6, TopUpStep DEF Written
<1> QED BY <1>1, <1>7, TopUpConfirmed DEF Written

LEMMA AskGatewayKeeps ==
    ASSUME IInv, NEW t \in Requests, TopUpSent(t) \/ TopUpRefused(t) \/ TopUpMocked(t)
    PROVE  IInv' /\ Covered /\ Confirmed
<1>1. PICK x \in TopUps : x = req[t].id
  BY DEF TopUpSent, TopUpRefused, TopUpMocked, IInv, IdSound, AtTopUp, TopUpPlaces
<1>2. /\ AtTopUp(t) /\ Finish(t) /\ UNCHANGED <<lapsed, withdrawal>>
      /\ topUp[x].status = "INITIATED" /\ topUp[x].gateway = "none"
      /\ topUp[x].amount \in Nat
  BY <1>1 DEF TopUpSent, TopUpRefused, TopUpMocked, IInv, Types, TopUpRow, TopUpSound, AtTopUp, TopUpPlaces
<1>3. CASE TopUpSent(t)
  <2>1. Written(x, "INITIATED", "sent")
    BY <1>1, <1>2, <1>3, GatewayWritten DEF TopUpSent, IInv, Types
  <2>2. UNCHANGED <<balance, ledger>>
    BY <1>3 DEF TopUpSent, wallets
  <2> QED BY <1>1, <1>2, <2>1, <2>2, TopUpEnds, SameCovered DEF IInv, Types
<1>4. CASE TopUpRefused(t)
  <2>1. Written(x, "FAILED", "none")
    BY <1>1, <1>2, <1>4, StatusWritten DEF TopUpRefused, IInv, Types
  <2>2. UNCHANGED <<balance, ledger>>
    BY <1>4 DEF TopUpRefused, wallets
  <2> QED BY <1>1, <1>2, <2>1, <2>2, TopUpEnds, SameCovered DEF IInv, Types
<1>5. CASE TopUpMocked(t)
  <2>1. Written(x, "PAID", "waived")
    BY <1>1, <1>5, BothWritten DEF TopUpMocked, IInv, Types
  <2>2. Owner[x] \in Users /\ Post(Owner[x], topUp[x].amount, "TOPUP") /\ topUp[x].amount \in Int
    BY <1>1, <1>2, <1>5, RowsAssumption DEF TopUpMocked, Rows
  <2>3. balance' \in [Users -> Int] /\ ledger' \in [Users -> [Reasons -> Int]]
    BY <2>2, Posts DEF IInv
  <2>4. Covered
    BY <1>2, <2>2, PostCovered DEF IInv
  <2> QED BY <1>1, <1>2, <2>1, <2>3, <2>4, TopUpEnds
<1> QED BY <1>3, <1>4, <1>5

LEMMA VerifyTopUpKeeps ==
    ASSUME IInv, NEW t \in Requests, VerifyTopUp(t)
    PROVE  IInv' /\ Covered /\ Confirmed
<1>1. PICK x \in TopUps : x = req[t].id
  BY DEF VerifyTopUp, IInv, IdSound, AtTopUp, TopUpPlaces
<1>2. AtTopUp(t) /\ topUp[x].status # "PAID" /\ topUp[x].gateway \in {"paid", "verified"}
  BY <1>1 DEF VerifyTopUp, IInv, TopUpSound, AtTopUp, TopUpPlaces
<1>3. Written(x, topUp[x].status, "verified")
  BY <1>1, GatewayWritten DEF VerifyTopUp, IInv, Types
<1>4. /\ UNCHANGED <<balance, ledger, lapsed, withdrawal, req>>
      /\ pc' = [pc EXCEPT ![t] = "credit"]
  BY DEF VerifyTopUp, wallets
<1>5. Types'
  BY <1>3, <1>4 DEF IInv, Types, PCs, Written
<1>6. Others(t) /\ pc'[t] = "credit" /\ req'[t].id = x
  BY <1>1, <1>4 DEF IInv, Types, Others
<1>7. \A s \in Requests \ {t} : AtTopUp(s) => req[s].id # x
  BY <1>1, <1>2 DEF IInv, Alone
<1>8. (IdSound(t) /\ TopUpSound(t))'
  BY <1>2, <1>3, <1>6 DEF IdSound, TopUpSound, WithdrawalPlaces, OrderPlaces, Written
<1>9. RowSound(x)'
  BY <1>2, <1>3 DEF RowSound, Written, IInv
<1>10. IInv'
  BY <1>3, <1>5, <1>6, <1>7, <1>8, <1>9, TopUpStep DEF Written
<1> QED BY <1>2, <1>3, <1>4, <1>10, TopUpConfirmed, SameCovered DEF IInv, Written

LEMMA VerifyFailsKeeps ==
    ASSUME IInv, NEW t \in Requests, VerifyFails(t)
    PROVE  IInv' /\ Covered /\ Confirmed
<1>1. PICK x \in TopUps : x = req[t].id
  BY DEF VerifyFails, IInv, IdSound, AtTopUp, TopUpPlaces
<1>2. AtTopUp(t) /\ topUp[x].gateway \in {"sent", "paid", "verified"}
  BY <1>1 DEF VerifyFails, IInv, TopUpSound, AtTopUp, TopUpPlaces
<1>3. PICK known \in {topUp[x].gateway} \cup (IF topUp[x].gateway = "paid" THEN {"verified"} ELSE {}) :
          topUp' = [topUp EXCEPT ![x].status = "FAILED", ![x].gateway = known]
  BY <1>1 DEF VerifyFails
<1>4. known \in {"none", "sent", "paid", "verified", "waived"}
  BY <1>2, <1>3
<1>5. Written(x, "FAILED", known)
  BY <1>3, <1>4, BothWritten DEF IInv, Types
<1>6. UNCHANGED <<balance, ledger, lapsed, withdrawal>> /\ Finish(t)
  BY DEF VerifyFails, wallets
<1>7. balance' \in [Users -> Int] /\ ledger' \in [Users -> [Reasons -> Int]]
  BY <1>6 DEF IInv, Types
<1>8. IInv' /\ Confirmed
  BY <1>1, <1>2, <1>5, <1>6, <1>7, TopUpEnds
<1> QED BY <1>6, <1>8, SameCovered DEF IInv

LEMMA CreditTopUpKeeps ==
    ASSUME IInv, NEW t \in Requests, CreditTopUp(t)
    PROVE  IInv' /\ Covered /\ Confirmed
<1>1. PICK x \in TopUps : x = req[t].id
  BY DEF CreditTopUp, IInv, IdSound, AtTopUp, TopUpPlaces
<1>2. AtTopUp(t) /\ topUp[x].gateway = "verified"
  BY <1>1 DEF CreditTopUp, IInv, TopUpSound, AtTopUp, TopUpPlaces
<1>3. req[t].amount \in Int /\ req[t].amount >= 0
  BY DEF IInv, Types
<1>4. Written(x, "PAID", "verified")
  BY <1>1, <1>2, StatusWritten DEF CreditTopUp, IInv, Types
<1>5. Owner[x] \in Users /\ Post(Owner[x], req[t].amount, "TOPUP")
  BY <1>1, RowsAssumption DEF CreditTopUp, Rows
<1>6. balance' \in [Users -> Int] /\ ledger' \in [Users -> [Reasons -> Int]]
  BY <1>3, <1>5, Posts DEF IInv
<1>7. Covered
  BY <1>3, <1>5, PostCovered DEF IInv
<1>8. UNCHANGED <<lapsed, withdrawal>> /\ Finish(t)
  BY DEF CreditTopUp
<1> QED BY <1>1, <1>2, <1>4, <1>6, <1>7, <1>8, TopUpEnds

LEMMA CustomerPaysKeeps ==
    ASSUME IInv, NEW x \in TopUps, CustomerPays(x)
    PROVE  IInv' /\ Covered /\ Confirmed
<1>1. Written(x, topUp[x].status, "paid")
  BY GatewayWritten DEF CustomerPays, IInv, Types
<1>2. UNCHANGED <<balance, ledger, lapsed, withdrawal, pc, req>> /\ topUp[x].gateway = "sent"
  BY DEF CustomerPays, wallets, procs
<1>3. Types'
  BY <1>1, <1>2 DEF IInv, Types, Written
<1>4. topUp[x].status \notin {"PAID", "absent"}
  BY <1>2 DEF IInv, RowSound
<1>5. \A s \in Requests : (IdSound(s) /\ TopUpSound(s))'
  <2> TAKE s \in Requests
  <2>1. IdSound(s)'
    BY <1>2 DEF IInv, IdSound, AtTopUp
  <2>2. CASE AtTopUp(s) /\ req[s].id = x
    BY <1>1, <1>2, <1>4, <2>1, <2>2 DEF IInv, TopUpSound, Written
  <2>3. CASE AtTopUp(s) /\ req[s].id # x
    <3>1. req[s].id \in TopUps \ {x}
      BY <2>3 DEF IInv, IdSound
    <3> QED BY <1>1, <1>2, <2>1, <3>1 DEF IInv, TopUpSound, Written
  <2>4. CASE ~AtTopUp(s)
    <3>1. pc'[s] \notin {"askGateway", "verify", "credit"}
      BY <1>2, <2>4 DEF AtTopUp, TopUpPlaces
    <3> QED BY <2>1, <3>1 DEF TopUpSound
  <2> QED BY <2>1, <2>2, <2>3, <2>4
<1>6. Alone'
  BY <1>2 DEF IInv, Alone, AtTopUp
<1>7. \A y \in TopUps : RowSound(y)'
  BY <1>1, <1>4 DEF IInv, RowSound, Written
<1>8. IInv'
  BY <1>3, <1>5, <1>6, <1>7 DEF IInv
<1> QED BY <1>1, <1>2, <1>8, TopUpConfirmed, SameCovered DEF IInv, Written

--------------------------------------------------------------------------------
(* Requests that have nothing to do with top-ups: they begin ...           *)

LEMMA WithdrawalBegins ==
    ASSUME IInv, NEW t \in Requests, NEW w \in Withdrawals,
           ResolveWithdrawal(t, w) \/ \E a \in Amounts : RequestWithdrawal(t, w, a)
    PROVE  IInv' /\ Covered /\ Confirmed
<1> /\ w \in Rows /\ withdrawal[w].amount \in Nat /\ {"WITHDRAWAL_REQUEST", "ADJUSTMENT"} \subseteq Reasons
    /\ WithdrawalPlaces \subseteq Elsewhere
  BY DEF Rows, Reasons, IInv, Types, Elsewhere
<1>1. ASSUME NEW a \in Amounts, RequestWithdrawal(t, w, a) PROVE IInv' /\ Covered /\ Confirmed
  <2>1. a \in Nat /\ "withdraw" \in WithdrawalPlaces
    BY AmountsAssumption DEF WithdrawalPlaces
  <2>2. UNCHANGED <<balance, ledger, lapsed, topUp, withdrawal>>
    BY <1>1 DEF RequestWithdrawal, wallets, tables
  <2>3. Begin(t, "withdraw", w, a, "WITHDRAWAL_REQUEST")
    BY <1>1 DEF RequestWithdrawal
  <2> QED BY <2>1, <2>2, <2>3, BeginsElsewhere DEF OrderPlaces
<1>2. CASE ResolveWithdrawal(t, w)
  <2>1. PICK action \in {"reject", "payOut"} : Begin(t, action, w, withdrawal[w].amount, "ADJUSTMENT")
    BY <1>2 DEF ResolveWithdrawal
  <2>2. UNCHANGED <<balance, ledger, lapsed, topUp, withdrawal>>
    BY <1>2 DEF ResolveWithdrawal, wallets, tables
  <2>3. action \in WithdrawalPlaces /\ action \notin OrderPlaces \cup {"spin", "apply"}
    BY DEF WithdrawalPlaces, OrderPlaces
  <2> QED BY <2>1, <2>2, <2>3, BeginsElsewhere
<1> QED BY <1>1, <1>2

LEMMA OrderBegins ==
    ASSUME IInv, NEW t \in Requests, NEW o \in Orders,
           \/ \E a \in Amounts \cup {0} : ApplyToCheckout(t, o, a)
           \/ ReferralBegin(t, o)
           \/ \E r \in Rewards : RewardBegin(t, o, r)
    PROVE  IInv' /\ Covered /\ Confirmed
<1> /\ o \in Rows /\ Reward \in Nat /\ Rewards \cup {"USED", "CASHBACK"} \subseteq Reasons
    /\ OrderPlaces \subseteq Elsewhere
  BY AmountsAssumption DEF Rows, Reasons, Rewards, Elsewhere
<1>0. \A p \in OrderPlaces : p \notin WithdrawalPlaces \cup {"spin", "apply"}
  BY DEF WithdrawalPlaces, OrderPlaces
<1>1. {"placeOrder", "referral", "reward"} \subseteq OrderPlaces
  BY DEF OrderPlaces
<1>2. ASSUME NEW a \in Amounts \cup {0}, ApplyToCheckout(t, o, a) PROVE IInv' /\ Covered /\ Confirmed
  <2>1. a \in Int /\ Owner[o] \in Users
    BY AmountsAssumption, RowsAssumption
  <2>2. balance[Owner[o]] \in Int
    BY <2>1 DEF IInv, Types
  <2>3. Max({0, Min({a, balance[Owner[o]]})}) \in Nat
    BY <2>1, <2>2, MinOfTwo, MaxWithZero
  <2>4. Begin(t, "placeOrder", o, Max({0, Min({a, balance[Owner[o]]})}), "USED")
    BY <1>2 DEF ApplyToCheckout
  <2>5. UNCHANGED <<balance, ledger, lapsed, topUp, withdrawal>>
    BY <1>2 DEF ApplyToCheckout, wallets, tables
  <2> QED BY <1>0, <1>1, <2>3, <2>4, <2>5, BeginsElsewhere
<1>3. CASE ReferralBegin(t, o)
  <2>1. Begin(t, "referral", o, Reward, "CASHBACK")
    BY <1>3 DEF ReferralBegin
  <2>2. UNCHANGED <<balance, ledger, lapsed, topUp, withdrawal>>
    BY <1>3 DEF ReferralBegin, wallets
  <2> QED BY <1>0, <1>1, <2>1, <2>2, BeginsElsewhere
<1>4. ASSUME NEW r \in Rewards, RewardBegin(t, o, r) PROVE IInv' /\ Covered /\ Confirmed
  <2>1. Begin(t, "reward", o, Reward, r)
    BY <1>4 DEF RewardBegin
  <2>2. UNCHANGED <<balance, ledger, lapsed, topUp, withdrawal>>
    BY <1>4 DEF RewardBegin, wallets, tables
  <2> QED BY <1>0, <1>1, <2>1, <2>2, BeginsElsewhere
<1> QED BY <1>2, <1>3, <1>4

LEMMA SpinBegins ==
    ASSUME IInv, NEW t \in Requests, NEW e \in EventPayments, SpinBegin(t, e)
    PROVE  IInv' /\ Covered /\ Confirmed
<1>1. PICK prize \in Prizes : Begin(t, "spin", e, IF prize = "other" THEN 0 ELSE Reward, prize)
  BY DEF SpinBegin
<1> DEFINE amount == IF prize = "other" THEN 0 ELSE Reward
<1>2. amount \in Nat /\ e \in Rows /\ "spin" \in Elsewhere
  BY AmountsAssumption DEF Rows, Elsewhere
<1>3. UNCHANGED <<balance, ledger, lapsed, topUp, withdrawal>>
  BY DEF SpinBegin, wallets, tables
<1>4. "spin" \notin WithdrawalPlaces \cup OrderPlaces
  BY DEF WithdrawalPlaces, OrderPlaces
<1> HIDE DEF amount
<1>5. Begin(t, "spin", e, amount, prize)
  BY <1>1 DEF amount
<1> QED BY <1>2, <1>3, <1>4, <1>5, BeginsElsewhere

LEMMA ApplyBegins ==
    ASSUME IInv, NEW t \in Requests, NEW u \in Users, NEW a \in Amounts, ApplyBegin(t, u, a)
    PROVE  IInv' /\ Covered /\ Confirmed
<1> DEFINE amount == Min({a, AvailableCashback(u)})
<1>1. a \in Int /\ "USED" \in Reasons /\ "CASHBACK" \in Reasons
  BY AmountsAssumption DEF Reasons, Rewards
<1>2. AvailableCashback(u) \in Int
  <2>1. ledger[u] \in [Reasons -> Int] /\ lapsed[u] \in Int
    BY DEF IInv, Types
  <2>2. ledger[u]["CASHBACK"] - lapsed[u] + ledger[u]["USED"] \in Int
    BY <1>1, <2>1
  <2> QED BY <2>2, MaxWithZero DEF AvailableCashback
<1>3. amount \in Int
  BY <1>1, <1>2, MinOfTwo
<1>4. amount > 0 /\ Begin(t, "apply", u, amount, "USED")
  BY DEF ApplyBegin
<1>5. UNCHANGED <<balance, ledger, lapsed, topUp, withdrawal>>
  BY DEF ApplyBegin, wallets, tables
<1>6. "apply" \in Elsewhere /\ "apply" \notin WithdrawalPlaces \cup OrderPlaces
  BY DEF Elsewhere, WithdrawalPlaces, OrderPlaces
<1> HIDE DEF amount
<1> QED BY <1>1, <1>3, <1>4, <1>5, <1>6, BeginsElsewhere

(* ... and end, with a credit or a debit the balance covers.               *)

LEMMA HoldKeeps ==
    ASSUME IInv, NEW t \in Requests, HoldWithdrawal(t)
    PROVE  IInv' /\ Covered /\ Confirmed
<1>1. PICK w \in Withdrawals : w = req[t].id
  BY DEF HoldWithdrawal, IInv, IdSound, WithdrawalPlaces
<1>2. Owner[w] \in Users /\ req[t].amount \in Int /\ -req[t].amount \in Int /\ req[t].amount \in Nat
  BY RowsAssumption DEF Rows, IInv, Types
<1>3. Finish(t) /\ UNCHANGED <<lapsed, topUp>>
  BY DEF HoldWithdrawal
<1>4. CASE balance[Owner[w]] >= req[t].amount
  <2>1. /\ Post(Owner[w], -req[t].amount, "WITHDRAWAL_REQUEST")
        /\ withdrawal' = [withdrawal EXCEPT ![w] = [status |-> "PENDING", amount |-> req[t].amount]]
    BY <1>1, <1>4 DEF HoldWithdrawal
  <2>2. balance' \in [Users -> Int] /\ ledger' \in [Users -> [Reasons -> Int]]
    BY <1>2, <2>1, Posts DEF IInv
  <2>3. withdrawal' \in [Withdrawals -> [status : {"absent", "PENDING", "PAID", "REJECTED"}, amount : Nat]]
    BY <1>2, <2>1 DEF IInv, Types
  <2>4. balance[Owner[w]] + (-req[t].amount) >= 0
    BY <1>2, <1>4 DEF IInv, Types
  <2>5. Covered
    BY <1>2, <2>1, <2>4, PostCovered DEF IInv
  <2> QED BY <1>3, <2>2, <2>3, <2>5, FinishesElsewhere, SameConfirmed
<1>5. CASE ~(balance[Owner[w]] >= req[t].amount)
  <2>1. UNCHANGED <<balance, ledger, withdrawal>>
    BY <1>1, <1>5 DEF HoldWithdrawal, wallets
  <2> QED BY <1>3, <2>1, FinishesElsewhere, SameCovered, SameConfirmed DEF IInv, Types
<1> QED BY <1>4, <1>5

LEMMA RejectKeeps ==
    ASSUME IInv, NEW t \in Requests, RejectWithdrawal(t)
    PROVE  IInv' /\ Covered /\ Confirmed
<1>1. PICK w \in Withdrawals : w = req[t].id
  BY DEF RejectWithdrawal, IInv, IdSound, WithdrawalPlaces
<1>2. Owner[w] \in Users /\ req[t].amount \in Int /\ req[t].amount >= 0
  BY RowsAssumption DEF Rows, IInv, Types
<1>3. Finish(t) /\ UNCHANGED <<lapsed, topUp>> /\ Post(Owner[w], req[t].amount, "ADJUSTMENT")
  BY <1>1 DEF RejectWithdrawal
<1>4. balance' \in [Users -> Int] /\ ledger' \in [Users -> [Reasons -> Int]] /\ Covered
  BY <1>2, <1>3, Posts, PostCovered DEF IInv
<1>5. withdrawal' \in [Withdrawals -> [status : {"absent", "PENDING", "PAID", "REJECTED"}, amount : Nat]]
  BY <1>1 DEF RejectWithdrawal, IInv, Types
<1> QED BY <1>3, <1>4, <1>5, FinishesElsewhere, SameConfirmed

LEMMA PayOutKeeps ==
    ASSUME IInv, NEW t \in Requests, PayOutWithdrawal(t)
    PROVE  IInv' /\ Covered /\ Confirmed
<1>1. req[t].id \in Withdrawals
  BY DEF PayOutWithdrawal, IInv, IdSound, WithdrawalPlaces
<1>2. Finish(t) /\ UNCHANGED <<lapsed, topUp, balance, ledger>>
  BY DEF PayOutWithdrawal, wallets
<1>3. withdrawal' \in [Withdrawals -> [status : {"absent", "PENDING", "PAID", "REJECTED"}, amount : Nat]]
  BY <1>1 DEF PayOutWithdrawal, IInv, Types
<1> QED BY <1>2, <1>3, FinishesElsewhere, SameCovered, SameConfirmed DEF IInv, Types

LEMMA PlaceOrderKeeps ==
    ASSUME IInv, NEW t \in Requests, PlaceOrder(t)
    PROVE  IInv' /\ Covered /\ Confirmed
<1>1. PICK o \in Orders : o = req[t].id
  BY DEF PlaceOrder, IInv, IdSound, OrderPlaces
<1>2. Owner[o] \in Users /\ req[t].amount \in Int /\ -req[t].amount \in Int
  BY RowsAssumption DEF Rows, IInv, Types
<1>3. Finish(t) /\ UNCHANGED <<lapsed, topUp, withdrawal>>
  BY DEF PlaceOrder
<1>4. CASE req[t].amount = 0 \/ balance[Owner[o]] >= req[t].amount
  <2>1. Post(Owner[o], -req[t].amount, "USED")
    BY <1>1, <1>4 DEF PlaceOrder
  <2>2. -req[t].amount >= 0 \/ balance[Owner[o]] + (-req[t].amount) >= 0
    BY <1>2, <1>4 DEF IInv, Types
  <2>3. balance' \in [Users -> Int] /\ ledger' \in [Users -> [Reasons -> Int]] /\ Covered
    BY <1>2, <2>1, <2>2, Posts, PostCovered DEF IInv
  <2> QED BY <1>3, <2>3, FinishesElsewhere, SameConfirmed DEF IInv, Types
<1>5. CASE ~(req[t].amount = 0 \/ balance[Owner[o]] >= req[t].amount)
  <2>1. UNCHANGED <<balance, ledger>>
    BY <1>1, <1>5 DEF PlaceOrder, wallets
  <2> QED BY <1>3, <2>1, FinishesElsewhere, SameCovered, SameConfirmed DEF IInv, Types
<1> QED BY <1>4, <1>5

LEMMA RewardKeeps ==
    ASSUME IInv, NEW t \in Requests, GrantReward(t) \/ CreditReferrer(t)
    PROVE  IInv' /\ Covered /\ Confirmed
<1>1. PICK o \in Orders : o = req[t].id
  BY DEF GrantReward, CreditReferrer, IInv, IdSound, OrderPlaces
<1>2. PICK u \in Users, reason \in Reasons \cup Prizes \cup {"none"} : Post(u, req[t].amount, reason)
  <2>1. {Owner[o], Referrer[o]} \subseteq Users /\ req[t].reason \in Reasons \cup Prizes \cup {"none"}
    BY RowsAssumption DEF Rows, IInv, Types
  <2>2. CASE GrantReward(t)
    BY <1>1, <2>1, <2>2 DEF GrantReward
  <2>3. CASE CreditReferrer(t)
    BY <1>1, <2>1, <2>3 DEF CreditReferrer, Reasons, Rewards
  <2> QED BY <2>2, <2>3
<1>3. req[t].amount \in Int /\ req[t].amount >= 0
  BY DEF IInv, Types
<1>4. Finish(t) /\ UNCHANGED <<lapsed, topUp, withdrawal>>
  BY DEF GrantReward, CreditReferrer
<1>5. balance' \in [Users -> Int] /\ ledger' \in [Users -> [Reasons -> Int]] /\ Covered
  BY <1>2, <1>3, Posts, PostCovered DEF IInv
<1> QED BY <1>4, <1>5, FinishesElsewhere, SameConfirmed DEF IInv, Types

LEMMA SpinKeeps ==
    ASSUME IInv, NEW t \in Requests, Spin(t)
    PROVE  IInv' /\ Covered /\ Confirmed
<1>1. PICK e \in EventPayments : e = req[t].id
  BY DEF Spin, IInv, IdSound
<1>2. Owner[e] \in Users /\ req[t].amount \in Int /\ req[t].amount >= 0
  BY RowsAssumption DEF Rows, IInv, Types
<1>3. Finish(t) /\ UNCHANGED <<lapsed, topUp, withdrawal>>
  BY DEF Spin
<1>4. UNCHANGED <<balance, ledger>> \/ Post(Owner[e], req[t].amount, req[t].reason)
  BY <1>1 DEF Spin, wallets
<1>5. CASE UNCHANGED <<balance, ledger>>
  BY <1>3, <1>5, FinishesElsewhere, SameCovered, SameConfirmed DEF IInv, Types
<1>6. CASE Post(Owner[e], req[t].amount, req[t].reason)
  <2>1. balance' \in [Users -> Int] /\ ledger' \in [Users -> [Reasons -> Int]] /\ Covered
    BY <1>2, <1>6, Posts, PostCovered DEF IInv
  <2> QED BY <1>3, <2>1, FinishesElsewhere, SameConfirmed DEF IInv, Types
<1> QED BY <1>4, <1>5, <1>6

(* The one debit without a guard is the one the property names.            *)
LEMMA ApplyKeeps ==
    ASSUME IInv, NEW t \in Requests, Apply(t)
    PROVE  IInv' /\ Covered /\ Confirmed
<1>1. req[t].id \in Users /\ -req[t].amount \in Int
  BY DEF Apply, IInv, IdSound, Types
<1>2. Finish(t) /\ UNCHANGED <<lapsed, topUp, withdrawal>> /\ Post(req[t].id, -req[t].amount, "USED")
  BY DEF Apply, tables
<1>3. balance' \in [Users -> Int] /\ ledger' \in [Users -> [Reasons -> Int]]
  BY <1>1, <1>2, Posts DEF IInv
<1>4. pc[t] = "apply" /\ pc'[t] = "idle"
  BY <1>2, Finishes DEF Apply, IInv
<1> QED BY <1>2, <1>3, <1>4, FinishesElsewhere, SameConfirmed DEF IInv, Types, Covered

LEMMA FailKeeps ==
    ASSUME IInv, NEW t \in Requests, Fail(t)
    PROVE  IInv' /\ Covered /\ Confirmed
<1>1. Finish(t) /\ UNCHANGED <<lapsed, topUp, withdrawal, balance, ledger>>
  BY DEF Fail, wallets, tables
<1> QED BY <1>1, FinishesElsewhere, SameCovered, SameConfirmed DEF IInv, Types

(* No request moves.                                                       *)
LEMMA OutsideKeeps ==
    ASSUME IInv, UNCHANGED <<balance, ledger, topUp, withdrawal, pc, req>>, lapsed' \in [Users -> Nat]
    PROVE  IInv' /\ Covered /\ Confirmed
<1>1. Types'
  BY DEF IInv, Types
<1>2. \A t \in Requests : (IdSound(t) /\ TopUpSound(t))'
  BY DEF IInv, IdSound, TopUpSound, AtTopUp
<1>3. Alone' /\ \A x \in TopUps : RowSound(x)'
  BY DEF IInv, Alone, RowSound, AtTopUp
<1> QED BY <1>1, <1>2, <1>3, SameCovered, SameConfirmed DEF IInv

--------------------------------------------------------------------------------
LEMMA InitSound == Init => IInv
<1> SUFFICES ASSUME Init PROVE IInv
  OBVIOUS
<1>1. Types
  <2>1. balance \in [Users -> Int] /\ ledger \in [Users -> [Reasons -> Int]] /\ lapsed \in [Users -> Nat]
    BY DEF Init
  <2>2. topUp \in [TopUps -> TopUpRow]
    BY DEF Init, TopUpRow
  <2>3. withdrawal \in [Withdrawals -> [status : {"absent", "PENDING", "PAID", "REJECTED"}, amount : Nat]]
    BY DEF Init
  <2>4. ProcTypes
    BY DEF Init, ProcTypes, PCs, NoReq
  <2> QED BY <2>1, <2>2, <2>3, <2>4 DEF Types, ProcTypes
<1>2. \A t \in Requests : IdSound(t) /\ TopUpSound(t) /\ ~AtTopUp(t)
  BY DEF Init, IdSound, TopUpSound, AtTopUp, TopUpPlaces, WithdrawalPlaces, OrderPlaces
<1>3. \A x \in TopUps : RowSound(x)
  BY DEF Init, RowSound
<1> QED BY <1>1, <1>2, <1>3 DEF IInv, Alone

LEMMA StepSound ==
    ASSUME IInv, Next
    PROVE  IInv' /\ Covered /\ Confirmed
<1>1. ASSUME NEW t \in Requests, Arrive(t) PROVE IInv' /\ Covered /\ Confirmed
  BY <1>1, CallbackBeginKeeps, TopUpKeeps, WithdrawalBegins, OrderBegins, SpinBegins, ApplyBegins DEF Arrive
<1>2. ASSUME NEW t \in Requests, Handle(t) PROVE IInv' /\ Covered /\ Confirmed
  <2>1. CASE \/ TopUpSent(t) \/ TopUpRefused(t) \/ TopUpMocked(t)
             \/ VerifyTopUp(t) \/ VerifyFails(t) \/ CreditTopUp(t)
    BY <2>1, AskGatewayKeeps, VerifyTopUpKeeps, VerifyFailsKeeps, CreditTopUpKeeps
  <2>2. CASE \/ HoldWithdrawal(t) \/ RejectWithdrawal(t) \/ PayOutWithdrawal(t)
             \/ PlaceOrder(t) \/ GrantReward(t) \/ CreditReferrer(t) \/ Spin(t) \/ Apply(t)
    BY <2>2, HoldKeeps, RejectKeeps, PayOutKeeps, PlaceOrderKeeps, RewardKeeps, SpinKeeps, ApplyKeeps
  <2> QED BY <1>2, <2>1, <2>2 DEF Handle
<1>3. ASSUME NEW t \in Requests, Fail(t) PROVE IInv' /\ Covered /\ Confirmed
  BY <1>3, FailKeeps
<1>4. ASSUME NEW x \in TopUps, CustomerPays(x) PROVE IInv' /\ Covered /\ Confirmed
  BY <1>4, CustomerPaysKeeps
<1>5. ASSUME NEW o \in Orders, NEW s \in {"PAID", "FAILED"}, SettleOrder(o, s)
      PROVE  IInv' /\ Covered /\ Confirmed
  BY <1>5, OutsideKeeps DEF SettleOrder, wallets, procs, IInv, Types
<1>6. ASSUME NEW u \in Users, LapseCashback(u) PROVE IInv' /\ Covered /\ Confirmed
  <2>1. lapsed' \in [Users -> Nat]
    BY <1>6, AmountsAssumption DEF LapseCashback, IInv, Types
  <2> QED BY <1>6, <2>1, OutsideKeeps DEF LapseCashback, wallets, procs
<1> QED BY <1>1, <1>2, <1>3, <1>4, <1>5, <1>6 DEF Next

LEMMA StutterSound ==
    ASSUME IInv, UNCHANGED vars
    PROVE  IInv' /\ Covered /\ Confirmed
BY OutsideKeeps DEF vars, wallets, tables, procs, IInv, Types

LEMMA InvariantHolds == Spec => []IInv
<1>1. IInv /\ [Next]_vars => IInv'
  BY StepSound, StutterSound
<1> QED BY <1>1, InitSound, PTL DEF Spec

(* Whatever withdrawals, checkouts and top-ups overlap, and whoever dies:  *)
(* no debit but the use of cashback takes a wallet below zero, although    *)
(* each decides on a balance it has read before.                           *)
THEOREM DebitsAlwaysCovered == Spec => DebitsCovered
<1>1. IInv /\ [Next]_vars => Covered
  BY StepSound, StutterSound
<1>2. IInv /\ [Next]_vars =>
        [\A u \in Users :
            balance'[u] < balance[u] /\ balance'[u] < 0
                => \E t \in Requests : pc[t] = "apply" /\ pc'[t] = "idle"]_vars
  BY <1>1 DEF Covered
<1> QED BY <1>2, InvariantHolds, PTL DEF Spec, DebitsCovered

(* No callback takes back what another has confirmed, and none makes a     *)
(* top-up PAID without the gateway, for any number of callbacks, repeated, *)
(* failing or dying, under the lock of the top-up.                         *)
THEOREM TopUpsStayPaid == Spec => TopUpStaysPaid
<1>1. IInv /\ [Next]_vars => Confirmed
  BY StepSound, StutterSound
<1>2. IInv /\ [Next]_vars =>
        [\A x \in TopUps :
            /\ topUp[x].status = "PAID" => topUp'[x].status = "PAID"
            /\ topUp'[x].status = "PAID" => topUp'[x].gateway \in {"verified", "waived"}]_vars
  BY <1>1 DEF Confirmed
<1> QED BY <1>2, InvariantHolds, PTL DEF Spec, TopUpStaysPaid

--------------------------------------------------------------------------------
(* Sums over rows.                                                         *)

(* Counting units: one entry of the count changes.                         *)
LEMMA UnitsOfOne ==
    ASSUME NEW x, NEW n \in Nat
    PROVE  IsFiniteSet({x} \X (1..n)) /\ Cardinality({x} \X (1..n)) = n
<1>1. IsFiniteSet({x}) /\ Cardinality({x}) = 1
  BY FS_Singleton
<1>2. IsFiniteSet(1..n) /\ Cardinality(1..n) = n
  BY FS_Interval
<1>3. /\ IsFiniteSet({x} \X (1..n))
      /\ Cardinality({x} \X (1..n)) = Cardinality({x}) * Cardinality(1..n)
  BY <1>1, <1>2, FS_Product
<1> QED BY <1>1, <1>2, <1>3

LEMMA UnitsFinite ==
    ASSUME NEW S, IsFiniteSet(S), NEW f \in [S -> Nat]
    PROVE  IsFiniteSet(UnitsIn(f)) /\ Cardinality(UnitsIn(f)) \in Nat
<1>1. PICK T : T = {{x} \X (1..f[x]) : x \in S}
  OBVIOUS
<1>2. PICK g : g = [x \in S |-> {x} \X (1..f[x])]
  OBVIOUS
<1>3. g \in Surjection(S, T)
  BY <1>1, <1>2 DEF Surjection
<1>4. IsFiniteSet(T)
  BY <1>3, FS_Surjection
<1>5. \A u \in T : IsFiniteSet(u)
  <2> SUFFICES ASSUME NEW x \in S PROVE IsFiniteSet({x} \X (1..f[x]))
    BY <1>1
  <2> QED BY UnitsOfOne
<1>6. UnitsIn(f) = UNION T
  BY <1>1 DEF UnitsIn
<1> QED BY <1>4, <1>5, <1>6, FS_UNION, FS_CardinalityType

LEMMA UnitsChange ==
    ASSUME NEW S, IsFiniteSet(S), NEW f \in [S -> Nat], NEW x \in S, NEW n \in Nat,
           NEW g, g = [f EXCEPT ![x] = n]
    PROVE  /\ Cardinality(UnitsIn(g)) = Cardinality(UnitsIn(f)) - f[x] + n
           /\ Cardinality(UnitsIn(f)) \in Nat /\ Cardinality(UnitsIn(g)) \in Nat
<1>1. g \in [S -> Nat] /\ g[x] = n /\ \A y \in S \ {x} : g[y] = f[y]
  OBVIOUS
<1>2. /\ IsFiniteSet(UnitsIn(f)) /\ Cardinality(UnitsIn(f)) \in Nat
      /\ IsFiniteSet(UnitsIn(g)) /\ Cardinality(UnitsIn(g)) \in Nat
  BY <1>1, UnitsFinite
<1>3. PICK R : R = UNION {{y} \X (1..f[y]) : y \in S \ {x}}
  OBVIOUS
<1>4. UnitsIn(f) = R \cup ({x} \X (1..f[x])) /\ R \cap ({x} \X (1..f[x])) = {}
  BY <1>3 DEF UnitsIn
<1>5. UnitsIn(g) = R \cup ({x} \X (1..n)) /\ R \cap ({x} \X (1..n)) = {}
  BY <1>1, <1>3 DEF UnitsIn
<1>6. IsFiniteSet(R) /\ Cardinality(R) \in Nat
  BY <1>2, <1>4, FS_Subset, FS_CardinalityType
<1>7. Cardinality(UnitsIn(f)) = Cardinality(R) + f[x]
  <2>1. f[x] \in Nat
    OBVIOUS
  <2>2. IsFiniteSet({x} \X (1..f[x])) /\ Cardinality({x} \X (1..f[x])) = f[x]
    BY <2>1, UnitsOfOne
  <2>3. Cardinality(R \cap ({x} \X (1..f[x]))) = 0
    BY <1>4, FS_EmptySet
  <2>4. Cardinality(R \cup ({x} \X (1..f[x])))
          = Cardinality(R) + Cardinality({x} \X (1..f[x])) - Cardinality(R \cap ({x} \X (1..f[x])))
    BY <1>6, <2>2, FS_Union
  <2> QED BY <1>4, <1>6, <2>1, <2>2, <2>3, <2>4
<1>8. Cardinality(UnitsIn(g)) = Cardinality(R) + n
  <2>1. IsFiniteSet({x} \X (1..n)) /\ Cardinality({x} \X (1..n)) = n
    BY UnitsOfOne
  <2>2. Cardinality(R \cap ({x} \X (1..n))) = 0
    BY <1>5, FS_EmptySet
  <2>3. Cardinality(R \cup ({x} \X (1..n)))
          = Cardinality(R) + Cardinality({x} \X (1..n)) - Cardinality(R \cap ({x} \X (1..n)))
    BY <1>6, <2>1, FS_Union
  <2>4. Cardinality(UnitsIn(g)) = Cardinality(R \cup ({x} \X (1..n)))
    BY <1>5
  <2> QED BY <1>6, <2>1, <2>2, <2>3, <2>4
<1> QED BY <1>2, <1>6, <1>7, <1>8

(* The part of row i in an amount that u has in rows of certain statuses.  *)
Share(rows, i, u, statuses) ==
    IF Owner[i] = u /\ rows[i].status \in statuses THEN rows[i].amount ELSE 0

Valued(rows, ids) == \A i \in ids : rows[i].amount \in Nat

LEMMA AmountFinite ==
    ASSUME NEW ids, IsFiniteSet(ids), NEW rows, Valued(rows, ids), NEW u, NEW statuses
    PROVE  AmountOf(rows, ids, u, statuses) \in Nat
<1>1. PICK f : f = [i \in ids |-> Share(rows, i, u, statuses)]
  OBVIOUS
<1>2. f \in [ids -> Nat]
  BY <1>1 DEF Share, Valued
<1>3. Cardinality(UnitsIn(f)) \in Nat
  BY <1>2, UnitsFinite
<1> QED BY <1>1, <1>3 DEF AmountOf, Share, Total

(* Only row x changes.                                                     *)
LEMMA AmountMoves ==
    ASSUME NEW ids, IsFiniteSet(ids), NEW rows, NEW next, NEW x \in ids,
           Valued(rows, ids), Valued(next, ids),
           \A i \in ids \ {x} : next[i] = rows[i],
           NEW u, NEW statuses
    PROVE  AmountOf(next, ids, u, statuses)
             = AmountOf(rows, ids, u, statuses) - Share(rows, x, u, statuses) + Share(next, x, u, statuses)
<1>1. PICK f : f = [i \in ids |-> Share(rows, i, u, statuses)]
  OBVIOUS
<1>2. PICK n : n = Share(next, x, u, statuses)
  OBVIOUS
<1>3. f \in [ids -> Nat] /\ n \in Nat /\ f[x] = Share(rows, x, u, statuses)
  BY <1>1, <1>2 DEF Share, Valued
<1>4. PICK g : g = [f EXCEPT ![x] = n]
  OBVIOUS
<1>5. Cardinality(UnitsIn(g)) = Cardinality(UnitsIn(f)) - f[x] + n
  BY <1>3, <1>4, UnitsChange, ZenonT(60)
<1>6. g = [i \in ids |-> Share(next, i, u, statuses)]
  <2>1. \A i \in ids \ {x} : Share(next, i, u, statuses) = Share(rows, i, u, statuses)
    BY DEF Share
  <2> QED BY <1>1, <1>2, <1>3, <1>4, <2>1
<1>7. AmountOf(rows, ids, u, statuses) = Cardinality(UnitsIn(f))
  BY <1>1 DEF AmountOf, Share, Total
<1>8. AmountOf(next, ids, u, statuses) = Cardinality(UnitsIn(g))
  BY <1>6 DEF AmountOf, Share, Total
<1> QED BY <1>2, <1>3, <1>5, <1>7, <1>8

(* No row's part changes.                                                  *)
LEMMA AmountStays ==
    ASSUME NEW ids, NEW rows, NEW next, NEW u, NEW statuses,
           \A i \in ids : Share(next, i, u, statuses) = Share(rows, i, u, statuses)
    PROVE  AmountOf(next, ids, u, statuses) = AmountOf(rows, ids, u, statuses)
<1>1. [i \in ids |-> Share(next, i, u, statuses)] = [i \in ids |-> Share(rows, i, u, statuses)]
  OBVIOUS
<1> QED BY <1>1 DEF AmountOf, Share

--------------------------------------------------------------------------------
(* Where the money of a wallet comes from.                                 *)

OneAdmin == \A a, b \in Admins : a = b

TableTypes ==
    /\ order \in [Orders -> [status : {"absent", "PENDING", "PAID", "FAILED"}, wallet : Nat]]
    /\ redemptions \in [Orders -> [Rewards -> Nat]]
    /\ due \subseteq Orders /\ credited \subseteq Orders
    /\ spun \in [EventPayments -> Prizes \cup {"none"}]
    /\ received \in 0..MaxRequests /\ failures \in 0..MaxFailures

(* What a request has read still holds, as far as a lock, a unique row or  *)
(* the only administrator sees to it.                                      *)
Facts(t) ==
    LET id == req[t].id
        amount == req[t].amount
    IN
    /\ pc[t] \in {"verify", "credit"} => amount = topUp[id].amount
    /\ pc[t] = "withdraw" => withdrawal[id].status = "absent"
    /\ pc[t] \in {"reject", "payOut"} => t \in Admins /\ withdrawal[id].status # "absent"
    /\ OneAdmin /\ pc[t] \in {"reject", "payOut"} =>
            withdrawal[id].status = "PENDING" /\ amount = withdrawal[id].amount
    /\ pc[t] = "placeOrder" => order[id].status = "absent"
    /\ pc[t] \in {"reward", "referral"} => amount = Reward
    /\ pc[t] = "reward" => req[t].reason \in Rewards
    /\ pc[t] = "referral" => id \notin credited /\ id \notin due /\ order[id].status = "PAID"
    /\ pc[t] = "spin" => req[t].reason \in Prizes /\ (req[t].reason # "other" => amount = Reward)

Single ==
    \A s, t \in Requests :
        pc[s] = pc[t] /\ pc[s] \in {"withdraw", "referral", "placeOrder"} /\ req[s].id = req[t].id => s = t

(* An order has its referral credited once, after it was paid.             *)
Credits == \A o \in Orders :
    /\ o \in due => o \notin credited
    /\ o \in due \/ o \in credited => order[o].status = "PAID"

(* Who may still reward an order found it without that reward.             *)
AtReward(o, r) == {t \in Requests : pc[t] = "reward" /\ req[t].id = o /\ req[t].reason = r}
Lots == \A o \in Orders, r \in Rewards :
            redemptions[o][r] + Cardinality(AtReward(o, r)) <= Cardinality(Requests)

TopUpsOf(u) == AmountOf(topUp, TopUps, u, {"PAID"})
HeldOf(u) == AmountOf(withdrawal, Withdrawals, u, {"PENDING", "PAID"})
GrantedOf(u) ==
    Total([o \in Orders |-> IF Owner[o] = u THEN redemptions[o]["CASHBACK"] + redemptions[o]["COUPON"] ELSE 0])
ReferredOf(u) == Cardinality({o \in credited : Referrer[o] = u})
WonOf(u) == Cardinality({e \in EventPayments : Owner[e] = u /\ spun[e] \in {"CASHBACK", "GIFT"}})
Count(u) == GrantedOf(u) + ReferredOf(u) + WonOf(u)
Explains(u) == TopUpsOf(u) + Reward * Count(u) + ledger[u]["USED"] - HeldOf(u)
Books == \A u \in Users : balance[u] = Explains(u)

LEMMA Finite ==
    /\ IsFiniteSet(TopUps) /\ IsFiniteSet(Withdrawals) /\ IsFiniteSet(Orders) /\ IsFiniteSet(EventPayments)
    /\ IsFiniteSet(Requests) /\ Cardinality(Requests) \in Nat
<1>1. IsFiniteSet(Rows) /\ IsFiniteSet(Requests)
  BY RowsAssumption
<1> QED BY <1>1, FS_Subset, FS_CardinalityType DEF Rows

LEMMA FigureTypes ==
    ASSUME IInv, TableTypes, NEW u
    PROVE  TopUpsOf(u) \in Nat /\ HeldOf(u) \in Nat /\ GrantedOf(u) \in Nat /\ ReferredOf(u) \in Nat /\ WonOf(u) \in Nat
<1>1. TopUpsOf(u) \in Nat
  BY Finite, AmountFinite DEF Valued, TopUpsOf, IInv, Types, TopUpRow
<1>2. HeldOf(u) \in Nat
  BY Finite, AmountFinite DEF Valued, HeldOf, IInv, Types
<1>3. GrantedOf(u) \in Nat
  <2>1. PICK f : f = [o \in Orders |-> IF Owner[o] = u THEN redemptions[o]["CASHBACK"] + redemptions[o]["COUPON"] ELSE 0]
    OBVIOUS
  <2>2. f \in [Orders -> Nat]
    BY <2>1 DEF TableTypes, Rewards
  <2>3. Cardinality(UnitsIn(f)) \in Nat
    BY <2>2, Finite, UnitsFinite
  <2> QED BY <2>1, <2>3 DEF GrantedOf, Total
<1>4. ReferredOf(u) \in Nat
  <2>1. {o \in credited : Referrer[o] = u} \subseteq Orders
    BY DEF TableTypes
  <2> QED BY <2>1, Finite, FS_Subset, FS_CardinalityType DEF ReferredOf
<1>5. WonOf(u) \in Nat
  BY Finite, FS_Subset, FS_CardinalityType DEF WonOf
<1> QED BY <1>1, <1>2, <1>3, <1>4, <1>5

--------------------------------------------------------------------------------
(* The tables keep their types.                                            *)

SameTables == UNCHANGED <<order, redemptions, due, credited, spun>>

LEMMA SameTableTypes ==
    ASSUME TableTypes, SameTables, received' \in 0..MaxRequests, failures' \in 0..MaxFailures
    PROVE  TableTypes'
BY DEF TableTypes, SameTables

LEMMA BoundTypes ==
    ASSUME TableTypes, NEW t \in Requests, Arrive(t) \/ Handle(t) \/ Fail(t)
    PROVE  received' \in 0..MaxRequests /\ failures' \in 0..MaxFailures
<1>0. /\ received \in Nat /\ failures \in Nat /\ received <= MaxRequests /\ failures <= MaxFailures
      /\ MaxRequests \in Nat /\ MaxFailures \in Nat
  BY AmountsAssumption DEF TableTypes
<1>1. CASE Arrive(t)
  <2>1. received < MaxRequests /\ received' = received + 1 /\ failures' = failures
    BY <1>1 DEF Arrive, CallbackBegin, TopUp, ResolveWithdrawal, RequestWithdrawal, ApplyToCheckout,
                ReferralBegin, RewardBegin, SpinBegin, ApplyBegin, Begin
  <2> QED BY <1>0, <2>1
<1>2. CASE Handle(t)
  <2>1. received' = received /\ failures' = failures
    BY <1>2 DEF Handle, TopUpSent, TopUpRefused, TopUpMocked, VerifyTopUp, VerifyFails, CreditTopUp,
                HoldWithdrawal, RejectWithdrawal, PayOutWithdrawal, PlaceOrder, GrantReward,
                CreditReferrer, Spin, Apply, bounds
  <2> QED BY <1>0, <2>1
<1>3. CASE Fail(t)
  BY <1>0, <1>3 DEF Fail
<1> QED BY <1>1, <1>2, <1>3

LEMMA TablesKept ==
    ASSUME IInv, TableTypes, \A t \in Requests : Facts(t), Next
    PROVE  TableTypes'
<1>1. ASSUME NEW t \in Requests, Arrive(t) PROVE TableTypes'
  <2>1. received' \in 0..MaxRequests /\ failures' \in 0..MaxFailures
    BY <1>1, BoundTypes
  <2>2. UNCHANGED <<order, redemptions, credited, spun>> /\ due' \subseteq due
    BY <1>1 DEF Arrive, CallbackBegin, TopUp, ResolveWithdrawal, RequestWithdrawal, ApplyToCheckout,
                ReferralBegin, RewardBegin, SpinBegin, ApplyBegin, tables
  <2> QED BY <2>1, <2>2 DEF TableTypes
<1>2. ASSUME NEW t \in Requests, Handle(t) PROVE TableTypes'
  <2>1. received' \in 0..MaxRequests /\ failures' \in 0..MaxFailures
    BY <1>2, BoundTypes
  <2>2. CASE \/ TopUpSent(t) \/ TopUpRefused(t) \/ TopUpMocked(t) \/ VerifyTopUp(t) \/ VerifyFails(t)
             \/ CreditTopUp(t) \/ HoldWithdrawal(t) \/ RejectWithdrawal(t) \/ PayOutWithdrawal(t) \/ Apply(t)
    <3>1. SameTables
      BY <2>2 DEF SameTables, TopUpSent, TopUpRefused, TopUpMocked, VerifyTopUp, VerifyFails, CreditTopUp,
                  HoldWithdrawal, RejectWithdrawal, PayOutWithdrawal, Apply, tables
    <3> QED BY <2>1, <3>1, SameTableTypes
  <2>3. CASE PlaceOrder(t)
    <3>1. PICK o \in Orders : o = req[t].id
      BY <2>3 DEF PlaceOrder, IInv, IdSound, OrderPlaces
    <3>2. req[t].amount \in Nat
      BY DEF IInv, Types
    <3>3. order' = order \/ order' = [order EXCEPT ![o] = [status |-> "PENDING", wallet |-> req[t].amount]]
      BY <2>3, <3>1 DEF PlaceOrder
    <3>4. order' \in [Orders -> [status : {"absent", "PENDING", "PAID", "FAILED"}, wallet : Nat]]
      BY <3>2, <3>3 DEF TableTypes
    <3>5. UNCHANGED <<redemptions, due, credited, spun>>
      BY <2>3 DEF PlaceOrder
    <3> QED BY <2>1, <3>4, <3>5 DEF TableTypes
  <2>4. CASE GrantReward(t)
    <3>1. PICK o \in Orders, r \in Rewards : o = req[t].id /\ r = req[t].reason
      BY <2>4 DEF GrantReward, IInv, IdSound, OrderPlaces, Facts
    <3>2. redemptions' = [redemptions EXCEPT ![o] = [redemptions[o] EXCEPT ![r] = @ + 1]]
      BY <2>4, <3>1 DEF GrantReward, TableTypes
    <3>3. redemptions[o] \in [Rewards -> Nat]
      BY DEF TableTypes
    <3>4. [redemptions[o] EXCEPT ![r] = @ + 1] \in [Rewards -> Nat]
      BY <3>3
    <3>5. redemptions' \in [Orders -> [Rewards -> Nat]]
      BY <3>2, <3>4 DEF TableTypes
    <3>6. UNCHANGED <<order, due, credited, spun>>
      BY <2>4 DEF GrantReward
    <3> QED BY <2>1, <3>5, <3>6 DEF TableTypes
  <2>5. CASE CreditReferrer(t)
    <3>1. req[t].id \in Orders
      BY <2>5 DEF CreditReferrer, IInv, IdSound, OrderPlaces
    <3>2. credited' = credited \cup {req[t].id} /\ UNCHANGED <<order, redemptions, due, spun>>
      BY <2>5 DEF CreditReferrer
    <3> QED BY <2>1, <3>1, <3>2 DEF TableTypes
  <2>6. CASE Spin(t)
    <3>1. req[t].id \in EventPayments /\ req[t].reason \in Prizes
      BY <2>6 DEF Spin, IInv, IdSound, Facts
    <3>2. spun' = spun \/ spun' = [spun EXCEPT ![req[t].id] = req[t].reason]
      BY <2>6 DEF Spin
    <3>3. spun' \in [EventPayments -> Prizes \cup {"none"}]
      BY <3>1, <3>2 DEF TableTypes
    <3>4. UNCHANGED <<order, redemptions, due, credited>>
      BY <2>6 DEF Spin
    <3> QED BY <2>1, <3>3, <3>4 DEF TableTypes
  <2> QED BY <1>2, <2>2, <2>3, <2>4, <2>5, <2>6 DEF Handle
<1>3. ASSUME NEW t \in Requests, Fail(t) PROVE TableTypes'
  BY <1>3, BoundTypes, SameTableTypes DEF Fail, SameTables, tables
<1>4. ASSUME NEW x \in TopUps, CustomerPays(x) PROVE TableTypes'
  BY <1>4 DEF CustomerPays, TableTypes, bounds
<1>5. ASSUME NEW o \in Orders, NEW s \in {"PAID", "FAILED"}, SettleOrder(o, s) PROVE TableTypes'
  <2>1. order' = [order EXCEPT ![o].status = s] /\ due' \subseteq due \cup {o}
        /\ UNCHANGED <<redemptions, credited, spun, received, failures>>
    BY <1>5 DEF SettleOrder, bounds
  <2>2. order' \in [Orders -> [status : {"absent", "PENDING", "PAID", "FAILED"}, wallet : Nat]]
    BY <2>1 DEF TableTypes
  <2> QED BY <2>1, <2>2 DEF TableTypes
<1>6. ASSUME NEW u \in Users, LapseCashback(u) PROVE TableTypes'
  BY <1>6 DEF LapseCashback, TableTypes, bounds
<1> QED BY <1>1, <1>2, <1>3, <1>4, <1>5, <1>6 DEF Next

--------------------------------------------------------------------------------
(* What requests have read, under the steps of the others.                 *)

(* A step leaves alone what s relies on.                                   *)
Keeps(s) ==
    LET id == req[s].id IN
    /\ pc[s] \in {"verify", "credit"} => topUp'[id].amount = topUp[id].amount
    /\ pc[s] = "withdraw" => withdrawal'[id].status = "absent"
    /\ pc[s] \in {"reject", "payOut"} => withdrawal'[id].status # "absent"
    /\ OneAdmin /\ pc[s] \in {"reject", "payOut"} => withdrawal'[id] = withdrawal[id]
    /\ pc[s] = "placeOrder" => order'[id].status = "absent"
    /\ pc[s] = "referral" => id \notin credited' /\ id \notin due' /\ order'[id].status = "PAID"

LEMMA FactsStay ==
    ASSUME NEW s \in Requests, Facts(s), Keeps(s), pc'[s] = pc[s], req'[s] = req[s]
    PROVE  Facts(s)'
BY DEF Facts, Keeps

LEMMA SameKeeps ==
    ASSUME NEW s \in Requests, Facts(s), UNCHANGED <<topUp, withdrawal, order, due, credited>>
    PROVE  Keeps(s)
BY DEF Facts, Keeps

LEMMA FactsOfIdle ==
    ASSUME NEW t \in Requests, pc'[t] \in {"idle", "askGateway", "apply"}
    PROVE  Facts(t)'
BY DEF Facts

LEMMA FactsOfAll ==
    ASSUME \A s \in Requests : Facts(s), NEW t \in Requests, Others(t), Facts(t)',
           \A s \in Requests \ {t} : Keeps(s)
    PROVE  (\A s \in Requests : Facts(s))'
<1>1. \A s \in Requests \ {t} : Facts(s)'
  BY FactsStay DEF Others
<1> QED BY <1>1

Locked == {"withdraw", "referral", "placeOrder"}

LEMMA SingleStays ==
    ASSUME Single, NEW t \in Requests, Others(t), pc'[t] \notin Locked
    PROVE  Single'
BY DEF Single, Locked, Others

LEMMA SingleBegins ==
    ASSUME Single, NEW t \in Requests, Others(t),
           \A s \in Requests \ {t} : ~(pc[s] = pc'[t] /\ req[s].id = req'[t].id)
    PROVE  Single'
BY DEF Single, Others

LEMMA CreditsStay ==
    ASSUME Credits, UNCHANGED <<order, credited>>, due' \subseteq due
    PROVE  Credits'
BY DEF Credits

LEMMA LotsStay ==
    ASSUME Lots, redemptions' = redemptions, TableTypes,
           NEW t \in Requests, Others(t), pc'[t] # "reward"
    PROVE  Lots'
<1> SUFFICES ASSUME NEW o \in Orders, NEW r \in Rewards
             PROVE  redemptions'[o][r] + Cardinality(AtReward(o, r)') <= Cardinality(Requests)
  BY DEF Lots
<1>1. PICK n \in Nat : n = redemptions[o][r]
  BY DEF TableTypes
<1>2. AtReward(o, r)' \subseteq AtReward(o, r) /\ IsFiniteSet(AtReward(o, r))
  <2>1. AtReward(o, r)' \subseteq AtReward(o, r)
    BY DEF AtReward, Others
  <2>2. AtReward(o, r) \subseteq Requests
    BY DEF AtReward
  <2> QED BY <2>1, <2>2, Finite, FS_Subset
<1>3. /\ Cardinality(AtReward(o, r)') <= Cardinality(AtReward(o, r))
      /\ Cardinality(AtReward(o, r)') \in Nat /\ Cardinality(AtReward(o, r)) \in Nat
  BY <1>2, FS_Subset, FS_CardinalityType
<1>4. n + Cardinality(AtReward(o, r)) <= Cardinality(Requests) /\ redemptions'[o][r] = n
  BY <1>1 DEF Lots
<1> QED BY <1>3, <1>4, Finite

Known ==
    /\ \A t \in Requests : Facts(t)
    /\ Single /\ Credits /\ Lots
KInv == IInv /\ TableTypes /\ Known

LEMMA BeginsAs ==
    ASSUME KInv, NEW t \in Requests, NEW label, NEW id, NEW amount, NEW reason,
           Begin(t, label, id, amount, reason)
    PROVE  /\ Others(t) /\ pc[t] = "idle" /\ pc'[t] = label
           /\ req'[t].id = id /\ req'[t].amount = amount /\ req'[t].reason = reason
BY DEF KInv, IInv, Types, Others, Begin

LEMMA FinishesAs ==
    ASSUME KInv, NEW t \in Requests, Finish(t)
    PROVE  Others(t) /\ pc'[t] = "idle" /\ Facts(t)' /\ Single' /\ pc'[t] # "reward"
<1>1. Others(t) /\ pc'[t] = "idle"
  BY Finishes DEF KInv, IInv
<1>2. Facts(t)'
  BY <1>1, FactsOfIdle
<1>3. Single'
  BY <1>1, SingleStays DEF KInv, Known, Locked
<1> QED BY <1>1, <1>2, <1>3

(* A request begins and changes no table.                                  *)
LEMMA ReadsOnly ==
    ASSUME KInv, NEW t \in Requests, Others(t), UNCHANGED tables, pc'[t] # "reward", Facts(t)', Single'
    PROVE  Known'
<1>1. UNCHANGED <<topUp, withdrawal, order, redemptions, due, credited>>
  BY DEF tables
<1>2. \A s \in Requests \ {t} : Keeps(s)
  BY <1>1, SameKeeps DEF KInv, Known
<1>3. (\A s \in Requests : Facts(s))'
  BY <1>2, FactsOfAll DEF KInv, Known
<1>4. Credits' /\ Lots'
  BY <1>1, CreditsStay, LotsStay DEF KInv, Known
<1> QED BY <1>3, <1>4 DEF Known

LEMMA CallbackKnown ==
    ASSUME KInv, NEW t \in Requests, NEW x \in TopUps, CallbackBegin(t, x)
    PROVE  Known'
<1>1. UNCHANGED tables /\ topUp' = topUp
  BY DEF CallbackBegin, tables
<1>2. Others(t) /\ pc'[t] = "verify" /\ req'[t].id = x /\ req'[t].amount = topUp[x].amount
  BY BeginsAs DEF CallbackBegin
<1>3. Facts(t)'
  BY <1>1, <1>2 DEF Facts
<1>4. Single'
  BY <1>2, SingleStays DEF KInv, Known, Locked
<1> QED BY <1>1, <1>2, <1>3, <1>4, ReadsOnly

LEMMA ResolveKnown ==
    ASSUME KInv, NEW t \in Requests, NEW w \in Withdrawals, ResolveWithdrawal(t, w)
    PROVE  Known'
<1>1. UNCHANGED tables /\ withdrawal' = withdrawal
  BY DEF ResolveWithdrawal, tables
<1>2. PICK action \in {"reject", "payOut"} : Begin(t, action, w, withdrawal[w].amount, "ADJUSTMENT")
  BY DEF ResolveWithdrawal
<1>3. Others(t) /\ pc'[t] = action /\ req'[t].id = w /\ req'[t].amount = withdrawal[w].amount
  BY <1>2, BeginsAs
<1>4. Facts(t)'
  BY <1>1, <1>3 DEF Facts, ResolveWithdrawal
<1>5. Single'
  BY <1>3, SingleStays DEF KInv, Known, Locked
<1> QED BY <1>1, <1>3, <1>4, <1>5, ReadsOnly

LEMMA RequestKnown ==
    ASSUME KInv, NEW t \in Requests, NEW w \in Withdrawals, NEW a \in Amounts, RequestWithdrawal(t, w, a)
    PROVE  Known'
<1>1. UNCHANGED tables /\ withdrawal' = withdrawal
  BY DEF RequestWithdrawal, tables
<1>2. Others(t) /\ pc'[t] = "withdraw" /\ req'[t].id = w
  BY BeginsAs DEF RequestWithdrawal
<1>3. Facts(t)'
  BY <1>1, <1>2 DEF Facts, RequestWithdrawal
<1>4. Single'
  BY <1>2, SingleBegins DEF KInv, Known, RequestWithdrawal, Working
<1> QED BY <1>1, <1>2, <1>3, <1>4, ReadsOnly

LEMMA CheckoutKnown ==
    ASSUME KInv, NEW t \in Requests, NEW o \in Orders, NEW a, ApplyToCheckout(t, o, a)
    PROVE  Known'
<1>1. UNCHANGED tables /\ order' = order
  BY DEF ApplyToCheckout, tables
<1>2. Others(t) /\ pc'[t] = "placeOrder" /\ req'[t].id = o
  BY BeginsAs DEF ApplyToCheckout
<1>3. Facts(t)'
  BY <1>1, <1>2 DEF Facts, ApplyToCheckout
<1>4. Single'
  BY <1>2, SingleBegins DEF KInv, Known, ApplyToCheckout, CheckoutOf
<1> QED BY <1>1, <1>2, <1>3, <1>4, ReadsOnly

LEMMA SpinKnown ==
    ASSUME KInv, NEW t \in Requests, NEW e \in EventPayments, SpinBegin(t, e)
    PROVE  Known'
<1>1. UNCHANGED tables
  BY DEF SpinBegin
<1>2. PICK prize \in Prizes : Begin(t, "spin", e, IF prize = "other" THEN 0 ELSE Reward, prize)
  BY DEF SpinBegin
<1>3. Others(t) /\ pc'[t] = "spin" /\ req'[t].reason = prize
      /\ req'[t].amount = IF prize = "other" THEN 0 ELSE Reward
  BY <1>2, BeginsAs
<1>4. Facts(t)'
  BY <1>3 DEF Facts
<1>5. Single'
  BY <1>3, SingleStays DEF KInv, Known, Locked
<1> QED BY <1>1, <1>3, <1>4, <1>5, ReadsOnly

LEMMA ApplyKnown ==
    ASSUME KInv, NEW t \in Requests, NEW u \in Users, NEW a \in Amounts, ApplyBegin(t, u, a)
    PROVE  Known'
<1>1. UNCHANGED tables
  BY DEF ApplyBegin
<1>2. Others(t) /\ pc'[t] = "apply"
  BY BeginsAs DEF ApplyBegin
<1>3. Single'
  BY <1>2, SingleStays DEF KInv, Known, Locked
<1> QED BY <1>1, <1>2, <1>3, FactsOfIdle, ReadsOnly

LEMMA TopUpKnown ==
    ASSUME KInv, NEW t \in Requests, NEW x \in TopUps, NEW a \in Amounts, TopUp(t, x, a)
    PROVE  Known'
<1>1. Others(t) /\ pc'[t] = "askGateway" /\ pc'[t] # "reward"
  BY BeginsAs DEF TopUp
<1>2. UNCHANGED <<withdrawal, order, redemptions, due, credited>>
  BY DEF TopUp
<1>3. \A y \in TopUps \ {x} : topUp'[y] = topUp[y]
  BY DEF TopUp, KInv, IInv, Types
<1>4. \A s \in Requests \ {t} : Keeps(s)
  <2> TAKE s \in Requests \ {t}
  <2>1. pc[s] \in {"verify", "credit"} => req[s].id \in TopUps \ {x}
    BY DEF TopUp, KInv, IInv, IdSound, TopUpSound, AtTopUp, TopUpPlaces, RowSound
  <2> QED BY <1>2, <1>3, <2>1 DEF Keeps, KInv, Known, Facts
<1>5. (\A s \in Requests : Facts(s))'
  BY <1>1, <1>4, FactsOfIdle, FactsOfAll DEF KInv, Known
<1>6. Single' /\ Credits' /\ Lots'
  BY <1>1, <1>2, SingleStays, CreditsStay, LotsStay DEF KInv, Known, Locked
<1> QED BY <1>5, <1>6 DEF Known

LEMMA ReferralKnown ==
    ASSUME KInv, NEW t \in Requests, NEW o \in Orders, ReferralBegin(t, o)
    PROVE  Known'
<1>1. Others(t) /\ pc'[t] = "referral" /\ req'[t].id = o /\ req'[t].amount = Reward /\ pc'[t] # "reward"
  BY BeginsAs DEF ReferralBegin
<1>2. UNCHANGED <<topUp, withdrawal, order, redemptions, credited>> /\ due' = due \ {o} /\ o \in due /\ o \notin credited
  BY DEF ReferralBegin
<1>3. \A s \in Requests \ {t} : Keeps(s)
  BY <1>2 DEF Keeps, KInv, Known, Facts
<1>4. Facts(t)'
  BY <1>1, <1>2 DEF Facts, KInv, Known, Credits
<1>5. (\A s \in Requests : Facts(s))'
  BY <1>1, <1>3, <1>4, FactsOfAll DEF KInv, Known
<1>6. Single'
  <2>1. \A s \in Requests \ {t} : ~(pc[s] = "referral" /\ req[s].id = o)
    BY <1>2 DEF KInv, Known, Facts
  <2> QED BY <1>1, <2>1, SingleBegins DEF KInv, Known
<1>7. Credits' /\ Lots'
  BY <1>1, <1>2, CreditsStay, LotsStay DEF KInv, Known
<1> QED BY <1>5, <1>6, <1>7 DEF Known

LEMMA RewardKnown ==
    ASSUME KInv, NEW t \in Requests, NEW o \in Orders, NEW r \in Rewards, RewardBegin(t, o, r)
    PROVE  Known'
<1>1. /\ Others(t) /\ pc'[t] = "reward" /\ pc[t] = "idle"
      /\ req'[t].id = o /\ req'[t].amount = Reward /\ req'[t].reason = r
  BY BeginsAs DEF RewardBegin
<1>2. UNCHANGED <<topUp, withdrawal, order, redemptions, due, credited>> /\ redemptions[o][r] = 0
  BY DEF RewardBegin, tables
<1>3. \A s \in Requests \ {t} : Keeps(s)
  BY <1>2, SameKeeps DEF KInv, Known
<1>4. Facts(t)'
  BY <1>1 DEF Facts
<1>5. (\A s \in Requests : Facts(s))'
  BY <1>1, <1>3, <1>4, FactsOfAll DEF KInv, Known
<1>6. Single' /\ Credits'
  BY <1>1, <1>2, SingleStays, CreditsStay DEF KInv, Known, Locked
<1>7. Lots'
  <2> SUFFICES ASSUME NEW o2 \in Orders, NEW r2 \in Rewards
               PROVE  redemptions'[o2][r2] + Cardinality(AtReward(o2, r2)') <= Cardinality(Requests)
    BY DEF Lots
  <2>1. PICK n \in Nat : n = redemptions[o2][r2]
    BY DEF KInv, TableTypes
  <2>2. redemptions'[o2][r2] = n
    BY <1>2, <2>1
  <2>3. AtReward(o2, r2) \subseteq Requests /\ AtReward(o2, r2)' \subseteq Requests
    BY DEF AtReward
  <2>4. /\ IsFiniteSet(AtReward(o2, r2)) /\ IsFiniteSet(AtReward(o2, r2)')
        /\ Cardinality(AtReward(o2, r2)) \in Nat /\ Cardinality(AtReward(o2, r2)') \in Nat
        /\ Cardinality(AtReward(o2, r2)') <= Cardinality(Requests)
    BY <2>3, Finite, FS_Subset, FS_CardinalityType
  <2>5. CASE o2 = o /\ r2 = r
    <3>1. n = 0
      BY <1>2, <2>1, <2>5
    <3> QED BY <2>2, <2>4, <3>1
  <2>6. CASE ~(o2 = o /\ r2 = r)
    <3>1. AtReward(o2, r2)' \subseteq AtReward(o2, r2)
      BY <1>1, <2>6 DEF AtReward, Others
    <3>2. Cardinality(AtReward(o2, r2)') <= Cardinality(AtReward(o2, r2))
      BY <2>4, <3>1, FS_Subset
    <3>3. n + Cardinality(AtReward(o2, r2)) <= Cardinality(Requests)
      BY <2>1 DEF KInv, Known, Lots
    <3> QED BY <2>2, <2>4, <3>2, <3>3, Finite
  <2> QED BY <2>5, <2>6
<1> QED BY <1>5, <1>6, <1>7 DEF Known

LEMMA EndsKnown ==
    ASSUME KInv, NEW t \in Requests, Finish(t), UNCHANGED <<order, redemptions, due, credited>>,
           \A s \in Requests \ {t} : Keeps(s)
    PROVE  Known'
<1>1. Others(t) /\ Facts(t)' /\ Single' /\ pc'[t] # "reward"
  BY FinishesAs
<1>2. (\A s \in Requests : Facts(s))'
  BY <1>1, FactsOfAll DEF KInv, Known
<1>3. Credits' /\ Lots'
  BY <1>1, CreditsStay, LotsStay DEF KInv, Known
<1> QED BY <1>1, <1>2, <1>3 DEF Known

(* Nobody else is at work on the top-up that t writes.                     *)
LEMMA TopUpAlone ==
    ASSUME KInv, NEW t \in Requests, AtTopUp(t), UNCHANGED <<withdrawal, order, due, credited>>,
           \A y \in TopUps \ {req[t].id} : topUp'[y] = topUp[y]
    PROVE  \A s \in Requests \ {t} : Keeps(s)
<1> TAKE s \in Requests \ {t}
<1>1. pc[s] \in {"verify", "credit"} => req[s].id \in TopUps \ {req[t].id}
  BY DEF KInv, IInv, IdSound, Alone, AtTopUp, TopUpPlaces
<1> QED BY <1>1 DEF Keeps, KInv, Known, Facts

LEMMA TopUpHandledKnown ==
    ASSUME KInv, NEW t \in Requests,
           TopUpSent(t) \/ TopUpRefused(t) \/ TopUpMocked(t) \/ VerifyFails(t) \/ CreditTopUp(t)
    PROVE  Known'
<1>1. AtTopUp(t) /\ Finish(t) /\ UNCHANGED <<withdrawal, order, redemptions, due, credited>>
  BY DEF TopUpSent, TopUpRefused, TopUpMocked, VerifyFails, CreditTopUp, AtTopUp, TopUpPlaces
<1>2. \A y \in TopUps \ {req[t].id} : topUp'[y] = topUp[y]
  BY DEF TopUpSent, TopUpRefused, TopUpMocked, VerifyFails, CreditTopUp, KInv, IInv, Types
<1> QED BY <1>1, <1>2, TopUpAlone, EndsKnown

LEMMA VerifyKnown ==
    ASSUME KInv, NEW t \in Requests, VerifyTopUp(t)
    PROVE  Known'
<1>1. PICK x \in TopUps : x = req[t].id
  BY DEF VerifyTopUp, KInv, IInv, IdSound, AtTopUp, TopUpPlaces
<1>2. AtTopUp(t) /\ pc[t] = "verify" /\ UNCHANGED <<withdrawal, order, redemptions, due, credited, req>>
  BY DEF VerifyTopUp, AtTopUp, TopUpPlaces
<1>3. topUp' = [topUp EXCEPT ![x].gateway = "verified"] /\ pc' = [pc EXCEPT ![t] = "credit"]
  BY <1>1 DEF VerifyTopUp
<1>4. /\ \A y \in TopUps \ {req[t].id} : topUp'[y] = topUp[y]
      /\ topUp'[x].amount = topUp[x].amount
  BY <1>1, <1>3 DEF KInv, IInv, Types, TopUpRow
<1>5. Others(t) /\ pc'[t] = "credit" /\ req'[t] = req[t]
  BY <1>2, <1>3 DEF KInv, IInv, Types, Others
<1>6. Facts(t)'
  BY <1>1, <1>2, <1>4, <1>5 DEF Facts, KInv, Known
<1>7. (\A s \in Requests : Facts(s))'
  BY <1>2, <1>4, <1>5, <1>6, TopUpAlone, FactsOfAll DEF KInv, Known
<1>8. Single' /\ Credits' /\ Lots'
  BY <1>2, <1>5, SingleStays, CreditsStay, LotsStay DEF KInv, Known, Locked
<1> QED BY <1>7, <1>8 DEF Known

LEMMA HoldKnown ==
    ASSUME KInv, NEW t \in Requests, HoldWithdrawal(t)
    PROVE  Known'
<1>1. PICK w \in Withdrawals : w = req[t].id
  BY DEF HoldWithdrawal, KInv, IInv, IdSound, WithdrawalPlaces
<1>2. Finish(t) /\ pc[t] = "withdraw" /\ UNCHANGED <<topUp, order, redemptions, due, credited>>
      /\ withdrawal[w].status = "absent"
  BY <1>1 DEF HoldWithdrawal, KInv, Known, Facts
<1>3. \A v \in Withdrawals \ {w} : withdrawal'[v] = withdrawal[v]
  BY <1>1 DEF HoldWithdrawal, KInv, IInv, Types
<1>4. \A s \in Requests \ {t} : Keeps(s)
  <2> TAKE s \in Requests \ {t}
  <2>1. pc[s] \in {"withdraw", "reject", "payOut"} => req[s].id \in Withdrawals
    BY DEF KInv, IInv, IdSound, WithdrawalPlaces
  <2>2. pc[s] = "withdraw" => req[s].id # w
    BY <1>1, <1>2 DEF KInv, Known, Single
  <2>3. pc[s] \in {"reject", "payOut"} => req[s].id # w
    BY <1>2 DEF KInv, Known, Facts
  <2> QED BY <1>2, <1>3, <2>1, <2>2, <2>3 DEF Keeps, KInv, Known, Facts
<1> QED BY <1>2, <1>4, EndsKnown

LEMMA ResolvedKnown ==
    ASSUME KInv, NEW t \in Requests, RejectWithdrawal(t) \/ PayOutWithdrawal(t)
    PROVE  Known'
<1>1. PICK w \in Withdrawals : w = req[t].id
  BY DEF RejectWithdrawal, PayOutWithdrawal, KInv, IInv, IdSound, WithdrawalPlaces
<1>2. /\ Finish(t) /\ pc[t] \in {"reject", "payOut"} /\ UNCHANGED <<topUp, order, redemptions, due, credited>>
      /\ t \in Admins /\ withdrawal[w].status # "absent"
  BY <1>1 DEF RejectWithdrawal, PayOutWithdrawal, KInv, Known, Facts
<1>3. /\ \A v \in Withdrawals \ {w} : withdrawal'[v] = withdrawal[v]
      /\ withdrawal'[w].status # "absent"
  BY <1>1 DEF RejectWithdrawal, PayOutWithdrawal, KInv, IInv, Types
<1>4. \A s \in Requests \ {t} : Keeps(s)
  <2> TAKE s \in Requests \ {t}
  <2>1. pc[s] \in {"withdraw", "reject", "payOut"} => req[s].id \in Withdrawals
    BY DEF KInv, IInv, IdSound, WithdrawalPlaces
  <2>2. pc[s] = "withdraw" => req[s].id # w
    BY <1>2 DEF KInv, Known, Facts
  <2>3. OneAdmin => pc[s] \notin {"reject", "payOut"}
    BY <1>2 DEF KInv, Known, Facts, OneAdmin
  <2> QED BY <1>2, <1>3, <2>1, <2>2, <2>3 DEF Keeps, KInv, Known, Facts
<1> QED BY <1>2, <1>4, EndsKnown

LEMMA PlaceKnown ==
    ASSUME KInv, NEW t \in Requests, PlaceOrder(t)
    PROVE  Known'
<1>1. PICK o \in Orders : o = req[t].id
  BY DEF PlaceOrder, KInv, IInv, IdSound, OrderPlaces
<1>2. Finish(t) /\ pc[t] = "placeOrder" /\ UNCHANGED <<topUp, withdrawal, redemptions, due, credited>>
      /\ order[o].status = "absent"
  BY <1>1 DEF PlaceOrder, KInv, Known, Facts
<1>3. \A p \in Orders \ {o} : order'[p] = order[p]
  BY <1>1 DEF PlaceOrder, KInv, TableTypes
<1>4. \A s \in Requests \ {t} : Keeps(s)
  <2> TAKE s \in Requests \ {t}
  <2>1. pc[s] \in {"placeOrder", "referral"} => req[s].id \in Orders
    BY DEF KInv, IInv, IdSound, OrderPlaces
  <2>2. pc[s] = "placeOrder" => req[s].id # o
    BY <1>1, <1>2 DEF KInv, Known, Single
  <2>3. pc[s] = "referral" => req[s].id # o
    BY <1>2 DEF KInv, Known, Facts
  <2> QED BY <1>2, <1>3, <2>1, <2>2, <2>3 DEF Keeps, KInv, Known, Facts
<1>5. Others(t) /\ Facts(t)' /\ Single' /\ pc'[t] # "reward"
  BY <1>2, FinishesAs
<1>6. (\A s \in Requests : Facts(s))'
  BY <1>4, <1>5, FactsOfAll DEF KInv, Known
<1>7. Credits'
  BY <1>2, <1>3 DEF KInv, Known, Credits
<1>8. Lots'
  BY <1>2, <1>5, LotsStay DEF KInv, Known
<1> QED BY <1>5, <1>6, <1>7, <1>8 DEF Known

LEMMA CreditReferrerKnown ==
    ASSUME KInv, NEW t \in Requests, CreditReferrer(t)
    PROVE  Known'
<1>1. PICK o \in Orders : o = req[t].id
  BY DEF CreditReferrer, KInv, IInv, IdSound, OrderPlaces
<1>2. /\ Finish(t) /\ pc[t] = "referral" /\ UNCHANGED <<topUp, withdrawal, order, redemptions, due>>
      /\ credited' = credited \cup {o} /\ o \notin due /\ order[o].status = "PAID"
  BY <1>1 DEF CreditReferrer, KInv, Known, Facts
<1>3. \A s \in Requests \ {t} : Keeps(s)
  <2> TAKE s \in Requests \ {t}
  <2>1. pc[s] = "referral" => req[s].id # o
    BY <1>1, <1>2 DEF KInv, Known, Single
  <2> QED BY <1>2, <2>1 DEF Keeps, KInv, Known, Facts
<1>4. Others(t) /\ Facts(t)' /\ Single' /\ pc'[t] # "reward"
  BY <1>2, FinishesAs
<1>5. (\A s \in Requests : Facts(s))'
  BY <1>3, <1>4, FactsOfAll DEF KInv, Known
<1>6. Credits'
  BY <1>2 DEF KInv, Known, Credits
<1>7. Lots'
  BY <1>2, <1>4, LotsStay DEF KInv, Known
<1> QED BY <1>4, <1>5, <1>6, <1>7 DEF Known

LEMMA GrantKnown ==
    ASSUME KInv, NEW t \in Requests, GrantReward(t)
    PROVE  Known'
<1>1. PICK o \in Orders, r \in Rewards : o = req[t].id /\ r = req[t].reason
  BY DEF GrantReward, KInv, IInv, IdSound, OrderPlaces, Known, Facts
<1>2. Finish(t) /\ pc[t] = "reward" /\ UNCHANGED <<topUp, withdrawal, order, due, credited>>
  BY DEF GrantReward
<1>3. /\ redemptions'[o][r] = redemptions[o][r] + 1
      /\ \A p \in Orders, q \in Rewards : ~(p = o /\ q = r) => redemptions'[p][q] = redemptions[p][q]
  BY <1>1 DEF GrantReward, KInv, TableTypes
<1>4. \A s \in Requests \ {t} : Keeps(s)
  BY <1>2, SameKeeps DEF KInv, Known
<1>5. Others(t) /\ Facts(t)' /\ Single' /\ pc'[t] # "reward"
  BY <1>2, FinishesAs
<1>6. (\A s \in Requests : Facts(s))'
  BY <1>4, <1>5, FactsOfAll DEF KInv, Known
<1>7. Credits'
  BY <1>2, CreditsStay DEF KInv, Known
<1>8. Lots'
  <2> SUFFICES ASSUME NEW p \in Orders, NEW q \in Rewards
               PROVE  redemptions'[p][q] + Cardinality(AtReward(p, q)') <= Cardinality(Requests)
    BY DEF Lots
  <2>1. PICK n \in Nat : n = redemptions[p][q]
    BY DEF KInv, TableTypes
  <2>2. AtReward(p, q) \subseteq Requests /\ AtReward(p, q)' \subseteq AtReward(p, q)
    BY <1>5 DEF AtReward, Others
  <2>3. /\ IsFiniteSet(AtReward(p, q)) /\ IsFiniteSet(AtReward(p, q)')
        /\ Cardinality(AtReward(p, q)) \in Nat /\ Cardinality(AtReward(p, q)') \in Nat
        /\ Cardinality(AtReward(p, q)') <= Cardinality(AtReward(p, q))
    BY <2>2, Finite, FS_Subset, FS_CardinalityType
  <2>4. n + Cardinality(AtReward(p, q)) <= Cardinality(Requests)
    BY <2>1 DEF KInv, Known, Lots
  <2>5. CASE p = o /\ q = r
    <3>1. t \in AtReward(p, q) /\ AtReward(p, q)' = AtReward(p, q) \ {t}
      BY <1>1, <1>2, <1>5, <2>5 DEF AtReward, Others
    <3>2. Cardinality(AtReward(p, q) \ {t}) = Cardinality(AtReward(p, q)) - 1
      BY <2>3, <3>1, FS_RemoveElement
    <3>3. redemptions'[p][q] = n + 1
      BY <1>3, <2>1, <2>5
    <3> QED BY <2>3, <2>4, <3>1, <3>2, <3>3, Finite
  <2>6. CASE ~(p = o /\ q = r)
    <3>1. redemptions'[p][q] = n
      BY <1>3, <2>1, <2>6
    <3> QED BY <2>3, <2>4, <3>1, Finite
  <2> QED BY <2>5, <2>6
<1> QED BY <1>5, <1>6, <1>7, <1>8 DEF Known

LEMMA LeavesKnown ==
    ASSUME KInv, NEW t \in Requests, Spin(t) \/ Apply(t) \/ Fail(t)
    PROVE  Known'
<1>1. Finish(t) /\ UNCHANGED <<topUp, withdrawal, order, redemptions, due, credited>>
  BY DEF Spin, Apply, Fail, tables
<1>2. \A s \in Requests \ {t} : Keeps(s)
  BY <1>1, SameKeeps DEF KInv, Known
<1> QED BY <1>1, <1>2, EndsKnown

(* No request moves.                                                       *)
LEMMA OutsideKnown ==
    ASSUME KInv, UNCHANGED <<pc, req, redemptions>>, \A s \in Requests : Keeps(s), Credits'
    PROVE  Known'
<1>1. (\A s \in Requests : Facts(s))'
  BY FactsStay DEF KInv, Known
<1>2. Single' /\ Lots'
  BY DEF KInv, Known, Single, Lots, AtReward
<1> QED BY <1>1, <1>2 DEF Known

LEMMA SettleKnown ==
    ASSUME KInv, NEW o \in Orders, NEW s \in {"PAID", "FAILED"}, SettleOrder(o, s)
    PROVE  Known'
<1>1. /\ UNCHANGED <<pc, req, redemptions, topUp, withdrawal, credited>> /\ due' \subseteq due \cup {o}
      /\ order[o].status \in {"PENDING", "FAILED"}
      /\ o \in due' => o \in due \/ s = "PAID"
  BY DEF SettleOrder, procs
<1>2. order'[o].status = s /\ \A p \in Orders \ {o} : order'[p] = order[p]
  BY DEF SettleOrder, KInv, TableTypes
<1>3. \A r \in Requests : Keeps(r)
  <2> TAKE r \in Requests
  <2>1. pc[r] \in {"placeOrder", "referral"} => req[r].id \in Orders \ {o}
    BY <1>1 DEF KInv, IInv, IdSound, OrderPlaces, Known, Facts
  <2> QED BY <1>1, <1>2, <2>1 DEF Keeps, KInv, Known, Facts
<1>4. Credits'
  BY <1>1, <1>2 DEF KInv, Known, Credits
<1> QED BY <1>1, <1>3, <1>4, OutsideKnown

LEMMA OtherKnown ==
    ASSUME KInv, UNCHANGED vars \/ (\E x \in TopUps : CustomerPays(x)) \/ (\E u \in Users : LapseCashback(u))
    PROVE  Known'
<1>1. UNCHANGED <<pc, req, redemptions, withdrawal, order, due, credited>>
  BY DEF CustomerPays, LapseCashback, procs, vars, tables
<1>2. \A x \in TopUps : topUp'[x].amount = topUp[x].amount
  <2>1. CASE topUp' = topUp
    BY <2>1
  <2>2. CASE \E x \in TopUps : CustomerPays(x)
    BY <2>2 DEF CustomerPays, KInv, IInv, Types, TopUpRow
  <2> QED BY <2>1, <2>2 DEF LapseCashback, vars, tables
<1>3. \A s \in Requests : Keeps(s)
  <2> TAKE s \in Requests
  <2>1. pc[s] \in {"verify", "credit"} => req[s].id \in TopUps
    BY DEF KInv, IInv, IdSound, AtTopUp, TopUpPlaces
  <2> QED BY <1>1, <1>2, <2>1 DEF Keeps, KInv, Known, Facts
<1>4. Credits'
  BY <1>1, CreditsStay DEF KInv, Known
<1> QED BY <1>1, <1>3, <1>4, OutsideKnown

LEMMA KnownKept ==
    ASSUME KInv, [Next]_vars
    PROVE  KInv'
<1>1. IInv' /\ TableTypes'
  <2>1. CASE Next
    BY <2>1, StepSound, TablesKept DEF KInv, Known
  <2>2. CASE UNCHANGED vars
    BY <2>2, StutterSound DEF KInv, TableTypes, vars, tables, bounds
  <2> QED BY <2>1, <2>2
<1>2. ASSUME NEW t \in Requests, Arrive(t) PROVE Known'
  BY <1>2, CallbackKnown, TopUpKnown, ResolveKnown, RequestKnown, CheckoutKnown, ReferralKnown, RewardKnown,
     SpinKnown, ApplyKnown DEF Arrive
<1>3. ASSUME NEW t \in Requests, Handle(t) PROVE Known'
  BY <1>3, TopUpHandledKnown, VerifyKnown, HoldKnown, ResolvedKnown, PlaceKnown, GrantKnown,
     CreditReferrerKnown, LeavesKnown DEF Handle
<1>4. ASSUME NEW t \in Requests, Fail(t) PROVE Known'
  BY <1>4, LeavesKnown
<1>5. ASSUME NEW o \in Orders, NEW s \in {"PAID", "FAILED"}, SettleOrder(o, s) PROVE Known'
  BY <1>5, SettleKnown
<1>6. Known'
  BY <1>2, <1>3, <1>4, <1>5, OtherKnown DEF Next
<1> QED BY <1>1, <1>6 DEF KInv

LEMMA KnownInitially ==
    ASSUME Init
    PROVE  KInv
<1>1. IInv
  BY InitSound
<1>2. TableTypes
  BY AmountsAssumption DEF Init, TableTypes
<1>3. \A t \in Requests : Facts(t)
  BY DEF Init, Facts
<1>4. Single /\ Credits
  BY DEF Init, Single, Credits
<1>5. Lots
  <2> SUFFICES ASSUME NEW o \in Orders, NEW r \in Rewards
               PROVE  redemptions[o][r] + Cardinality(AtReward(o, r)) <= Cardinality(Requests)
    BY DEF Lots
  <2>1. AtReward(o, r) = {}
    BY DEF Init, AtReward
  <2>2. redemptions[o][r] = 0
    BY DEF Init
  <2> QED BY <2>1, <2>2, Finite, FS_EmptySet
<1> QED BY <1>1, <1>2, <1>3, <1>4, <1>5 DEF KInv, Known

LEMMA KnownAlways == Spec => []KInv
<1>1. KInv /\ [Next]_vars => KInv'
  BY KnownKept
<1> QED BY <1>1, KnownInitially, PTL DEF Spec

LEMMA LotsBound ==
    ASSUME TableTypes, Lots, NEW o \in Orders, NEW r \in Rewards
    PROVE  redemptions[o][r] \in 0..Cardinality(Requests)
<1>1. PICK n \in Nat : n = redemptions[o][r]
  BY DEF TableTypes
<1>2. AtReward(o, r) \subseteq Requests
  BY DEF AtReward
<1>3. Cardinality(AtReward(o, r)) \in Nat
  BY <1>2, Finite, FS_Subset, FS_CardinalityType
<1>4. n + Cardinality(AtReward(o, r)) <= Cardinality(Requests)
  BY <1>1 DEF Lots
<1> QED BY <1>1, <1>3, <1>4, Finite

(* Every row keeps its shape, and an order has at most as many rewards of  *)
(* one kind as there are requests to grant it: each of them found none.    *)
THEOREM TypeCorrect == Spec => []TypeOK
<1>1. KInv => TypeOK
  <2> SUFFICES ASSUME KInv PROVE TypeOK
    OBVIOUS
  <2>1. redemptions \in [Orders -> [Rewards -> 0..Cardinality(Requests)]]
    <3>1. \A o \in Orders : redemptions[o] \in [Rewards -> Nat]
      BY DEF KInv, TableTypes
    <3>2. \A o \in Orders, r \in Rewards : redemptions[o][r] \in 0..Cardinality(Requests)
      BY LotsBound DEF KInv, Known
    <3>3. \A o \in Orders : redemptions[o] \in [Rewards -> 0..Cardinality(Requests)]
      BY <3>1, <3>2
    <3> QED BY <3>3 DEF KInv, TableTypes
  <2> QED BY <2>1 DEF KInv, IInv, Types, TableTypes, TopUpRow, TypeOK
<1> QED BY <1>1, KnownAlways, PTL

--------------------------------------------------------------------------------
(* The figures of a wallet, step by step.                                  *)

SameTopUps == \A v \in Users : TopUpsOf(v)' = TopUpsOf(v)
SameHeld == \A v \in Users : HeldOf(v)' = HeldOf(v)
SameUsed == \A v \in Users : ledger'[v]["USED"] = ledger[v]["USED"]
SameCount == \A v \in Users : Count(v)' = Count(v)

LEMMA TopUpsStay ==
    ASSUME \A x \in TopUps : topUp[x].status = "PAID" \/ topUp'[x].status = "PAID" => topUp'[x] = topUp[x]
    PROVE  SameTopUps
<1> SUFFICES ASSUME NEW v \in Users PROVE TopUpsOf(v)' = TopUpsOf(v)
  BY DEF SameTopUps
<1>1. \A x \in TopUps : Share(topUp', x, v, {"PAID"}) = Share(topUp, x, v, {"PAID"})
  BY DEF Share
<1>2. AmountOf(topUp', TopUps, v, {"PAID"}) = AmountOf(topUp, TopUps, v, {"PAID"})
  BY <1>1, AmountStays
<1> QED BY <1>2 DEF TopUpsOf

LEMMA HeldStays ==
    ASSUME \A w \in Withdrawals :
               /\ withdrawal'[w].amount = withdrawal[w].amount
               /\ withdrawal'[w].status \in {"PENDING", "PAID"} <=> withdrawal[w].status \in {"PENDING", "PAID"}
    PROVE  SameHeld
<1> SUFFICES ASSUME NEW v \in Users PROVE HeldOf(v)' = HeldOf(v)
  BY DEF SameHeld
<1>1. \A w \in Withdrawals :
          Share(withdrawal', w, v, {"PENDING", "PAID"}) = Share(withdrawal, w, v, {"PENDING", "PAID"})
  BY DEF Share
<1>2. AmountOf(withdrawal', Withdrawals, v, {"PENDING", "PAID"})
        = AmountOf(withdrawal, Withdrawals, v, {"PENDING", "PAID"})
  BY <1>1, AmountStays
<1> QED BY <1>2 DEF HeldOf

LEMMA CountStays ==
    ASSUME UNCHANGED <<redemptions, credited>>,
           \A e \in EventPayments : spun'[e] \in {"CASHBACK", "GIFT"} <=> spun[e] \in {"CASHBACK", "GIFT"}
    PROVE  SameCount
<1> SUFFICES ASSUME NEW v \in Users PROVE Count(v)' = Count(v)
  BY DEF SameCount
<1>1. GrantedOf(v)' = GrantedOf(v) /\ ReferredOf(v)' = ReferredOf(v)
  BY DEF GrantedOf, ReferredOf
<1>2. {e \in EventPayments : Owner[e] = v /\ spun'[e] \in {"CASHBACK", "GIFT"}}
        = {e \in EventPayments : Owner[e] = v /\ spun[e] \in {"CASHBACK", "GIFT"}}
  OBVIOUS
<1>3. WonOf(v)' = WonOf(v)
  BY <1>2 DEF WonOf
<1> QED BY <1>1, <1>3 DEF Count

LEMMA TopUpsMove ==
    ASSUME KInv, KInv', NEW x \in TopUps, \A y \in TopUps \ {x} : topUp'[y] = topUp[y],
           topUp[x].status # "PAID", topUp'[x].status = "PAID", NEW v \in Users
    PROVE  TopUpsOf(v)' = TopUpsOf(v) + (IF Owner[x] = v THEN topUp'[x].amount ELSE 0)
<1>1. Valued(topUp, TopUps) /\ Valued(topUp', TopUps)
  BY DEF KInv, IInv, Types, TopUpRow, Valued
<1>2. AmountOf(topUp', TopUps, v, {"PAID"})
        = AmountOf(topUp, TopUps, v, {"PAID"}) - Share(topUp, x, v, {"PAID"}) + Share(topUp', x, v, {"PAID"})
  BY <1>1, Finite, AmountMoves
<1>3. Share(topUp, x, v, {"PAID"}) = 0
  BY DEF Share
<1>4. Share(topUp', x, v, {"PAID"}) = IF Owner[x] = v THEN topUp'[x].amount ELSE 0
  BY DEF Share
<1>5. AmountOf(topUp, TopUps, v, {"PAID"}) \in Nat /\ topUp'[x].amount \in Nat
  BY <1>1, Finite, AmountFinite DEF Valued
<1> QED BY <1>2, <1>3, <1>4, <1>5 DEF TopUpsOf

LEMMA HeldMoves ==
    ASSUME KInv, KInv', NEW w \in Withdrawals, \A y \in Withdrawals \ {w} : withdrawal'[y] = withdrawal[y],
           NEW v \in Users
    PROVE  HeldOf(v)' = HeldOf(v) - Share(withdrawal, w, v, {"PENDING", "PAID"})
                        + Share(withdrawal', w, v, {"PENDING", "PAID"})
<1>1. Valued(withdrawal, Withdrawals) /\ Valued(withdrawal', Withdrawals)
  BY DEF KInv, IInv, Types, Valued
<1>2. AmountOf(withdrawal', Withdrawals, v, {"PENDING", "PAID"})
        = AmountOf(withdrawal, Withdrawals, v, {"PENDING", "PAID"})
          - Share(withdrawal, w, v, {"PENDING", "PAID"}) + Share(withdrawal', w, v, {"PENDING", "PAID"})
  BY <1>1, Finite, AmountMoves
<1> QED BY <1>2 DEF HeldOf

(* What the ledger says was used.                                          *)
LEMMA UsedStays ==
    ASSUME KInv, NEW u \in Users, NEW amount, NEW reason, reason # "USED", Post(u, amount, reason)
    PROVE  SameUsed
<1>1. "USED" \in Reasons /\ ledger \in [Users -> [Reasons -> Int]]
  BY DEF KInv, IInv, Types, Reasons
<1> QED BY <1>1 DEF Post, SameUsed

LEMMA UsedMoves ==
    ASSUME KInv, NEW u \in Users, NEW amount, Post(u, amount, "USED"), NEW v \in Users
    PROVE  ledger'[v]["USED"] = IF v = u THEN ledger[v]["USED"] + amount ELSE ledger[v]["USED"]
<1>1. "USED" \in Reasons /\ ledger \in [Users -> [Reasons -> Int]]
  BY DEF KInv, IInv, Types, Reasons
<1> QED BY <1>1 DEF Post

LEMMA BalanceMoves ==
    ASSUME KInv, NEW u \in Users, NEW amount, NEW reason, Post(u, amount, reason), NEW v \in Users
    PROVE  balance'[v] = IF v = u THEN balance[v] + amount ELSE balance[v]
BY DEF KInv, IInv, Types, Post

(* All of it has a type.                                                   *)
LEMMA WalletTypes ==
    ASSUME KInv, NEW v \in Users
    PROVE  /\ TopUpsOf(v) \in Nat /\ HeldOf(v) \in Nat /\ Count(v) \in Nat
           /\ balance[v] \in Int /\ ledger[v]["USED"] \in Int /\ Reward * Count(v) \in Nat
<1>1. TopUpsOf(v) \in Nat /\ HeldOf(v) \in Nat /\ Count(v) \in Nat
  BY FigureTypes DEF Count, KInv
<1>2. balance[v] \in Int /\ ledger[v]["USED"] \in Int
  BY DEF KInv, IInv, Types, Reasons
<1> QED BY <1>1, <1>2, AmountsAssumption

(* A wallet stays explained when its figures move with it.                 *)
LEMMA StaysExplained ==
    ASSUME KInv, KInv', NEW v \in Users, balance[v] = Explains(v),
           NEW topped \in Int, NEW used \in Int, NEW held \in Int, NEW won \in {0, 1},
           TopUpsOf(v)' = TopUpsOf(v) + topped,
           ledger'[v]["USED"] = ledger[v]["USED"] + used,
           HeldOf(v)' = HeldOf(v) + held,
           Count(v)' = Count(v) + won,
           balance'[v] = balance[v] + topped + used - held + (IF won = 1 THEN Reward ELSE 0)
    PROVE  balance'[v] = Explains(v)'
<1>1. PICK a, h, c, b, l : a = TopUpsOf(v) /\ h = HeldOf(v) /\ c = Count(v) /\ b = balance[v] /\ l = ledger[v]["USED"]
  OBVIOUS
<1>2. PICK a2, h2, c2, b2, l2 :
          a2 = TopUpsOf(v)' /\ h2 = HeldOf(v)' /\ c2 = Count(v)' /\ b2 = balance'[v] /\ l2 = ledger'[v]["USED"]
  OBVIOUS
<1>3. a \in Nat /\ h \in Nat /\ c \in Nat /\ b \in Int /\ l \in Int /\ Reward \in Nat /\ Reward * c \in Nat
  BY <1>1, WalletTypes, AmountsAssumption
<1>4. b = a + Reward * c + l - h
  BY <1>1 DEF Explains
<1>5. a2 = a + topped /\ l2 = l + used /\ h2 = h + held /\ c2 = c + won
      /\ b2 = b + topped + used - held + (IF won = 1 THEN Reward ELSE 0)
  BY <1>1, <1>2
<1>6. Reward * c2 = Reward * c + (IF won = 1 THEN Reward ELSE 0)
  BY <1>3, <1>5
<1>7. b2 = a2 + Reward * c2 + l2 - h2
  BY <1>3, <1>4, <1>5, <1>6
<1>8. Explains(v)' = a2 + Reward * c2 + l2 - h2
  BY <1>2 DEF Explains
<1> QED BY <1>2, <1>7, <1>8

LEMMA QuietBooks ==
    ASSUME KInv, KInv', Books, balance' = balance, SameTopUps, SameUsed, SameHeld, SameCount
    PROVE  Books'
<1> SUFFICES ASSUME NEW v \in Users PROVE balance'[v] = Explains(v)'
  BY DEF Books
<1>1. TopUpsOf(v)' = TopUpsOf(v) /\ HeldOf(v)' = HeldOf(v) /\ Count(v)' = Count(v)
      /\ ledger'[v]["USED"] = ledger[v]["USED"] /\ balance'[v] = balance[v]
  BY DEF SameTopUps, SameUsed, SameHeld, SameCount
<1>2. Explains(v)' = Explains(v)
  BY <1>1 DEF Explains
<1> QED BY <1>1, <1>2 DEF Books

--------------------------------------------------------------------------------
(* The books, step by step.                                                *)

LEMMA MoneyUntouched ==
    ASSUME UNCHANGED wallets
    PROVE  balance' = balance /\ SameUsed
BY DEF wallets, SameUsed

LEMMA ArriveBooks ==
    ASSUME KInv, KInv', Books, NEW t \in Requests, Arrive(t)
    PROVE  Books'
<1>1. UNCHANGED wallets /\ UNCHANGED <<withdrawal, redemptions, credited, spun>>
  BY DEF Arrive, CallbackBegin, TopUp, ResolveWithdrawal, RequestWithdrawal, ApplyToCheckout,
         ReferralBegin, RewardBegin, SpinBegin, ApplyBegin, tables
<1>2. \A x \in TopUps : topUp[x].status = "PAID" \/ topUp'[x].status = "PAID" => topUp'[x] = topUp[x]
  <2>1. CASE topUp' = topUp
    BY <2>1
  <2>2. CASE \E x \in TopUps, a \in Amounts : TopUp(t, x, a)
    BY <2>2 DEF TopUp, KInv, IInv, Types, TopUpRow
  <2> QED BY <2>1, <2>2 DEF Arrive, CallbackBegin, ResolveWithdrawal, RequestWithdrawal, ApplyToCheckout,
         ReferralBegin, RewardBegin, SpinBegin, ApplyBegin, tables
<1> QED BY <1>1, <1>2, MoneyUntouched, TopUpsStay, HeldStays, CountStays, QuietBooks

LEMMA UnpaidBooks ==
    ASSUME KInv, KInv', Books, NEW t \in Requests,
           TopUpSent(t) \/ TopUpRefused(t) \/ VerifyTopUp(t) \/ VerifyFails(t)
    PROVE  Books'
<1>1. PICK x \in TopUps : x = req[t].id
  BY DEF TopUpSent, TopUpRefused, VerifyTopUp, VerifyFails, KInv, IInv, IdSound, AtTopUp, TopUpPlaces
<1>2. UNCHANGED wallets /\ UNCHANGED <<withdrawal, redemptions, credited, spun>>
  BY DEF TopUpSent, TopUpRefused, VerifyTopUp, VerifyFails
<1>3. /\ topUp[x].status # "PAID" /\ topUp'[x].status # "PAID"
      /\ \A y \in TopUps \ {x} : topUp'[y] = topUp[y]
  <2>0. topUp \in [TopUps -> TopUpRow] /\ TopUpSound(t)
    BY DEF KInv, IInv, Types
  <2>1. CASE TopUpSent(t)
    BY <1>1, <2>0, <2>1 DEF TopUpSent, TopUpRow, TopUpSound
  <2>2. CASE TopUpRefused(t)
    BY <1>1, <2>0, <2>2 DEF TopUpRefused, TopUpRow, TopUpSound
  <2>3. CASE VerifyTopUp(t)
    BY <1>1, <2>0, <2>3 DEF VerifyTopUp, TopUpRow, TopUpSound
  <2>4. CASE VerifyFails(t)
    <3>1. PICK known : topUp' = [topUp EXCEPT ![x].status = "FAILED", ![x].gateway = known]
      BY <1>1, <2>4 DEF VerifyFails
    <3>2. PICK r : r = [topUp[x] EXCEPT !.status = "FAILED", !.gateway = known]
      OBVIOUS
    <3>3. r.status = "FAILED"
      BY <2>0, <3>2 DEF TopUpRow
    <3>4. topUp' = [topUp EXCEPT ![x] = r]
      BY <2>0, <3>1, <3>2
    <3>5. topUp[x].status # "PAID"
      BY <1>1, <2>0, <2>4 DEF VerifyFails, TopUpSound
    <3> QED BY <2>0, <3>3, <3>4, <3>5
  <2> QED BY <2>1, <2>2, <2>3, <2>4
<1>4. \A y \in TopUps : topUp[y].status = "PAID" \/ topUp'[y].status = "PAID" => topUp'[y] = topUp[y]
  BY <1>3
<1> QED BY <1>2, <1>4, MoneyUntouched, TopUpsStay, HeldStays, CountStays, QuietBooks

LEMMA PaidBooks ==
    ASSUME KInv, KInv', Books, NEW t \in Requests, TopUpMocked(t) \/ CreditTopUp(t)
    PROVE  Books'
<1>1. PICK x \in TopUps : x = req[t].id
  BY DEF TopUpMocked, CreditTopUp, KInv, IInv, IdSound, AtTopUp, TopUpPlaces
<1>2. /\ topUp[x].status # "PAID" /\ topUp'[x].status = "PAID" /\ topUp'[x].amount = topUp[x].amount
      /\ \A y \in TopUps \ {x} : topUp'[y] = topUp[y]
  BY <1>1 DEF TopUpMocked, CreditTopUp, KInv, IInv, Types, TopUpRow, TopUpSound
<1>3. PICK n \in Nat : n = topUp[x].amount
  BY DEF KInv, IInv, Types, TopUpRow
<1>4. Post(Owner[x], n, "TOPUP") /\ Owner[x] \in Users
  <2>1. CASE TopUpMocked(t)
    BY <1>1, <1>3, <2>1, RowsAssumption DEF TopUpMocked, Rows
  <2>2. CASE CreditTopUp(t)
    BY <1>1, <1>3, <2>2, RowsAssumption DEF CreditTopUp, Rows, KInv, Known, Facts
  <2> QED BY <2>1, <2>2
<1>5. SameHeld /\ SameCount
  BY HeldStays, CountStays DEF TopUpMocked, CreditTopUp
<1>6. SameUsed
  BY <1>4, UsedStays
<1> SUFFICES ASSUME NEW v \in Users PROVE balance'[v] = Explains(v)'
  BY DEF Books
<1>7. PICK m \in Int : m = IF Owner[x] = v THEN n ELSE 0
  OBVIOUS
<1>8. TopUpsOf(v)' = TopUpsOf(v) + m
  BY <1>2, <1>3, <1>7, TopUpsMove
<1>9. balance'[v] = balance[v] + m
  <2>1. balance'[v] = IF v = Owner[x] THEN balance[v] + n ELSE balance[v]
    BY <1>4, BalanceMoves
  <2> QED BY <1>7, <2>1, WalletTypes
<1>10. /\ ledger'[v]["USED"] = ledger[v]["USED"] + 0 /\ HeldOf(v)' = HeldOf(v) + 0 /\ Count(v)' = Count(v) + 0
       /\ balance'[v] = balance[v] + m + 0 - 0 + 0
  BY <1>5, <1>6, <1>9, WalletTypes DEF SameHeld, SameCount, SameUsed
<1> QED BY <1>8, <1>10, StaysExplained DEF Books

LEMMA HoldBooks ==
    ASSUME KInv, KInv', Books, NEW t \in Requests, HoldWithdrawal(t)
    PROVE  Books'
<1>1. PICK w \in Withdrawals : w = req[t].id
  BY DEF HoldWithdrawal, KInv, IInv, IdSound, WithdrawalPlaces
<1>2. PICK n \in Nat : n = req[t].amount
  BY DEF KInv, IInv, Types
<1>3. UNCHANGED <<topUp, redemptions, credited, spun>> /\ SameTopUps /\ SameCount
  BY TopUpsStay, CountStays DEF HoldWithdrawal
<1>4. CASE balance[Owner[w]] >= n
  <2>1. /\ Post(Owner[w], -n, "WITHDRAWAL_REQUEST") /\ Owner[w] \in Users
        /\ withdrawal' = [withdrawal EXCEPT ![w] = [status |-> "PENDING", amount |-> n]]
    BY <1>1, <1>2, <1>4, RowsAssumption DEF HoldWithdrawal, Rows
  <2>2. SameUsed
    BY <2>1, UsedStays
  <2>3. /\ withdrawal[w].status = "absent" /\ withdrawal'[w].status = "PENDING" /\ withdrawal'[w].amount = n
        /\ \A y \in Withdrawals \ {w} : withdrawal'[y] = withdrawal[y]
    <3>1. withdrawal[w].status = "absent"
      BY <1>1 DEF HoldWithdrawal, KInv, Known, Facts
    <3> QED BY <2>1, <3>1 DEF KInv, IInv, Types
  <2> SUFFICES ASSUME NEW v \in Users PROVE balance'[v] = Explains(v)'
    BY DEF Books
  <2>4. PICK m \in Int : m = IF Owner[w] = v THEN n ELSE 0
    OBVIOUS
  <2>5. HeldOf(v)' = HeldOf(v) + m
    <3>1. HeldOf(v)' = HeldOf(v) - Share(withdrawal, w, v, {"PENDING", "PAID"})
                        + Share(withdrawal', w, v, {"PENDING", "PAID"})
      BY <2>3, HeldMoves
    <3>2. Share(withdrawal, w, v, {"PENDING", "PAID"}) = 0
      BY <2>3 DEF Share
    <3>3. Share(withdrawal', w, v, {"PENDING", "PAID"}) = m
      BY <2>3, <2>4 DEF Share
    <3> QED BY <3>1, <3>2, <3>3, WalletTypes
  <2>6. balance'[v] = balance[v] - m
    <3>1. balance'[v] = IF v = Owner[w] THEN balance[v] + (-n) ELSE balance[v]
      BY <2>1, BalanceMoves
    <3> QED BY <2>4, <3>1, WalletTypes
  <2>7. /\ ledger'[v]["USED"] = ledger[v]["USED"] + 0 /\ TopUpsOf(v)' = TopUpsOf(v) + 0 /\ Count(v)' = Count(v) + 0
        /\ balance'[v] = balance[v] + 0 + 0 - m + 0
    BY <1>3, <2>2, <2>6, WalletTypes DEF SameTopUps, SameCount, SameUsed
  <2> QED BY <2>5, <2>7, StaysExplained DEF Books
<1>5. CASE ~(balance[Owner[w]] >= n)
  <2>1. UNCHANGED wallets /\ withdrawal' = withdrawal
    BY <1>1, <1>2, <1>5 DEF HoldWithdrawal
  <2> QED BY <1>3, <2>1, MoneyUntouched, HeldStays, QuietBooks
<1> QED BY <1>4, <1>5

(* The only administrator finds the withdrawal as it was.                  *)
LEMMA RejectBooks ==
    ASSUME KInv, KInv', Books, OneAdmin, NEW t \in Requests, RejectWithdrawal(t)
    PROVE  Books'
<1>1. PICK w \in Withdrawals : w = req[t].id
  BY DEF RejectWithdrawal, KInv, IInv, IdSound, WithdrawalPlaces
<1>2. PICK n \in Nat : n = req[t].amount
  BY DEF KInv, IInv, Types
<1>3. UNCHANGED <<topUp, redemptions, credited, spun>> /\ SameTopUps /\ SameCount
  BY TopUpsStay, CountStays DEF RejectWithdrawal
<1>4. Post(Owner[w], n, "ADJUSTMENT") /\ Owner[w] \in Users
  BY <1>1, <1>2, RowsAssumption DEF RejectWithdrawal, Rows
<1>5. SameUsed
  BY <1>4, UsedStays
<1>6. /\ withdrawal[w].status = "PENDING" /\ withdrawal[w].amount = n /\ withdrawal'[w].status = "REJECTED"
      /\ \A y \in Withdrawals \ {w} : withdrawal'[y] = withdrawal[y]
  <2>1. withdrawal[w].status = "PENDING" /\ withdrawal[w].amount = n
    BY <1>1, <1>2 DEF RejectWithdrawal, KInv, Known, Facts
  <2> QED BY <1>1, <2>1 DEF RejectWithdrawal, KInv, IInv, Types
<1> SUFFICES ASSUME NEW v \in Users PROVE balance'[v] = Explains(v)'
  BY DEF Books
<1>7. PICK m \in Int : m = IF Owner[w] = v THEN -n ELSE 0
  OBVIOUS
<1>8. HeldOf(v)' = HeldOf(v) + m
  <2>1. HeldOf(v)' = HeldOf(v) - Share(withdrawal, w, v, {"PENDING", "PAID"})
                      + Share(withdrawal', w, v, {"PENDING", "PAID"})
    BY <1>6, HeldMoves
  <2>2. Share(withdrawal', w, v, {"PENDING", "PAID"}) = 0
    BY <1>6 DEF Share
  <2>3. Share(withdrawal, w, v, {"PENDING", "PAID"}) = IF Owner[w] = v THEN n ELSE 0
    BY <1>6 DEF Share
  <2> QED BY <1>7, <2>1, <2>2, <2>3, WalletTypes
<1>9. balance'[v] = balance[v] - m
  <2>1. balance'[v] = IF v = Owner[w] THEN balance[v] + n ELSE balance[v]
    BY <1>4, BalanceMoves
  <2> QED BY <1>7, <2>1, WalletTypes
<1>10. /\ ledger'[v]["USED"] = ledger[v]["USED"] + 0 /\ TopUpsOf(v)' = TopUpsOf(v) + 0 /\ Count(v)' = Count(v) + 0
       /\ balance'[v] = balance[v] + 0 + 0 - m + 0
  BY <1>3, <1>5, <1>9, WalletTypes DEF SameTopUps, SameCount, SameUsed
<1> QED BY <1>8, <1>10, StaysExplained DEF Books

LEMMA PayOutBooks ==
    ASSUME KInv, KInv', Books, OneAdmin, NEW t \in Requests, PayOutWithdrawal(t)
    PROVE  Books'
<1>1. PICK w \in Withdrawals : w = req[t].id
  BY DEF PayOutWithdrawal, KInv, IInv, IdSound, WithdrawalPlaces
<1>2. UNCHANGED wallets /\ UNCHANGED <<topUp, redemptions, credited, spun>>
  BY DEF PayOutWithdrawal
<1>3. withdrawal[w].status = "PENDING"
  BY <1>1 DEF PayOutWithdrawal, KInv, Known, Facts
<1>4. /\ withdrawal'[w].status = "PAID" /\ withdrawal'[w].amount = withdrawal[w].amount
      /\ \A y \in Withdrawals \ {w} : withdrawal'[y] = withdrawal[y]
  BY <1>1 DEF PayOutWithdrawal, KInv, IInv, Types
<1>5. SameHeld
  BY <1>3, <1>4, HeldStays
<1> QED BY <1>2, <1>5, MoneyUntouched, TopUpsStay, CountStays, QuietBooks

(* What is used comes off the balance and off the ledger alike.            *)
LEMMA UsedBooks ==
    ASSUME KInv, KInv', Books, NEW u \in Users, NEW n \in Int, Post(u, -n, "USED"),
           UNCHANGED <<topUp, withdrawal, redemptions, credited, spun>>
    PROVE  Books'
<1>1. SameTopUps /\ SameHeld /\ SameCount
  BY TopUpsStay, HeldStays, CountStays
<1> SUFFICES ASSUME NEW v \in Users PROVE balance'[v] = Explains(v)'
  BY DEF Books
<1>2. PICK m \in Int : m = IF v = u THEN -n ELSE 0
  OBVIOUS
<1>3. balance'[v] = balance[v] + m /\ ledger'[v]["USED"] = ledger[v]["USED"] + m
  <2>1. balance'[v] = IF v = u THEN balance[v] + (-n) ELSE balance[v]
    BY BalanceMoves
  <2>2. ledger'[v]["USED"] = IF v = u THEN ledger[v]["USED"] + (-n) ELSE ledger[v]["USED"]
    BY UsedMoves
  <2> QED BY <1>2, <2>1, <2>2, WalletTypes
<1>4. /\ HeldOf(v)' = HeldOf(v) + 0 /\ TopUpsOf(v)' = TopUpsOf(v) + 0 /\ Count(v)' = Count(v) + 0
      /\ balance'[v] = balance[v] + 0 + m - 0 + 0
  BY <1>1, <1>3, WalletTypes DEF SameTopUps, SameHeld, SameCount
<1> QED BY <1>3, <1>4, StaysExplained DEF Books

LEMMA PlaceBooks ==
    ASSUME KInv, KInv', Books, NEW t \in Requests, PlaceOrder(t)
    PROVE  Books'
<1>1. PICK o \in Orders : o = req[t].id
  BY DEF PlaceOrder, KInv, IInv, IdSound, OrderPlaces
<1>2. Owner[o] \in Users /\ req[t].amount \in Int
  BY RowsAssumption DEF Rows, KInv, IInv, Types
<1>3. UNCHANGED <<topUp, withdrawal, redemptions, credited, spun>>
  BY DEF PlaceOrder
<1>4. Post(Owner[o], -req[t].amount, "USED") \/ UNCHANGED wallets
  BY <1>1 DEF PlaceOrder
<1>5. CASE UNCHANGED wallets
  BY <1>3, <1>5, MoneyUntouched, TopUpsStay, HeldStays, CountStays, QuietBooks
<1> QED BY <1>2, <1>3, <1>4, <1>5, UsedBooks

LEMMA ApplyBooks ==
    ASSUME KInv, KInv', Books, NEW t \in Requests, Apply(t)
    PROVE  Books'
<1>1. req[t].id \in Users /\ req[t].amount \in Int
  BY DEF Apply, KInv, IInv, IdSound, Types
<1>2. Post(req[t].id, -req[t].amount, "USED") /\ UNCHANGED <<topUp, withdrawal, redemptions, credited, spun>>
  BY DEF Apply, tables
<1> QED BY <1>1, <1>2, UsedBooks

(* A reward and its row come together.                                     *)
LEMMA RewardedBooks ==
    ASSUME KInv, KInv', Books, NEW u \in Users, NEW reason, reason # "USED", Post(u, Reward, reason),
           UNCHANGED <<topUp, withdrawal>>,
           \A v \in Users : Count(v)' = Count(v) + (IF v = u THEN 1 ELSE 0)
    PROVE  Books'
<1>1. SameTopUps /\ SameHeld /\ SameUsed
  BY TopUpsStay, HeldStays, UsedStays
<1> SUFFICES ASSUME NEW v \in Users PROVE balance'[v] = Explains(v)'
  BY DEF Books
<1>2. PICK won \in {0, 1} : won = IF v = u THEN 1 ELSE 0
  OBVIOUS
<1>3. Count(v)' = Count(v) + won
  BY <1>2
<1>4. balance'[v] = balance[v] + 0 + 0 - 0 + (IF won = 1 THEN Reward ELSE 0)
  <2>1. balance'[v] = IF v = u THEN balance[v] + Reward ELSE balance[v]
    BY BalanceMoves
  <2> QED BY <1>2, <2>1, WalletTypes, AmountsAssumption
<1>5. /\ HeldOf(v)' = HeldOf(v) + 0 /\ TopUpsOf(v)' = TopUpsOf(v) + 0
      /\ ledger'[v]["USED"] = ledger[v]["USED"] + 0
  BY <1>1, WalletTypes DEF SameTopUps, SameHeld, SameUsed
<1> QED BY <1>3, <1>4, <1>5, StaysExplained DEF Books

Granted(o, u) == IF Owner[o] = u THEN redemptions[o]["CASHBACK"] + redemptions[o]["COUPON"] ELSE 0

LEMMA GrantedMoves ==
    ASSUME KInv, NEW o \in Orders, NEW r \in Rewards, redemptions' = [redemptions EXCEPT ![o][r] = @ + 1],
           NEW v \in Users
    PROVE  GrantedOf(v)' = GrantedOf(v) + (IF Owner[o] = v THEN 1 ELSE 0)
<1>1. PICK f : f = [p \in Orders |-> Granted(p, v)]
  OBVIOUS
<1>2. PICK g : g = [p \in Orders |-> Granted(p, v)']
  OBVIOUS
<1>3. \A p \in Orders : Granted(p, v) \in Nat
  BY DEF Granted, KInv, TableTypes, Rewards
<1>4. Granted(o, v)' = Granted(o, v) + (IF Owner[o] = v THEN 1 ELSE 0)
  <2>1. redemptions[o] \in [Rewards -> Nat] /\ redemptions'[o] = [redemptions[o] EXCEPT ![r] = @ + 1]
    BY DEF KInv, TableTypes
  <2>2. redemptions'[o]["CASHBACK"] + redemptions'[o]["COUPON"]
          = redemptions[o]["CASHBACK"] + redemptions[o]["COUPON"] + 1
    BY <2>1 DEF Rewards
  <2> QED BY <2>2 DEF Granted
<1>5. \A p \in Orders \ {o} : Granted(p, v)' = Granted(p, v)
  <2>1. \A p \in Orders \ {o} : redemptions'[p] = redemptions[p]
    BY DEF KInv, TableTypes
  <2> QED BY <2>1 DEF Granted
<1>6. PICK n \in Nat : n = Granted(o, v) + (IF Owner[o] = v THEN 1 ELSE 0)
  BY <1>3
<1>7. f \in [Orders -> Nat] /\ g = [f EXCEPT ![o] = n]
  BY <1>1, <1>2, <1>3, <1>4, <1>5, <1>6
<1>8. /\ Cardinality(UnitsIn(g)) = Cardinality(UnitsIn(f)) - f[o] + n
      /\ Cardinality(UnitsIn(f)) \in Nat /\ Cardinality(UnitsIn(g)) \in Nat
  BY <1>7, Finite, UnitsChange, ZenonT(60)
<1>9. GrantedOf(v) = Cardinality(UnitsIn(f)) /\ GrantedOf(v)' = Cardinality(UnitsIn(g))
  BY <1>1, <1>2 DEF GrantedOf, Granted, Total, UnitsIn
<1>10. f[o] = Granted(o, v)
  BY <1>1
<1> QED BY <1>3, <1>6, <1>8, <1>9, <1>10

LEMMA GrantBooks ==
    ASSUME KInv, KInv', Books, NEW t \in Requests, GrantReward(t)
    PROVE  Books'
<1>1. PICK o \in Orders, r \in Rewards : o = req[t].id /\ r = req[t].reason
  BY DEF GrantReward, KInv, IInv, IdSound, OrderPlaces, Known, Facts
<1>2. /\ Post(Owner[o], Reward, r) /\ redemptions' = [redemptions EXCEPT ![o][r] = @ + 1]
      /\ UNCHANGED <<topUp, withdrawal, credited, spun>>
  BY <1>1 DEF GrantReward, KInv, Known, Facts
<1>3. Owner[o] \in Users /\ r # "USED"
  BY RowsAssumption DEF Rows, Rewards
<1>4. ASSUME NEW v \in Users PROVE Count(v)' = Count(v) + (IF v = Owner[o] THEN 1 ELSE 0)
  <2>1. GrantedOf(v)' = GrantedOf(v) + (IF Owner[o] = v THEN 1 ELSE 0)
    BY <1>2, GrantedMoves
  <2>2. ReferredOf(v)' = ReferredOf(v) /\ WonOf(v)' = WonOf(v)
    BY <1>2 DEF ReferredOf, WonOf
  <2>3. GrantedOf(v) \in Nat /\ ReferredOf(v) \in Nat /\ WonOf(v) \in Nat
    BY FigureTypes DEF KInv
  <2> QED BY <2>1, <2>2, <2>3 DEF Count
<1> QED BY <1>2, <1>3, <1>4, RewardedBooks

LEMMA CreditBooks ==
    ASSUME KInv, KInv', Books, NEW t \in Requests, CreditReferrer(t)
    PROVE  Books'
<1>1. PICK o \in Orders : o = req[t].id
  BY DEF CreditReferrer, KInv, IInv, IdSound, OrderPlaces
<1>2. /\ Post(Referrer[o], Reward, "CASHBACK") /\ credited' = credited \cup {o} /\ o \notin credited
      /\ UNCHANGED <<topUp, withdrawal, redemptions, spun>>
  BY <1>1 DEF CreditReferrer, KInv, Known, Facts
<1>3. Referrer[o] \in Users
  BY RowsAssumption
<1>4. ASSUME NEW v \in Users PROVE Count(v)' = Count(v) + (IF v = Referrer[o] THEN 1 ELSE 0)
  <2>1. PICK S : S = {p \in credited : Referrer[p] = v}
    OBVIOUS
  <2>2. IsFiniteSet(S) /\ o \notin S
    BY <1>2, <2>1, Finite, FS_Subset DEF KInv, TableTypes
  <2>3. {p \in credited' : Referrer[p] = v} = IF v = Referrer[o] THEN S \cup {o} ELSE S
    BY <1>2, <2>1
  <2>4. Cardinality(S \cup {o}) = Cardinality(S) + 1 /\ Cardinality(S) \in Nat
    BY <2>2, FS_AddElement, FS_CardinalityType
  <2>5. ReferredOf(v)' = ReferredOf(v) + (IF v = Referrer[o] THEN 1 ELSE 0)
    <3>1. ReferredOf(v) = Cardinality(S)
      BY <2>1 DEF ReferredOf
    <3>2. ReferredOf(v)' = Cardinality({p \in credited' : Referrer[p] = v})
      BY DEF ReferredOf
    <3>3. PICK T : T = {p \in credited' : Referrer[p] = v}
      OBVIOUS
    <3>4. Cardinality(T) = Cardinality(S) + (IF v = Referrer[o] THEN 1 ELSE 0)
      <4>1. T = IF v = Referrer[o] THEN S \cup {o} ELSE S
        BY <2>3, <3>3
      <4>2. CASE v = Referrer[o]
        BY <2>4, <4>1, <4>2
      <4>3. CASE v # Referrer[o]
        BY <2>4, <4>1, <4>3
      <4> QED BY <4>2, <4>3
    <3> QED BY <3>1, <3>2, <3>3, <3>4
  <2>6. GrantedOf(v)' = GrantedOf(v) /\ WonOf(v)' = WonOf(v)
    BY <1>2 DEF GrantedOf, WonOf
  <2>7. GrantedOf(v) \in Nat /\ ReferredOf(v) \in Nat /\ WonOf(v) \in Nat
    BY FigureTypes DEF KInv
  <2> QED BY <2>5, <2>6, <2>7 DEF Count
<1> QED BY <1>2, <1>3, <1>4, RewardedBooks

LEMMA SpinBooks ==
    ASSUME KInv, KInv', Books, NEW t \in Requests, Spin(t)
    PROVE  Books'
<1>1. PICK e \in EventPayments, prize \in Prizes : e = req[t].id /\ prize = req[t].reason
  BY DEF Spin, KInv, IInv, IdSound, Known, Facts
<1>2. UNCHANGED <<topUp, withdrawal, redemptions, credited>>
  BY DEF Spin
<1>3. CASE spun[e] = "none" /\ prize # "other"
  <2>1. Post(Owner[e], Reward, prize) /\ spun' = [spun EXCEPT ![e] = prize]
    BY <1>1, <1>3 DEF Spin, KInv, Known, Facts
  <2>2. Owner[e] \in Users /\ prize # "USED"
    BY RowsAssumption DEF Rows, Prizes
  <2>3. ASSUME NEW v \in Users PROVE Count(v)' = Count(v) + (IF v = Owner[e] THEN 1 ELSE 0)
    <3>1. PICK S : S = {p \in EventPayments : Owner[p] = v /\ spun[p] \in {"CASHBACK", "GIFT"}}
      OBVIOUS
    <3>2. IsFiniteSet(S) /\ e \notin S
      BY <1>3, <3>1, Finite, FS_Subset
    <3>3. {p \in EventPayments : Owner[p] = v /\ spun'[p] \in {"CASHBACK", "GIFT"}}
            = IF v = Owner[e] THEN S \cup {e} ELSE S
      <4>1. spun'[e] \in {"CASHBACK", "GIFT"} /\ \A p \in EventPayments \ {e} : spun'[p] = spun[p]
        BY <1>3, <2>1 DEF Prizes, KInv, TableTypes
      <4> QED BY <1>3, <3>1, <4>1
    <3>4. Cardinality(S \cup {e}) = Cardinality(S) + 1 /\ Cardinality(S) \in Nat
      BY <3>2, FS_AddElement, FS_CardinalityType
    <3>5. WonOf(v)' = WonOf(v) + (IF v = Owner[e] THEN 1 ELSE 0)
      <4>1. WonOf(v) = Cardinality(S)
        BY <3>1 DEF WonOf
      <4>2. WonOf(v)' = Cardinality({p \in EventPayments : Owner[p] = v /\ spun'[p] \in {"CASHBACK", "GIFT"}})
        BY DEF WonOf
      <4>3. CASE v = Owner[e]
        BY <3>3, <3>4, <4>1, <4>2, <4>3
      <4>4. CASE v # Owner[e]
        BY <3>3, <3>4, <4>1, <4>2, <4>4
      <4> QED BY <4>3, <4>4
    <3>6. GrantedOf(v)' = GrantedOf(v) /\ ReferredOf(v)' = ReferredOf(v)
      BY <1>2 DEF GrantedOf, ReferredOf
    <3>7. GrantedOf(v) \in Nat /\ ReferredOf(v) \in Nat /\ WonOf(v) \in Nat
      BY FigureTypes DEF KInv
    <3> QED BY <3>5, <3>6, <3>7 DEF Count
  <2> QED BY <1>2, <2>1, <2>2, <2>3, RewardedBooks
<1>4. CASE spun[e] = "none" /\ prize = "other"
  <2>1. UNCHANGED wallets /\ spun' = [spun EXCEPT ![e] = "other"]
    BY <1>1, <1>4 DEF Spin
  <2>2. \A p \in EventPayments : spun'[p] \in {"CASHBACK", "GIFT"} <=> spun[p] \in {"CASHBACK", "GIFT"}
    BY <1>4, <2>1 DEF KInv, TableTypes
  <2> QED BY <1>2, <2>1, <2>2, MoneyUntouched, TopUpsStay, HeldStays, CountStays, QuietBooks
<1>5. CASE spun[e] # "none"
  <2>1. UNCHANGED wallets /\ spun' = spun
    BY <1>1, <1>5 DEF Spin
  <2> QED BY <1>2, <2>1, MoneyUntouched, TopUpsStay, HeldStays, CountStays, QuietBooks
<1> QED BY <1>3, <1>4, <1>5

(* Steps no money moves in.                                                *)
LEMMA OtherBooks ==
    ASSUME KInv, KInv', Books,
           \/ \E t \in Requests : Fail(t)
           \/ \E x \in TopUps : CustomerPays(x)
           \/ \E o \in Orders, s \in {"PAID", "FAILED"} : SettleOrder(o, s)
           \/ \E u \in Users : LapseCashback(u)
           \/ UNCHANGED vars
    PROVE  Books'
<1>1. UNCHANGED wallets /\ UNCHANGED <<withdrawal, redemptions, credited, spun>>
  BY DEF Fail, CustomerPays, SettleOrder, LapseCashback, vars, tables
<1>2. \A x \in TopUps : topUp[x].status = "PAID" \/ topUp'[x].status = "PAID" => topUp'[x] = topUp[x]
  <2>1. CASE topUp' = topUp
    BY <2>1
  <2>2. CASE \E x \in TopUps : CustomerPays(x)
    BY <2>2 DEF CustomerPays, KInv, IInv, Types, TopUpRow, RowSound
  <2> QED BY <2>1, <2>2 DEF Fail, SettleOrder, LapseCashback, vars, tables
<1> QED BY <1>1, <1>2, MoneyUntouched, TopUpsStay, HeldStays, CountStays, QuietBooks

LEMMA BooksKept ==
    ASSUME KInv, KInv', Books, OneAdmin, [Next]_vars
    PROVE  Books'
<1>1. ASSUME NEW t \in Requests, Handle(t) PROVE Books'
  BY <1>1, UnpaidBooks, PaidBooks, HoldBooks, RejectBooks, PayOutBooks, PlaceBooks, GrantBooks, CreditBooks,
     SpinBooks, ApplyBooks DEF Handle
<1>2. ASSUME NEW t \in Requests, Arrive(t) PROVE Books'
  BY <1>2, ArriveBooks
<1> QED BY <1>1, <1>2, OtherBooks DEF Next

LEMMA BooksInitially ==
    ASSUME Init
    PROVE  Books
<1> SUFFICES ASSUME NEW u \in Users PROVE balance[u] = Explains(u)
  BY DEF Books
<1>1. TopUpsOf(u) = 0
  <2>1. UnitsIn([x \in TopUps |-> IF Owner[x] = u /\ topUp[x].status \in {"PAID"} THEN topUp[x].amount ELSE 0]) = {}
    BY DEF Init, UnitsIn
  <2> QED BY <2>1, FS_EmptySet DEF TopUpsOf, AmountOf, Total
<1>2. HeldOf(u) = 0
  <2>1. UnitsIn([x \in Withdrawals |-> IF Owner[x] = u /\ withdrawal[x].status \in {"PENDING", "PAID"}
                                       THEN withdrawal[x].amount ELSE 0]) = {}
    BY DEF Init, UnitsIn
  <2> QED BY <2>1, FS_EmptySet DEF HeldOf, AmountOf, Total
<1>3. GrantedOf(u) = 0
  <2>1. UnitsIn([o \in Orders |-> IF Owner[o] = u THEN redemptions[o]["CASHBACK"] + redemptions[o]["COUPON"] ELSE 0]) = {}
    BY DEF Init, UnitsIn, Rewards
  <2> QED BY <2>1, FS_EmptySet DEF GrantedOf, Total
<1>4. ReferredOf(u) = 0 /\ WonOf(u) = 0
  <2>1. {o \in credited : Referrer[o] = u} = {}
    BY DEF Init
  <2>2. {e \in EventPayments : Owner[e] = u /\ spun[e] \in {"CASHBACK", "GIFT"}} = {}
    BY DEF Init
  <2> QED BY <2>1, <2>2, FS_EmptySet DEF ReferredOf, WonOf
<1>5. balance[u] = 0 /\ ledger[u]["USED"] = 0
  BY DEF Init, Reasons
<1>6. Reward * 0 = 0
  BY AmountsAssumption
<1>7. Count(u) = 0
  BY <1>3, <1>4 DEF Count
<1> QED BY <1>1, <1>2, <1>5, <1>6, <1>7 DEF Explains

(* A wallet is explained by the rows of the other tables, whoever repeats  *)
(* or loses a callback, a reward, a spin or a withdrawal, and whoever      *)
(* dies, as long as one administrator at a time settles withdrawals.       *)
THEOREM BalanceAlwaysExplained ==
    ASSUME OneAdmin
    PROVE  Spec => []BalanceExplained
<1>1. Init => Books
  BY BooksInitially
<1>2. KInv /\ KInv' /\ Books /\ [Next]_vars => Books'
  BY BooksKept
<1>3. KInv /\ Books => BalanceExplained
  <2> SUFFICES ASSUME KInv, Books, NEW u \in Users
               PROVE  balance[u] = AmountOf(topUp, TopUps, u, {"PAID"}) + RewardsOf(u) - SpentBy(u)
                                   - AmountOf(withdrawal, Withdrawals, u, {"PENDING", "PAID"})
    BY DEF BalanceExplained
  <2>1. balance[u] = TopUpsOf(u) + Reward * Count(u) + ledger[u]["USED"] - HeldOf(u)
    BY DEF Books, Explains
  <2>2. RewardsOf(u) = Reward * Count(u)
    BY DEF RewardsOf, Count, GrantedOf, ReferredOf, WonOf
  <2>3. balance[u] = TopUpsOf(u) + RewardsOf(u) - (-ledger[u]["USED"]) - HeldOf(u)
    <3>1. PICK a, c, l, h : a = TopUpsOf(u) /\ c = Reward * Count(u) /\ l = ledger[u]["USED"] /\ h = HeldOf(u)
      OBVIOUS
    <3>2. a \in Nat /\ c \in Nat /\ l \in Int /\ h \in Nat
      BY <3>1, WalletTypes
    <3>3. a + c + l - h = a + c - (-l) - h
      BY <3>2
    <3> QED BY <2>1, <2>2, <3>1, <3>3
  <2> QED BY <2>3 DEF TopUpsOf, HeldOf, SpentBy
<1> QED BY <1>1, <1>2, <1>3, KnownAlways, PTL DEF Spec

================================================================================
