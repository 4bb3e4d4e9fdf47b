------------------------ MODULE OrderSettlement_proofs -------------------------
(***************************************************************************)
(* Proofs about OrderSettlement, for any number of orders, requests and    *)
(* sweeps.                                                                 *)
(***************************************************************************)
EXTENDS OrderSettlement, FiniteSetTheorems, TLAPS

(* The sets a commit counts are finite.                                    *)
LEMMA CommittedSetsFinite ==
    ASSUME NEW t
    PROVE  /\ IsFiniteSet(Released(t))
           /\ IsFiniteSet(Released(t) \cap Discounted)
           /\ IsFiniteSet(Revived(t))
           /\ IsFiniteSet(Revived(t) \cap Discounted)
           /\ IsFiniteSet(Restocked(t))
<1>1. /\ Released(t) \subseteq Orders /\ Released(t) \cap Discounted \subseteq Orders
      /\ Revived(t) \subseteq Orders /\ Revived(t) \cap Discounted \subseteq Orders
      /\ Restocked(t) \subseteq Orders
  BY DEF Released, Revived, Paid, Restocked
<1> QED BY <1>1, OrdersAssumption, FS_Subset

(* Put changes one entry.                                                  *)
LEMMA PutWrite ==
    ASSUME NEW w \in [Procs -> [Orders -> Writes]], NEW t \in Procs,
           NEW o \in Orders, NEW status, status = "PAID" \/ status = "FAILED"
    PROVE  /\ Put(w, t, o, status) \in [Procs -> [Orders -> Writes]]
           /\ \A u \in Procs, x \in Orders :
                Put(w, t, o, status)[u][x] = IF u = t /\ x = o THEN status ELSE w[u][x]
           /\ \A u \in Procs \ {t} : Put(w, t, o, status)[u] = w[u]
<1> DEFINE v == [w[t] EXCEPT ![o] = status]
<1>1. v \in [Orders -> Writes]
  BY DEF Writes
<1>2. Put(w, t, o, status) = [w EXCEPT ![t] = v]
  BY DEF Put
<1>3. \A x \in Orders : v[x] = IF x = o THEN status ELSE w[t][x]
  OBVIOUS
<1> HIDE DEF v
<1>4. [w EXCEPT ![t] = v] \in [Procs -> [Orders -> Writes]]
  BY <1>1
<1>5. \A u \in Procs : [w EXCEPT ![t] = v][u] = IF u = t THEN v ELSE w[u]
  OBVIOUS
<1> QED BY <1>2, <1>3, <1>4, <1>5

(* Closing a transaction clears its writes and nobody else's.              *)
LEMMA ClearedWrites ==
    ASSUME TypeOK, NEW t \in Procs, ClearWrites(t)
    PROVE  /\ newPay' \in [Procs -> [Orders -> Writes]]
           /\ newTx' \in [Procs -> [Orders -> Writes]]
           /\ newPay'[t] = NoWrites /\ newTx'[t] = NoWrites
           /\ \A u \in Procs \ {t} : newPay'[u] = newPay[u] /\ newTx'[u] = newTx[u]
<1>1. NoWrites \in [Orders -> Writes]
  BY DEF NoWrites, Writes
<1>2. newPay \in [Procs -> [Orders -> Writes]] /\ newTx \in [Procs -> [Orders -> Writes]]
  BY DEF TypeOK
<1> QED BY <1>1, <1>2 DEF ClearWrites

(* What a commit leaves behind has the right type.                         *)
LEMMA CommitTypes ==
    ASSUME TypeOK, NEW t \in Procs
    PROVE  /\ Becomes(newPay[t], paymentStatus) \in [Orders -> PaymentStatuses]
           /\ Becomes(newTx[t], txStatus) \in [Orders -> TxStatuses]
           /\ OrderStatusAfter(t) \in [Orders -> OrderStatuses]
           /\ UsesAfterRelease(t) \in Nat
           /\ Released(t) \subseteq Orders
           /\ Restocked(t) \subseteq Orders
           /\ Cardinality(Released(t)) \in Nat
           /\ Cardinality(Revived(t) \cap Discounted) \in Nat
           /\ stock + Cardinality(Released(t)) - Cardinality(Restocked(t)) \in Nat
<1>1. newPay[t] \in [Orders -> Writes] /\ newTx[t] \in [Orders -> Writes]
  BY DEF TypeOK
<1>2. Becomes(newPay[t], paymentStatus) \in [Orders -> PaymentStatuses]
  BY <1>1 DEF TypeOK, Becomes, Writes, PaymentStatuses
<1>3. Becomes(newTx[t], txStatus) \in [Orders -> TxStatuses]
  BY <1>1 DEF TypeOK, Becomes, Writes, TxStatuses
<1>4. OrderStatusAfter(t) \in [Orders -> OrderStatuses]
  BY DEF TypeOK, OrderStatusAfter, OrderStatuses, KnownStatuses
<1>5. /\ Cardinality(Released(t)) \in Nat
      /\ Cardinality(Released(t) \cap Discounted) \in Nat
      /\ Cardinality(Revived(t)) \in Nat
      /\ Cardinality(Revived(t) \cap Discounted) \in Nat
      /\ Cardinality(Restocked(t)) \in Nat
  BY CommittedSetsFinite, FS_CardinalityType
<1>6. UsesAfterRelease(t) \in Nat
  BY <1>5 DEF UsesAfterRelease, TypeOK
<1>7. stock >= Cardinality(Restocked(t))
  BY <1>5, FS_EmptySet DEF Restocked, TypeOK
<1>8. Released(t) \subseteq Orders /\ Restocked(t) \subseteq Orders
  BY DEF Released, Revived, Paid, Restocked
<1> QED BY <1>2, <1>3, <1>4, <1>5, <1>6, <1>7, <1>8 DEF TypeOK

--------------------------------------------------------------------------------
(* A process that is past its first step knows which order it works on.    *)
OrderAtHand ==
    \A t \in Procs :
        /\ pc[t] \notin {"idle", "nextStale", "nextExpired"} => cur[t] \in Orders
        /\ pc[t] = "nextStale" => placing[t] \in Orders
        /\ kind[t] = "checkout" => placing[t] \in Orders

TypeInv == TypeOK /\ OrderAtHand

LEMMA TypeStep ==
    ASSUME TypeOK, OrderAtHand, [Next]_vars
    PROVE  TypeOK'
<1> USE DEF Goto, PCs, Kinds
<1>a. newPay \in [Procs -> [Orders -> Writes]]
  BY DEF TypeOK
<1>b. newTx \in [Procs -> [Orders -> Writes]]
  BY DEF TypeOK
<1>c. stock \in Nat /\ holding \subseteq Orders
  BY DEF TypeOK
<1>1. CASE UNCHANGED vars
  BY <1>1 DEF TypeOK, vars, tables, procs
<1>2. ASSUME NEW t \in Requests, NEW o \in Orders, CheckoutBegin(t, o)
      PROVE  TypeOK'
  BY <1>2 DEF TypeOK, CheckoutBegin, Start, StalePending, tables, Procs
<1>3. ASSUME NEW t \in Requests, NEW o \in Orders, CallbackBegin(t, o)
      PROVE  TypeOK'
  BY <1>3 DEF TypeOK, CallbackBegin, Start, tables, Procs
<1>4. ASSUME NEW t \in Sweepers, SweepBegin(t)
      PROVE  TypeOK'
  BY <1>4 DEF TypeOK, SweepBegin, Start, tables, Procs
<1>5. ASSUME NEW t \in Procs, Step(t)
      PROVE  TypeOK'
  <2>1. ASSUME NEW s \in Orders, ReleaseNextStale(t, s) PROVE TypeOK'
    BY <2>1 DEF TypeOK, ReleaseNextStale, tables
  <2>2. CASE PlaceOrder(t)
    <3>1. placing[t] \in Orders
      BY <2>2 DEF TypeOK, PlaceOrder, OrderAtHand
    <3>2. Cardinality({placing[t]} \cap Discounted) \in Nat
      BY FS_Singleton, FS_Subset, FS_CardinalityType
    <3>3. /\ paymentStatus' \in [Orders -> PaymentStatuses]
          /\ orderStatus' \in [Orders -> OrderStatuses]
          /\ txStatus' \in [Orders -> TxStatuses]
      BY <2>2, CommitTypes
      DEF TypeOK, PlaceOrder, PaymentStatuses, OrderStatuses, KnownStatuses, TxStatuses
    <3>4. stock' \in Nat /\ usedCount' \in Nat /\ holding' \subseteq Orders
      <4>1. /\ stock' = stock + Cardinality(Released(t))
            /\ usedCount' = UsesAfterRelease(t) + Cardinality({placing[t]} \cap Discounted)
            /\ holding' = (holding \ Released(t)) \cup {placing[t]}
        BY <2>2 DEF TypeOK, PlaceOrder
      <4>2. /\ Cardinality(Released(t)) \in Nat /\ UsesAfterRelease(t) \in Nat
            /\ Released(t) \subseteq Orders
        BY CommitTypes
      <4>3. stock' \in Nat
        BY <1>c, <4>1, <4>2
      <4>4. usedCount' \in Nat
        BY <3>2, <4>1, <4>2
      <4>5. holding' \subseteq Orders
        BY <1>c, <3>1, <4>1, <4>2
      <4> QED BY <4>3, <4>4, <4>5
    <3>5. newPay' \in [Procs -> [Orders -> Writes]] /\ newTx' \in [Procs -> [Orders -> Writes]]
      BY <2>2, ClearedWrites DEF TypeOK, PlaceOrder
    <3> QED BY <2>2, <3>3, <3>4, <3>5, <3>1 DEF TypeOK, PlaceOrder
  <2>3. CASE GatewayAccepts(t) \/ GatewayRefuses(t) \/ NothingDue(t)
    BY <2>3, ZenonT(60) DEF TypeOK, GatewayAccepts, GatewayRefuses, NothingDue, GatewayStates, tables
  <2>4. CASE StoreAuthority(t)
    <3>1. cur[t] \in Orders
      BY <2>4 DEF TypeOK, StoreAuthority, OrderAtHand
    <3> QED BY <2>4, <3>1
        DEF TypeOK, StoreAuthority, Finish, ClearWrites, NoWrites, Writes, GatewayStates
  <2>5. CASE VerifySucceeds(t) \/ VerifyFails(t)
    <3>1. gateway' \in [Orders -> GatewayStates]
      <4>1. gateway' \in {gateway, [gateway EXCEPT ![cur[t]] = "verified"]}
        BY <2>5 DEF VerifySucceeds, VerifyFails
      <4> QED BY <4>1 DEF TypeOK, GatewayStates
    <3>2. kind' \in [Procs -> Kinds] /\ pc' \in [Procs -> PCs]
      BY <2>5 DEF TypeOK, VerifySucceeds, VerifyFails
    <3> QED BY <2>5, <3>1, <3>2 DEF TypeOK, VerifySucceeds, VerifyFails, tables
  <2>6. CASE ConfirmTx(t)
    <3>1. cur[t] \in Orders
      BY <2>6 DEF TypeOK, ConfirmTx, OrderAtHand
    <3>2. newTx' \in {newTx, Put(newTx, t, cur[t], "PAID")}
      BY <2>6 DEF TypeOK, ConfirmTx
    <3>3. newTx' \in [Procs -> [Orders -> Writes]]
      BY <1>b, <3>1, <3>2, PutWrite
    <3>4. pc' \in [Procs -> PCs]
      BY <2>6 DEF TypeOK, ConfirmTx
    <3> QED BY <2>6, <3>3, <3>4 DEF TypeOK, ConfirmTx, tables
  <2>7. CASE ConfirmOrder(t)
    <3>1. cur[t] \in Orders
      BY <2>7 DEF TypeOK, ConfirmOrder, OrderAtHand
    <3>2. newPay' \in {newPay, Put(newPay, t, cur[t], "PAID")}
      BY <2>7 DEF TypeOK, ConfirmOrder
    <3>3. newPay' \in [Procs -> [Orders -> Writes]]
      BY <1>a, <3>1, <3>2, PutWrite
    <3>4. pc' \in [Procs -> PCs]
      BY <2>7 DEF TypeOK, ConfirmOrder
    <3> QED BY <2>7, <3>3, <3>4 DEF TypeOK, ConfirmOrder, tables
  <2>8. CASE Revive(t)
    <3>1. cur[t] \in Orders
      BY <2>8 DEF TypeOK, Revive, OrderAtHand
    <3>2. /\ newPay' \in {newPay, Put(newPay, t, cur[t], "PAID")}
          /\ newTx' \in {newTx, Put(newTx, t, cur[t], "PAID")}
      BY <2>8 DEF TypeOK, Revive
    <3>3. /\ newPay' \in [Procs -> [Orders -> Writes]]
          /\ newTx' \in [Procs -> [Orders -> Writes]]
      <4>1. newPay' \in [Procs -> [Orders -> Writes]]
        BY <1>a, <3>1, <3>2, PutWrite
      <4>2. newTx' \in [Procs -> [Orders -> Writes]]
        BY <1>b, <3>1, <3>2, PutWrite
      <4> QED BY <4>1, <4>2
    <3>4. pc' \in [Procs -> PCs]
      BY <2>8 DEF TypeOK, Revive
    <3> QED BY <2>8, <3>3, <3>4 DEF TypeOK, Revive, tables
  <2>9. CASE ReleaseOrder(t)
    <3>1. cur[t] \in Orders
      BY <2>9 DEF TypeOK, ReleaseOrder, OrderAtHand
    <3>2. newPay' \in {newPay, Put(newPay, t, cur[t], "FAILED")}
      BY <2>9 DEF TypeOK, ReleaseOrder
    <3>3. newPay' \in [Procs -> [Orders -> Writes]]
      BY <1>a, <3>1, <3>2, PutWrite
    <3>4. pc' \in [Procs -> PCs]
      BY <2>9 DEF TypeOK, ReleaseOrder, ReleaseDone
    <3> QED BY <2>9, <3>3, <3>4 DEF TypeOK, ReleaseOrder, tables
  <2>10. CASE ReleaseTx(t)
    <3>1. cur[t] \in Orders
      BY <2>10 DEF TypeOK, ReleaseTx, OrderAtHand
    <3>2. newTx' \in {newTx, Put(newTx, t, cur[t], "FAILED")}
      BY <2>10 DEF TypeOK, ReleaseTx
    <3>3. newTx' \in [Procs -> [Orders -> Writes]]
      BY <1>b, <3>1, <3>2, PutWrite
    <3>4. pc' \in [Procs -> PCs]
      BY <2>10 DEF TypeOK, ReleaseTx, ReleaseDone
    <3> QED BY <2>10, <3>3, <3>4 DEF TypeOK, ReleaseTx, tables
  <2>11. CASE CommitRequest(t)
    <3>1. cur[t] \in Orders
      BY <2>11 DEF TypeOK, CommitRequest, OrderAtHand
    <3>2. CommitSettlement(t)
      BY <2>11 DEF TypeOK, CommitRequest
    <3>3. newPay' \in [Procs -> [Orders -> Writes]] /\ newTx' \in [Procs -> [Orders -> Writes]]
      BY <2>11, ClearedWrites DEF TypeOK, CommitRequest, Finish
    <3>4. /\ pc' \in [Procs -> PCs] /\ kind' \in [Procs -> Kinds]
          /\ cur' \in [Procs -> Orders \cup {NoOrder}]
          /\ placing' \in [Procs -> Orders \cup {NoOrder}]
          /\ todo' \in [Procs -> SUBSET Orders]
      BY <2>11 DEF TypeOK, CommitRequest, Finish
    <3>5. /\ answered' \subseteq Orders
          /\ UNCHANGED <<authority, expired, elsewhere, hooks, gateway, failures>>
      BY <2>11, <3>1 DEF TypeOK, CommitRequest
    <3>6. holding' \subseteq Orders /\ usedCount' \in Nat
      <4>1. /\ holding' = (holding \ Released(t)) \cup Restocked(t)
            /\ usedCount' = UsesAfterRelease(t) + Cardinality(Revived(t) \cap Discounted)
        BY <3>2 DEF TypeOK, CommitSettlement
      <4>2. /\ UsesAfterRelease(t) \in Nat /\ Cardinality(Revived(t) \cap Discounted) \in Nat
            /\ Restocked(t) \subseteq Orders
        BY CommitTypes
      <4>3. usedCount' \in Nat
        BY <4>1, <4>2
      <4>4. holding' \subseteq Orders
        BY <1>c, <4>1, <4>2
      <4> QED BY <4>3, <4>4
    <3> QED BY <3>2, <3>3, <3>4, <3>5, <3>6, CommitTypes DEF TypeOK, CommitSettlement
  <2>12. CASE RunHooks(t)
    <3>1. hooks' \in [Orders -> Nat]
      <4>1. hooks \in [Orders -> Nat] /\ hooks' = [hooks EXCEPT ![cur[t]] = @ + 1]
        BY <2>12 DEF TypeOK, RunHooks
      <4>2. cur[t] \in Orders
        BY <2>12 DEF RunHooks, OrderAtHand
      <4>3. hooks[cur[t]] + 1 \in Nat
        BY <4>1, <4>2
      <4> QED BY <4>1, <4>2, <4>3
    <3>2. newPay' \in [Procs -> [Orders -> Writes]] /\ newTx' \in [Procs -> [Orders -> Writes]]
      BY <2>12, ClearedWrites DEF TypeOK, RunHooks, Finish
    <3> QED BY <2>12, <3>1, <3>2 DEF TypeOK, RunHooks, Finish
  <2>13. ASSUME NEW o \in Orders, SweepNext(t, o) PROVE TypeOK'
    BY <2>13 DEF TypeOK, SweepNext, tables
  <2>14. CASE SweepCommit(t)
    <3>1. CommitSettlement(t)
      BY <2>14 DEF TypeOK, SweepCommit
    <3>2. holding' \subseteq Orders /\ usedCount' \in Nat
      <4>1. /\ holding' = (holding \ Released(t)) \cup Restocked(t)
            /\ usedCount' = UsesAfterRelease(t) + Cardinality(Revived(t) \cap Discounted)
        BY <3>1 DEF TypeOK, CommitSettlement
      <4>2. /\ UsesAfterRelease(t) \in Nat /\ Cardinality(Revived(t) \cap Discounted) \in Nat
            /\ Restocked(t) \subseteq Orders
        BY CommitTypes
      <4>3. usedCount' \in Nat
        BY <4>1, <4>2
      <4>4. holding' \subseteq Orders
        BY <1>c, <4>1, <4>2
      <4> QED BY <4>3, <4>4
    <3>3. newPay' \in [Procs -> [Orders -> Writes]] /\ newTx' \in [Procs -> [Orders -> Writes]]
      BY <2>14, ClearedWrites DEF TypeOK, SweepCommit
    <3> QED BY <2>14, <3>1, <3>2, <3>3, CommitTypes DEF TypeOK, SweepCommit, CommitSettlement
  <2>15. CASE SweepEnd(t) \/ DeadlockVictim(t)
    <3>1. Finish(t) /\ UNCHANGED <<tables, gateway, failures>>
      BY <2>15 DEF TypeOK, SweepEnd, DeadlockVictim
    <3>2. newPay' \in [Procs -> [Orders -> Writes]] /\ newTx' \in [Procs -> [Orders -> Writes]]
      BY <3>1, ClearedWrites DEF TypeOK, Finish
    <3> QED BY <3>1, <3>2 DEF TypeOK, Finish, tables
  <2> QED BY <1>5, <2>1, <2>2, <2>3, <2>4, <2>5, <2>6, <2>7, <2>8, <2>9, <2>10,
             <2>11, <2>12, <2>13, <2>14, <2>15 DEF TypeOK, Step
<1>6. ASSUME NEW t \in Procs, Fail(t)
      PROVE  TypeOK'
  BY <1>6 DEF TypeOK, Fail, Finish, ClearWrites, NoWrites, Writes, tables
<1>7. CASE Surroundings
  <2>1. ASSUME NEW o \in Orders, Expire(o) \/ CustomerPays(o) PROVE TypeOK'
    BY <2>1 DEF TypeOK, Expire, CustomerPays, GatewayStates, tables, procs
  <2>2. ASSUME NEW o \in Orders, NEW s \in AdminStatuses, UpdateStatus(o, s) PROVE TypeOK'
    BY <2>2, ActorsAssumption DEF TypeOK, UpdateStatus, OrderStatuses, procs
  <2>3. CASE ReserveElsewhere
    BY <2>3 DEF TypeOK, ReserveElsewhere, procs
  <2> QED BY <1>7, <2>1, <2>2, <2>3 DEF Surroundings
<1> QED BY <1>1, <1>2, <1>3, <1>4, <1>5, <1>6, <1>7 DEF Next

LEMMA OrderAtHandStep ==
    ASSUME TypeOK, OrderAtHand, [Next]_vars
    PROVE  OrderAtHand'
<1>0. /\ pc \in [Procs -> PCs] /\ kind \in [Procs -> Kinds]
      /\ cur \in [Procs -> Orders \cup {NoOrder}]
      /\ placing \in [Procs -> Orders \cup {NoOrder}]
  BY DEF TypeOK
<1> USE <1>0 DEF OrderAtHand, Goto
<1>1. CASE UNCHANGED vars
  BY <1>1 DEF vars, procs
<1>2. ASSUME NEW t \in Requests, NEW o \in Orders, CheckoutBegin(t, o) \/ CallbackBegin(t, o)
      PROVE  OrderAtHand'
  BY <1>2 DEF CheckoutBegin, CallbackBegin, Start, Procs
<1>3. ASSUME NEW t \in Sweepers, SweepBegin(t)
      PROVE  OrderAtHand'
  BY <1>3 DEF SweepBegin, Start, Procs
<1>4. ASSUME NEW t \in Procs, Step(t)
      PROVE  OrderAtHand'
  <2>1. ASSUME NEW s \in Orders, ReleaseNextStale(t, s) \/ SweepNext(t, s) PROVE OrderAtHand'
    BY <2>1 DEF ReleaseNextStale, SweepNext
  <2>2. CASE PlaceOrder(t)
    BY <2>2 DEF PlaceOrder
  <2>3. CASE GatewayAccepts(t) \/ GatewayRefuses(t) \/ NothingDue(t)
    BY <2>3 DEF GatewayAccepts, GatewayRefuses, NothingDue
  <2>4. CASE StoreAuthority(t)
    BY <2>4 DEF StoreAuthority, Finish
  <2>5. CASE VerifySucceeds(t) \/ VerifyFails(t)
    BY <2>5 DEF VerifySucceeds, VerifyFails
  <2>6. CASE ConfirmTx(t) \/ ConfirmOrder(t) \/ Revive(t)
    BY <2>6 DEF ConfirmTx, ConfirmOrder, Revive
  <2>7. CASE ReleaseOrder(t) \/ ReleaseTx(t)
    BY <2>7 DEF ReleaseOrder, ReleaseTx, ReleaseDone
  <2>8. CASE CommitRequest(t)
    BY <2>8 DEF CommitRequest, Finish
  <2>9. CASE SweepCommit(t)
    BY <2>9 DEF SweepCommit
  <2>10. CASE RunHooks(t) \/ SweepEnd(t) \/ DeadlockVictim(t)
    BY <2>10 DEF RunHooks, SweepEnd, DeadlockVictim, Finish
  <2> QED BY <1>4, <2>1, <2>2, <2>3, <2>4, <2>5, <2>6, <2>7, <2>8, <2>9, <2>10 DEF Step
<1>5. ASSUME NEW t \in Procs, Fail(t)
      PROVE  OrderAtHand'
  BY <1>5 DEF Fail, Finish
<1>6. CASE Surroundings
  BY <1>6 DEF Surroundings, Expire, CustomerPays, UpdateStatus, ReserveElsewhere, procs
<1> QED BY <1>1, <1>2, <1>3, <1>4, <1>5, <1>6 DEF Next

LEMMA TypeInvariant == Spec => []TypeInv
<1>1. Init => TypeInv
  BY BoundsAssumption
  DEF Init, TypeInv, TypeOK, OrderAtHand, PaymentStatuses, OrderStatuses, KnownStatuses,
      TxStatuses, GatewayStates, PCs, Kinds, Writes, NoWrites
<1>2. TypeInv /\ [Next]_vars => TypeInv'
  BY TypeStep, OrderAtHandStep DEF TypeInv
<1> QED BY <1>1, <1>2, PTL DEF Spec

(* Every variable keeps its type.                                          *)
THEOREM TypeCorrect == Spec => []TypeOK
<1>1. TypeInv => TypeOK
  BY DEF TypeInv
<1> QED BY <1>1, TypeInvariant, PTL
--------------------------------------------------------------------------------
(* The inductive invariant behind PaymentMatchesOrder and ConfirmedIsPaid. *)
(* The two rows of an order are written in separate statements, so what is *)
(* kept is the agreement of each transaction's own pending writes, the     *)
(* exclusion by row locks, and what a guard once evaluated still says.     *)

NoOpenWrites(t) == \A o \in Orders : newPay[t][o] = "same" /\ newTx[t][o] = "same"

AgreeExcept(t, S) == \A o \in Orders \ S : newPay[t][o] = newTx[t][o]

Settled(o) == paymentStatus[o] \in {"FAILED", "PAID"}

(* What a process has written by the time it stands at pc[t].              *)
WritesByPc(t) ==
    /\ pc[t] \in {"idle", "askGateway", "storeAuthority", "nextExpired", "hooks",
                  "verify", "confirmTx", "revive"} => NoOpenWrites(t)
    /\ pc[t] \in {"nextStale", "releaseOrder", "commit"} => AgreeExcept(t, {})
    /\ pc[t] = "releaseOrder" => newPay[t][cur[t]] = "same"
    /\ pc[t] = "releaseTx" =>
        /\ AgreeExcept(t, {cur[t]})
        /\ newPay[t][cur[t]] = "FAILED" /\ newTx[t][cur[t]] = "same"
    /\ pc[t] = "confirmOrder" =>
        /\ \A o \in Orders : newPay[t][o] = "same"
        /\ \A o \in Orders \ {cur[t]} : newTx[t][o] = "same"
        /\ \/ newTx[t][cur[t]] = "PAID" /\ paymentStatus[cur[t]] = "PENDING"
           \/ newTx[t][cur[t]] = "same" /\ Settled(cur[t])
    /\ pc[t] = "revive" => Settled(cur[t])

(* A pending write still finds the row as its guard found it.              *)
WritesGuarded(t) ==
    \A o \in Orders :
        /\ newPay[t][o] = "FAILED" => paymentStatus[o] = "PENDING"
        /\ newPay[t][o] = "PAID" => paymentStatus[o] \in {"PENDING", "FAILED"}

(* What a process works on.                                                *)
WorkByPc(t) ==
    /\ pc[t] \notin {"idle", "nextStale", "nextExpired"} => cur[t] \in Placed
    /\ kind[t] = "checkout" => placing[t] \in Orders \ Placed
    /\ todo[t] \subseteq Placed
    /\ \A o \in todo[t] : newPay[t][o] = "same"
    /\ pc[t] \in {"releaseOrder", "releaseTx"} => cur[t] \notin todo[t]
    /\ pc[t] \in {"idle", "askGateway", "verify", "confirmTx", "confirmOrder",
               "revive"} => todo[t] = {}

KindByPc(t) ==
    /\ kind[t] = "checkout" => pc[t] \in {"nextStale", "releaseOrder", "releaseTx"}
    /\ pc[t] = "nextStale" => kind[t] = "checkout"
    /\ kind[t] = "confirm" => pc[t] \in {"confirmTx", "confirmOrder", "revive", "commit", "hooks"}
    /\ pc[t] \in {"confirmTx", "confirmOrder"} => kind[t] \in {"confirm", "instant"}
    /\ pc[t] = "revive" => kind[t] = "confirm"
    /\ pc[t] = "commit" /\ kind[t] = "confirm" =>
        newPay[t][cur[t]] = "PAID" \/ paymentStatus[cur[t]] = "PAID"

Sound(t) == WritesByPc(t) /\ WritesGuarded(t) /\ WorkByPc(t) /\ KindByPc(t)

RowLocks ==
    \A t, u \in Procs : t # u => \A o \in Orders :
        /\ newPay[t][o] = "same" \/ newPay[u][o] = "same"
        /\ newTx[t][o] = "same" \/ newTx[u][o] = "same"

PlacedOnce ==
    \A t, u \in Procs : t # u /\ placing[t] # NoOrder => placing[t] # placing[u]

IInv ==
    /\ TypeInv
    /\ PaymentMatchesOrder
    /\ ConfirmedIsPaid
    /\ authority \subseteq Placed
    /\ RowLocks
    /\ PlacedOnce
    /\ \A t \in Procs : Sound(t)

(* What a step of one process leaves alone of another one, u: all that u   *)
(* is doing ...                                                            *)
Same(u) ==
    /\ pc'[u] = pc[u] /\ kind'[u] = kind[u] /\ cur'[u] = cur[u]
    /\ placing'[u] = placing[u] /\ todo'[u] = todo[u]
    /\ newPay'[u] = newPay[u] /\ newTx'[u] = newTx[u]

(* ... and the orders u has locked; the others only move forward.          *)
Respects(u) ==
    \A o \in Orders :
        \/ paymentStatus'[o] = paymentStatus[o]
        \/ /\ newPay[u][o] = "same" /\ newTx[u][o] = "same"
           /\ kind[u] = "checkout" => placing[u] # o
           /\ paymentStatus[o] # "PAID" /\ paymentStatus'[o] # "absent"
           /\ Settled(o) => paymentStatus'[o] \in {"FAILED", "PAID"}

LEMMA SoundFrame ==
    ASSUME TypeInv, NEW u \in Procs, Sound(u), Same(u), Respects(u)
    PROVE  Sound(u)'
<1>1. /\ newPay[u] \in [Orders -> Writes] /\ newTx[u] \in [Orders -> Writes]
      /\ pc[u] \notin {"idle", "nextStale", "nextExpired"} => cur[u] \in Orders
  BY DEF TypeInv, TypeOK, OrderAtHand
<1>2. WritesByPc(u)'
  BY <1>1 DEF Sound, Same, Respects, WritesByPc, NoOpenWrites, AgreeExcept, Settled
<1>3. WritesGuarded(u)'
  BY DEF Sound, Same, Respects, WritesGuarded
<1>4. WorkByPc(u)'
  BY <1>1 DEF Sound, Same, Respects, WorkByPc, Placed
<1>5. KindByPc(u)'
  BY <1>1 DEF Sound, Same, Respects, KindByPc
<1> QED BY <1>2, <1>3, <1>4, <1>5 DEF Sound

(* A step that commits nothing and starts or changes only process t.       *)
Local(t) ==
    /\ UNCHANGED <<paymentStatus, txStatus, answered>>
    /\ \A u \in Procs \ {t} : Same(u)

(* t takes up a new order only if no other process is placing it, and      *)
(* writes only rows that are free.                                         *)
Locks(t) ==
    /\ \/ placing'[t] \in {placing[t], NoOrder}
       \/ \A u \in Procs \ {t} : placing[u] # placing'[t]
    /\ \A o \in Orders :
        /\ newPay'[t][o] \in {newPay[t][o], "same"} \/ OrderRowFree(t, o)
        /\ newTx'[t][o] \in {newTx[t][o], "same"} \/ TxRowFree(t, o)

LEMMA LocksKept ==
    ASSUME RowLocks, PlacedOnce, NEW t \in Procs, Locks(t), \A u \in Procs \ {t} : Same(u)
    PROVE  RowLocks' /\ PlacedOnce'
<1>1. RowLocks'
  BY DEF RowLocks, Locks, Same, OrderRowFree, TxRowFree
<1>2. PlacedOnce'
  BY DEF PlacedOnce, Locks, Same
<1> QED BY <1>1, <1>2

LEMMA LocalStep ==
    ASSUME IInv, TypeInv', NEW t \in Procs, Local(t), Locks(t), Sound(t)',
           authority' \subseteq Placed
    PROVE  IInv'
<1>1. \A u \in Procs \ {t} : Same(u)
  BY DEF Local
<1>2. paymentStatus' = paymentStatus /\ txStatus' = txStatus /\ answered' = answered
  BY DEF Local
<1>3. RowLocks' /\ PlacedOnce'
  BY <1>1, LocksKept DEF IInv
<1>4. ASSUME NEW u \in Procs \ {t} PROVE Sound(u)'
  BY <1>1, <1>2, SoundFrame DEF IInv, Respects
<1>5. \A u \in Procs : Sound(u)'
  BY <1>4
<1>6. PaymentMatchesOrder' /\ ConfirmedIsPaid' /\ authority' \subseteq Placed'
  BY <1>2 DEF IInv, PaymentMatchesOrder, ConfirmedIsPaid, Placed
<1> QED BY <1>3, <1>5, <1>6 DEF IInv

(* The writes of t take effect on both rows of every order alike.          *)
LEMMA CommitStep ==
    ASSUME IInv, TypeInv', NEW t \in Procs, AgreeExcept(t, {}), CommitSettlement(t),
           ClearWrites(t), \A u \in Procs \ {t} : Same(u), authority' = authority,
           placing'[t] \in {placing[t], NoOrder}, Sound(t)',
           \/ answered' = answered
           \/ /\ answered' = answered \cup {cur[t]}
              /\ newPay[t][cur[t]] = "PAID" \/ paymentStatus[cur[t]] = "PAID"
    PROVE  IInv'
<1>1. \A o \in Orders :
        /\ paymentStatus'[o] = IF newPay[t][o] = "same" THEN paymentStatus[o] ELSE newPay[t][o]
        /\ txStatus'[o] = IF newPay[t][o] = "same" THEN txStatus[o] ELSE newPay[t][o]
  BY DEF CommitSettlement, Becomes, AgreeExcept
<1>2. \A o \in Orders : newPay[t][o] \in Writes
  BY DEF IInv, TypeInv, TypeOK
<1>3. WritesGuarded(t)
  BY DEF IInv, Sound
<1>4. PaymentMatchesOrder'
  BY <1>1, <1>2 DEF IInv, PaymentMatchesOrder, Writes
<1>5. ASSUME NEW u \in Procs \ {t} PROVE Sound(u)'
  <2>1. Respects(u)
    <3> SUFFICES ASSUME NEW o \in Orders, paymentStatus'[o] # paymentStatus[o]
                 PROVE  /\ newPay[u][o] = "same" /\ newTx[u][o] = "same"
                        /\ kind[u] = "checkout" => placing[u] # o
                        /\ paymentStatus[o] # "PAID" /\ paymentStatus'[o] # "absent"
                        /\ Settled(o) => paymentStatus'[o] \in {"FAILED", "PAID"}
      BY DEF Respects
    <3>1. newPay[t][o] \in {"PAID", "FAILED"} /\ newTx[t][o] = newPay[t][o]
      BY <1>1, <1>2 DEF Writes, AgreeExcept
    <3>2. newPay[u][o] = "same" /\ newTx[u][o] = "same"
      BY <3>1 DEF IInv, RowLocks
    <3>3. paymentStatus[o] \in {"PENDING", "FAILED"} /\ paymentStatus'[o] \in {"PAID", "FAILED"}
      BY <1>1, <1>3, <3>1 DEF WritesGuarded
    <3>4. kind[u] = "checkout" => placing[u] # o
      BY <3>3 DEF IInv, Sound, WorkByPc, Placed
    <3> QED BY <3>2, <3>3, <3>4
  <2> QED BY <2>1, SoundFrame DEF IInv
<1>6. ConfirmedIsPaid'
  <2>1. \A o \in Orders : paymentStatus[o] = "PAID" => paymentStatus'[o] = "PAID"
    BY <1>1, <1>2, <1>3 DEF WritesGuarded, Writes
  <2>2. \A o \in Orders : newPay[t][o] = "PAID" => paymentStatus'[o] = "PAID"
    BY <1>1
  <2>3. answered' \subseteq Orders
    BY DEF TypeInv, TypeOK
  <2> QED BY <2>1, <2>2, <2>3 DEF IInv, ConfirmedIsPaid
<1>7. authority' \subseteq Placed'
  <2>1. \A o \in Orders : paymentStatus[o] # "absent" => paymentStatus'[o] # "absent"
    BY <1>1, <1>2 DEF Writes
  <2> QED BY <2>1 DEF IInv, Placed
<1>8. RowLocks' /\ PlacedOnce'
  <2>1. \A o \in Orders : newPay'[t][o] = "same" /\ newTx'[t][o] = "same"
    BY ClearedWrites DEF NoWrites, IInv, TypeInv
  <2>2. Locks(t)
    BY <2>1 DEF Locks
  <2> QED BY <2>2, LocksKept DEF IInv
<1>9. \A u \in Procs : Sound(u)'
  BY <1>5
<1> QED BY <1>4, <1>6, <1>7, <1>8, <1>9 DEF IInv

(* A process that ends holds nothing, whatever it was doing.               *)
LEMMA FinishStep ==
    ASSUME TypeInv, NEW t \in Procs, Finish(t)
    PROVE  /\ Sound(t)'
           /\ Locks(t)
           /\ \A u \in Procs \ {t} : Same(u)
<1>1. /\ pc \in [Procs -> PCs] /\ kind \in [Procs -> Kinds]
      /\ cur \in [Procs -> Orders \cup {NoOrder}]
      /\ placing \in [Procs -> Orders \cup {NoOrder}]
      /\ todo \in [Procs -> SUBSET Orders]
  BY DEF TypeInv, TypeOK
<1>2. /\ pc'[t] = "idle" /\ kind'[t] = "none" /\ todo'[t] = {} /\ placing'[t] = NoOrder
      /\ \A u \in Procs \ {t} : /\ pc'[u] = pc[u] /\ kind'[u] = kind[u] /\ cur'[u] = cur[u]
                                 /\ placing'[u] = placing[u] /\ todo'[u] = todo[u]
  BY <1>1 DEF Finish, Goto
<1>3. ClearWrites(t)
  BY DEF Finish
<1>4. /\ \A o \in Orders : newPay'[t][o] = "same" /\ newTx'[t][o] = "same"
      /\ \A u \in Procs \ {t} : newPay'[u] = newPay[u] /\ newTx'[u] = newTx[u]
  BY <1>3, ClearedWrites DEF NoWrites, TypeInv
<1>5. Sound(t)'
  BY <1>2, <1>4
  DEF Sound, WritesByPc, WritesGuarded, WorkByPc, KindByPc, NoOpenWrites, AgreeExcept
<1> QED BY <1>2, <1>4, <1>5 DEF Locks, Same

(* A process that writes nothing in this step, and goes on from one place  *)
(* to the next.                                                            *)
Moves(t, label, k, o) ==
    /\ pc' = [pc EXCEPT ![t] = label]
    /\ kind' = [kind EXCEPT ![t] = k]
    /\ cur' = [cur EXCEPT ![t] = o]
    /\ UNCHANGED <<placing, newPay, newTx>>
    /\ \E S : todo' = [todo EXCEPT ![t] = S]

LEMMA MovesOnly ==
    ASSUME TypeInv, NEW t \in Procs, NEW label, NEW k, NEW o, Moves(t, label, k, o)
    PROVE  /\ pc'[t] = label /\ kind'[t] = k /\ cur'[t] = o /\ placing'[t] = placing[t]
           /\ newPay'[t] = newPay[t] /\ newTx'[t] = newTx[t]
           /\ Locks(t)
           /\ \A u \in Procs \ {t} : Same(u)
<1>1. /\ pc \in [Procs -> PCs] /\ kind \in [Procs -> Kinds]
      /\ cur \in [Procs -> Orders \cup {NoOrder}]
      /\ todo \in [Procs -> SUBSET Orders]
  BY DEF TypeInv, TypeOK
<1> QED BY <1>1 DEF Moves, Locks, Same

--------------------------------------------------------------------------------
(* One lemma per group of actions.                                         *)

LEMMA GatewaySteps ==
    ASSUME IInv, TypeInv', NEW t \in Procs,
           GatewayAccepts(t) \/ GatewayRefuses(t) \/ NothingDue(t)
             \/ VerifySucceeds(t) \/ VerifyFails(t)
    PROVE  IInv'
<1>1. PICK label \in {"storeAuthority", "releaseOrder", "confirmTx"},
           k \in {"gateway", "catch", "instant", "confirm", "callback", kind[t]} :
        /\ Moves(t, label, k, cur[t])
        /\ todo' = todo
        /\ UNCHANGED tables
        /\ pc[t] \in {"askGateway", "verify"}
        /\ k = "confirm" => label = "confirmTx" \/ k = kind[t]
        /\ label = "confirmTx" => k \in {"confirm", "instant"}
        /\ k = "checkout" => k = kind[t]
  <2>1. /\ pc \in [Procs -> PCs] /\ kind \in [Procs -> Kinds]
        /\ cur \in [Procs -> Orders \cup {NoOrder}] /\ todo \in [Procs -> SUBSET Orders]
    BY DEF IInv, TypeInv, TypeOK
  <2>2. CASE GatewayAccepts(t)
    <3>1. Moves(t, "storeAuthority", kind[t], cur[t])
      BY <2>1, <2>2 DEF GatewayAccepts, Moves, Goto
    <3> QED BY <2>2, <3>1 DEF GatewayAccepts
  <2>3. CASE GatewayRefuses(t)
    <3>1. Moves(t, "releaseOrder", "catch", cur[t])
      BY <2>1, <2>3 DEF GatewayRefuses, Moves, Goto
    <3> QED BY <2>3, <3>1 DEF GatewayRefuses
  <2>4. CASE NothingDue(t)
    <3>1. Moves(t, "confirmTx", "instant", cur[t])
      BY <2>1, <2>4 DEF NothingDue, Moves, Goto
    <3> QED BY <2>4, <3>1 DEF NothingDue
  <2>5. CASE VerifySucceeds(t)
    <3>1. Moves(t, "confirmTx", "confirm", cur[t])
      BY <2>1, <2>5 DEF VerifySucceeds, Moves, Goto
    <3> QED BY <2>5, <3>1 DEF VerifySucceeds
  <2>6. CASE VerifyFails(t)
    <3>1. Moves(t, "releaseOrder", kind[t], cur[t])
      BY <2>1, <2>6 DEF VerifyFails, Moves, Goto
    <3> QED BY <2>6, <3>1 DEF VerifyFails
  <2> QED BY <2>2, <2>3, <2>4, <2>5, <2>6
<1>2. /\ pc'[t] = label /\ kind'[t] = k /\ cur'[t] = cur[t] /\ placing'[t] = placing[t]
      /\ newPay'[t] = newPay[t] /\ newTx'[t] = newTx[t] /\ todo'[t] = todo[t]
      /\ Locks(t)
      /\ \A u \in Procs \ {t} : Same(u)
  BY <1>1, MovesOnly DEF IInv
<1>3. Sound(t) /\ pc[t] \in {"askGateway", "verify"} /\ cur[t] \in Orders
  BY <1>1 DEF IInv, TypeInv, OrderAtHand
<1>4. paymentStatus' = paymentStatus /\ txStatus' = txStatus
      /\ answered' = answered /\ authority' = authority
  BY <1>1 DEF tables
<1>5. kind[t] \notin {"checkout", "confirm"}
  BY <1>3 DEF Sound, KindByPc
<1>6. Sound(t)'
  <2>1. WritesByPc(t)'
    BY <1>2, <1>3, <1>4 DEF Sound, WritesByPc, NoOpenWrites, AgreeExcept
  <2>2. WritesGuarded(t)'
    BY <1>2, <1>3, <1>4 DEF Sound, WritesGuarded
  <2>3. WorkByPc(t)'
    BY <1>1, <1>2, <1>3, <1>4, <1>5 DEF Sound, WorkByPc, Placed
  <2>4. KindByPc(t)'
    BY <1>1, <1>2, <1>5 DEF KindByPc
  <2> QED BY <2>1, <2>2, <2>3, <2>4 DEF Sound
<1>7. authority' \subseteq Placed
  BY <1>4 DEF IInv
<1> QED BY <1>2, <1>4, <1>6, <1>7, LocalStep DEF Local

(* A checkout or a sweep turns to the next order of its list.              *)
LEMMA NextSteps ==
    ASSUME IInv, TypeInv', NEW t \in Procs, NEW o \in Orders,
           ReleaseNextStale(t, o) \/ SweepNext(t, o)
    PROVE  IInv'
<1>1. /\ Moves(t, "releaseOrder", kind[t], o)
      /\ UNCHANGED tables
      /\ pc[t] \in {"nextStale", "nextExpired"}
      /\ o \in todo[t] /\ todo'[t] = todo[t] \ {o}
  <2>1. /\ pc \in [Procs -> PCs] /\ kind \in [Procs -> Kinds]
        /\ cur \in [Procs -> Orders \cup {NoOrder}] /\ todo \in [Procs -> SUBSET Orders]
    BY DEF IInv, TypeInv, TypeOK
  <2>2. CASE ReleaseNextStale(t, o)
    BY <2>1, <2>2 DEF ReleaseNextStale, Moves, Goto
  <2>3. CASE SweepNext(t, o)
    BY <2>1, <2>3 DEF SweepNext, Moves, Goto
  <2> QED BY <2>2, <2>3
<1>2. /\ pc'[t] = "releaseOrder" /\ kind'[t] = kind[t] /\ cur'[t] = o
      /\ placing'[t] = placing[t] /\ newPay'[t] = newPay[t] /\ newTx'[t] = newTx[t]
      /\ Locks(t)
      /\ \A u \in Procs \ {t} : Same(u)
  BY <1>1, MovesOnly DEF IInv
<1>3. Sound(t)
  BY DEF IInv
<1>4. paymentStatus' = paymentStatus /\ txStatus' = txStatus
      /\ answered' = answered /\ authority' = authority
  BY <1>1 DEF tables
<1>5. Sound(t)'
  <2>1. WritesByPc(t)'
    BY <1>1, <1>2, <1>3, <1>4 DEF Sound, WritesByPc, NoOpenWrites, AgreeExcept, WorkByPc
  <2>2. WritesGuarded(t)'
    BY <1>2, <1>3, <1>4 DEF Sound, WritesGuarded
  <2>3. WorkByPc(t)'
    BY <1>1, <1>2, <1>3, <1>4 DEF Sound, WorkByPc, Placed
  <2>4. KindByPc(t)'
    BY <1>1, <1>2, <1>3 DEF Sound, KindByPc
  <2> QED BY <2>1, <2>2, <2>3, <2>4 DEF Sound
<1>6. authority' \subseteq Placed
  BY <1>4 DEF IInv
<1> QED BY <1>2, <1>4, <1>5, <1>6, LocalStep DEF Local

(* Processes that start.                                                   *)
LEMMA BeginSteps ==
    ASSUME IInv, TypeInv', NEW t \in Procs, NEW o \in Orders,
           CheckoutBegin(t, o) \/ CallbackBegin(t, o) \/ SweepBegin(t)
    PROVE  IInv'
<1>1. /\ pc \in [Procs -> PCs] /\ kind \in [Procs -> Kinds]
      /\ cur \in [Procs -> Orders \cup {NoOrder}] /\ todo \in [Procs -> SUBSET Orders]
      /\ placing \in [Procs -> Orders \cup {NoOrder}]
  BY DEF IInv, TypeInv, TypeOK
<1>2. /\ pc[t] = "idle" /\ UNCHANGED <<tables, newPay, newTx>>
      /\ \A u \in Procs \ {t} : Same(u)
      /\ \/ /\ pc'[t] = "nextStale" /\ kind'[t] = "checkout" /\ placing'[t] = o
            /\ paymentStatus[o] = "absent" /\ \A u \in Procs \ {t} : placing[u] # o
            /\ todo'[t] \subseteq Placed
         \/ /\ pc'[t] \in {"verify", "releaseOrder"} /\ kind'[t] = "callback" /\ cur'[t] = o
            /\ placing'[t] = placing[t] /\ o \in Placed /\ todo'[t] = todo[t]
         \/ /\ pc'[t] = "nextExpired" /\ kind'[t] = "sweep" /\ placing'[t] = placing[t]
            /\ todo'[t] \subseteq Placed
  <2>1. CASE CheckoutBegin(t, o)
    <3>1. StalePending(o) \subseteq Placed
      BY DEF StalePending, Placed, IInv, TypeInv, TypeOK
    <3> QED BY <1>1, <2>1, <3>1 DEF CheckoutBegin, Start, Goto, Same
  <2>2. CASE CallbackBegin(t, o)
    <3>1. o \in Placed
      BY <2>2 DEF CallbackBegin, IInv
    <3> QED BY <1>1, <2>2, <3>1 DEF CallbackBegin, Start, Goto, Same
  <2>3. CASE SweepBegin(t)
    <3>1. {x \in Orders : Overdue(x)} \subseteq Placed
      BY DEF Overdue, Placed
    <3> QED BY <1>1, <2>3, <3>1 DEF SweepBegin, Start, Goto, Same
  <2> QED BY <2>1, <2>2, <2>3
<1>3. Sound(t)
  BY DEF IInv
<1>4. \A x \in Orders : newPay[t][x] = "same" /\ newTx[t][x] = "same"
  BY <1>2, <1>3 DEF Sound, WritesByPc, NoOpenWrites
<1>5. paymentStatus' = paymentStatus /\ txStatus' = txStatus /\ answered' = answered
      /\ authority' = authority /\ newPay' = newPay /\ newTx' = newTx
  BY <1>2 DEF tables
<1>6. Sound(t)'
  <2>1. WritesByPc(t)'
    BY <1>2, <1>4, <1>5 DEF WritesByPc, NoOpenWrites, AgreeExcept, Placed
  <2>2. WritesGuarded(t)'
    BY <1>4, <1>5 DEF WritesGuarded
  <2>3. WorkByPc(t)'
    BY <1>2, <1>3, <1>4, <1>5 DEF Sound, WorkByPc, Placed
  <2>4. KindByPc(t)'
    BY <1>2 DEF KindByPc
  <2> QED BY <2>1, <2>2, <2>3, <2>4 DEF Sound
<1>7. authority' \subseteq Placed
  BY <1>5 DEF IInv
<1>8. Locks(t)
  BY <1>2, <1>5 DEF Locks
<1> QED BY <1>2, <1>5, <1>6, <1>7, <1>8, LocalStep DEF Local

(* The payment row is written only while INITIATED, so the order is PENDING. *)
LEMMA ConfirmTxStep ==
    ASSUME IInv, TypeInv', NEW t \in Procs, ConfirmTx(t)
    PROVE  IInv'
<1>1. /\ pc \in [Procs -> PCs] /\ cur[t] \in Orders /\ cur[t] \in Placed
      /\ newPay \in [Procs -> [Orders -> Writes]] /\ newTx \in [Procs -> [Orders -> Writes]]
      /\ Sound(t)
  BY DEF IInv, TypeInv, TypeOK, OrderAtHand, ConfirmTx, Sound, WorkByPc, Placed
<1>2. /\ pc[t] = "confirmTx"
      /\ \/ /\ txStatus[cur[t]] = "INITIATED" /\ TxRowFree(t, cur[t])
            /\ newTx' = Put(newTx, t, cur[t], "PAID")
         \/ /\ ~(txStatus[cur[t]] = "INITIATED") /\ newTx' = newTx
  BY DEF ConfirmTx
<1>3. /\ UNCHANGED <<paymentStatus, txStatus, answered, authority, kind, cur, placing, todo, newPay>>
      /\ pc' = [pc EXCEPT ![t] = pc'[t]]
      /\ pc'[t] = "confirmOrder"
  BY <1>1 DEF ConfirmTx, tables, Goto
<1>4. /\ \A u \in Procs \ {t} : newTx'[u] = newTx[u] /\ pc'[u] = pc[u]
      /\ \A o \in Orders \ {cur[t]} : newTx'[t][o] = newTx[t][o]
      /\ newTx'[t][cur[t]] = IF txStatus[cur[t]] = "INITIATED" THEN "PAID" ELSE newTx[t][cur[t]]
  <2>1. \A u \in Procs \ {t} : pc'[u] = pc[u]
    BY <1>1, <1>3
  <2>2. CASE txStatus[cur[t]] = "INITIATED"
    <3>1. newTx' = Put(newTx, t, cur[t], "PAID")
      BY <1>2, <2>2
    <3>2. /\ \A u \in Procs \ {t} : Put(newTx, t, cur[t], "PAID")[u] = newTx[u]
          /\ \A o \in Orders : Put(newTx, t, cur[t], "PAID")[t][o]
                               = IF o = cur[t] THEN "PAID" ELSE newTx[t][o]
      BY <1>1, PutWrite, SMTT(60)
    <3> QED BY <1>1, <2>1, <2>2, <3>1, <3>2
  <2>3. CASE ~(txStatus[cur[t]] = "INITIATED")
    BY <1>2, <2>1, <2>3
  <2> QED BY <2>2, <2>3
<1>5. \A u \in Procs \ {t} : Same(u)
  BY <1>3, <1>4 DEF Same
<1>6. Locks(t)
  BY <1>2, <1>3, <1>4 DEF Locks
<1>7. txStatus[cur[t]] = IF paymentStatus[cur[t]] = "PENDING" THEN "INITIATED"
                                                            ELSE paymentStatus[cur[t]]
  BY <1>1 DEF IInv, PaymentMatchesOrder
<1>8. paymentStatus[cur[t]] \in {"PENDING", "PAID", "FAILED"}
  BY <1>1 DEF IInv, TypeInv, TypeOK, PaymentStatuses, Placed
<1>9. WritesByPc(t)'
  BY <1>1, <1>2, <1>3, <1>4, <1>7, <1>8 DEF Sound, WritesByPc, NoOpenWrites, AgreeExcept, Settled
<1>10. WritesGuarded(t)'
  BY <1>1, <1>2, <1>3, <1>4, <1>7, <1>8 DEF Sound, WritesGuarded
<1>11. WorkByPc(t)'
  BY <1>1, <1>2, <1>3, <1>4, <1>7, <1>8 DEF Sound, WorkByPc, Placed
<1>12. KindByPc(t)'
  BY <1>1, <1>2, <1>3, <1>4, <1>7, <1>8 DEF Sound, KindByPc
<1>13. Sound(t)'
  BY <1>9, <1>10, <1>11, <1>12 DEF Sound
<1>14. authority' \subseteq Placed
  BY <1>3 DEF IInv
<1> QED BY <1>3, <1>5, <1>6, <1>13, <1>14, LocalStep DEF Local

(* The order row follows, or both are left alone and the order is settled. *)
LEMMA ConfirmOrderStep ==
    ASSUME IInv, TypeInv', NEW t \in Procs, ConfirmOrder(t)
    PROVE  IInv'
<1>1. /\ pc \in [Procs -> PCs] /\ cur[t] \in Orders /\ cur[t] \in Placed
      /\ newPay \in [Procs -> [Orders -> Writes]] /\ newTx \in [Procs -> [Orders -> Writes]]
      /\ Sound(t)
  BY DEF IInv, TypeInv, TypeOK, OrderAtHand, ConfirmOrder, Sound, WorkByPc, Placed
<1>2. /\ pc[t] = "confirmOrder"
      /\ \/ /\ paymentStatus[cur[t]] = "PENDING" /\ OrderRowFree(t, cur[t])
            /\ newPay' = Put(newPay, t, cur[t], "PAID")
         \/ /\ ~(paymentStatus[cur[t]] = "PENDING") /\ newPay' = newPay
  BY DEF ConfirmOrder
<1>3. /\ UNCHANGED <<paymentStatus, txStatus, answered, authority, kind, cur, placing, todo, newTx>>
      /\ pc' = [pc EXCEPT ![t] = pc'[t]]
      /\ pc'[t] = IF kind[t] = "instant" \/ (newTx[t][cur[t]] = "PAID" /\ newPay'[t][cur[t]] = "PAID")
                    THEN "commit" ELSE "revive"
  <2> DEFINE next == IF kind[t] = "instant" \/ (newTx[t][cur[t]] = "PAID" /\ newPay'[t][cur[t]] = "PAID")
                    THEN "commit" ELSE "revive"
  <2>1. pc' = [pc EXCEPT ![t] = next]
    BY DEF ConfirmOrder, Goto
  <2>2. pc'[t] = next
    <3> HIDE DEF next
    <3> QED BY <1>1, <2>1
  <2> QED BY <2>1, <2>2 DEF ConfirmOrder, tables
<1>4. /\ \A u \in Procs \ {t} : newPay'[u] = newPay[u] /\ pc'[u] = pc[u]
      /\ \A o \in Orders \ {cur[t]} : newPay'[t][o] = newPay[t][o]
      /\ newPay'[t][cur[t]] = IF paymentStatus[cur[t]] = "PENDING" THEN "PAID" ELSE newPay[t][cur[t]]
  <2>1. \A u \in Procs \ {t} : pc'[u] = pc[u]
    BY <1>1, <1>3
  <2>2. CASE paymentStatus[cur[t]] = "PENDING"
    <3>1. newPay' = Put(newPay, t, cur[t], "PAID")
      BY <1>2, <2>2
    <3>2. /\ \A u \in Procs \ {t} : Put(newPay, t, cur[t], "PAID")[u] = newPay[u]
          /\ \A o \in Orders : Put(newPay, t, cur[t], "PAID")[t][o]
                               = IF o = cur[t] THEN "PAID" ELSE newPay[t][o]
      BY <1>1, PutWrite
    <3> QED BY <1>1, <2>1, <2>2, <3>1, <3>2
  <2>3. CASE ~(paymentStatus[cur[t]] = "PENDING")
    BY <1>2, <2>1, <2>3
  <2> QED BY <2>2, <2>3
<1>5. \A u \in Procs \ {t} : Same(u)
  BY <1>3, <1>4 DEF Same
<1>6. Locks(t)
  BY <1>2, <1>3, <1>4 DEF Locks
<1>7. txStatus[cur[t]] = IF paymentStatus[cur[t]] = "PENDING" THEN "INITIATED"
                                                            ELSE paymentStatus[cur[t]]
  BY <1>1 DEF IInv, PaymentMatchesOrder
<1>8. paymentStatus[cur[t]] \in {"PENDING", "PAID", "FAILED"}
  BY <1>1 DEF IInv, TypeInv, TypeOK, PaymentStatuses, Placed
<1>9. WritesByPc(t)'
  BY <1>1, <1>2, <1>3, <1>4, <1>7, <1>8 DEF Sound, WritesByPc, NoOpenWrites, AgreeExcept, Settled
<1>10. WritesGuarded(t)'
  BY <1>1, <1>2, <1>3, <1>4, <1>7, <1>8 DEF Sound, WritesGuarded
<1>11. WorkByPc(t)'
  BY <1>1, <1>2, <1>3, <1>4, <1>7, <1>8 DEF Sound, WorkByPc, Placed
<1>12. KindByPc(t)'
  BY <1>1, <1>2, <1>3, <1>4, <1>7, <1>8 DEF Sound, KindByPc
<1>13. Sound(t)'
  BY <1>9, <1>10, <1>11, <1>12 DEF Sound
<1>14. authority' \subseteq Placed
  BY <1>3 DEF IInv
<1> QED BY <1>3, <1>5, <1>6, <1>13, <1>14, LocalStep DEF Local

(* The order row is released only while PENDING.                           *)
LEMMA ReleaseOrderStep ==
    ASSUME IInv, TypeInv', NEW t \in Procs, ReleaseOrder(t)
    PROVE  IInv'
<1>1. /\ pc \in [Procs -> PCs] /\ cur[t] \in Orders /\ cur[t] \in Placed
      /\ newPay \in [Procs -> [Orders -> Writes]] /\ newTx \in [Procs -> [Orders -> Writes]]
      /\ Sound(t)
  BY DEF IInv, TypeInv, TypeOK, OrderAtHand, ReleaseOrder, Sound, WorkByPc, Placed
<1>2. /\ pc[t] = "releaseOrder"
      /\ \/ /\ paymentStatus[cur[t]] = "PENDING" /\ OrderRowFree(t, cur[t])
            /\ newPay' = Put(newPay, t, cur[t], "FAILED")
         \/ /\ ~(paymentStatus[cur[t]] = "PENDING") /\ newPay' = newPay
  BY DEF ReleaseOrder
<1>3. /\ UNCHANGED <<paymentStatus, txStatus, answered, authority, kind, cur, placing, todo, newTx>>
      /\ pc' = [pc EXCEPT ![t] = pc'[t]]
      /\ pc'[t] = IF paymentStatus[cur[t]] = "PENDING" THEN "releaseTx"
                  ELSE IF kind[t] = "checkout" THEN "nextStale" ELSE "commit"
  BY <1>1 DEF ReleaseOrder, tables, Goto, ReleaseDone
<1>4. /\ \A u \in Procs \ {t} : newPay'[u] = newPay[u] /\ pc'[u] = pc[u]
      /\ \A o \in Orders \ {cur[t]} : newPay'[t][o] = newPay[t][o]
      /\ newPay'[t][cur[t]] = IF paymentStatus[cur[t]] = "PENDING" THEN "FAILED" ELSE newPay[t][cur[t]]
  <2>1. \A u \in Procs \ {t} : pc'[u] = pc[u]
    BY <1>1, <1>3
  <2>2. CASE paymentStatus[cur[t]] = "PENDING"
    <3>1. newPay' = Put(newPay, t, cur[t], "FAILED")
      BY <1>2, <2>2
    <3>2. /\ \A u \in Procs \ {t} : Put(newPay, t, cur[t], "FAILED")[u] = newPay[u]
          /\ \A o \in Orders : Put(newPay, t, cur[t], "FAILED")[t][o]
                               = IF o = cur[t] THEN "FAILED" ELSE newPay[t][o]
      BY <1>1, PutWrite
    <3> QED BY <1>1, <2>1, <2>2, <3>1, <3>2
  <2>3. CASE ~(paymentStatus[cur[t]] = "PENDING")
    BY <1>2, <2>1, <2>3
  <2> QED BY <2>2, <2>3
<1>5. \A u \in Procs \ {t} : Same(u)
  BY <1>3, <1>4 DEF Same
<1>6. Locks(t)
  BY <1>2, <1>3, <1>4 DEF Locks
<1>7. txStatus[cur[t]] = IF paymentStatus[cur[t]] = "PENDING" THEN "INITIATED"
                                                            ELSE paymentStatus[cur[t]]
  BY <1>1 DEF IInv, PaymentMatchesOrder
<1>8. paymentStatus[cur[t]] \in {"PENDING", "PAID", "FAILED"}
  BY <1>1 DEF IInv, TypeInv, TypeOK, PaymentStatuses, Placed
<1>9. WritesByPc(t)'
  BY <1>1, <1>2, <1>3, <1>4, <1>7, <1>8 DEF Sound, WritesByPc, NoOpenWrites, AgreeExcept, Settled
<1>10. WritesGuarded(t)'
  BY <1>1, <1>2, <1>3, <1>4, <1>7, <1>8 DEF Sound, WritesGuarded
<1>11. WorkByPc(t)'
  BY <1>1, <1>2, <1>3, <1>4, <1>7, <1>8 DEF Sound, WorkByPc, Placed
<1>12. KindByPc(t)'
  BY <1>1, <1>2, <1>3, <1>4, <1>7, <1>8 DEF Sound, KindByPc
<1>13. Sound(t)'
  BY <1>9, <1>10, <1>11, <1>12 DEF Sound
<1>14. authority' \subseteq Placed
  BY <1>3 DEF IInv
<1> QED BY <1>3, <1>5, <1>6, <1>13, <1>14, LocalStep DEF Local

(* The payment row follows: it is INITIATED because the order was PENDING. *)
LEMMA ReleaseTxStep ==
    ASSUME IInv, TypeInv', NEW t \in Procs, ReleaseTx(t)
    PROVE  IInv'
<1>1. /\ pc \in [Procs -> PCs] /\ cur[t] \in Orders /\ cur[t] \in Placed
      /\ newPay \in [Procs -> [Orders -> Writes]] /\ newTx \in [Procs -> [Orders -> Writes]]
      /\ Sound(t)
  BY DEF IInv, TypeInv, TypeOK, OrderAtHand, ReleaseTx, Sound, WorkByPc, Placed
<1>2. /\ pc[t] = "releaseTx"
      /\ \/ /\ txStatus[cur[t]] = "INITIATED" /\ TxRowFree(t, cur[t])
            /\ newTx' = Put(newTx, t, cur[t], "FAILED")
         \/ /\ ~(txStatus[cur[t]] = "INITIATED") /\ newTx' = newTx
  BY DEF ReleaseTx
<1>3. /\ UNCHANGED <<paymentStatus, txStatus, answered, authority, kind, cur, placing, todo, newPay>>
      /\ pc' = [pc EXCEPT ![t] = pc'[t]]
      /\ pc'[t] = IF kind[t] = "checkout" THEN "nextStale" ELSE "commit"
  BY <1>1 DEF ReleaseTx, tables, Goto, ReleaseDone
<1>4. /\ \A u \in Procs \ {t} : newTx'[u] = newTx[u] /\ pc'[u] = pc[u]
      /\ \A o \in Orders \ {cur[t]} : newTx'[t][o] = newTx[t][o]
      /\ newTx'[t][cur[t]] = IF txStatus[cur[t]] = "INITIATED" THEN "FAILED" ELSE newTx[t][cur[t]]
  <2>1. \A u \in Procs \ {t} : pc'[u] = pc[u]
    BY <1>1, <1>3
  <2>2. CASE txStatus[cur[t]] = "INITIATED"
    <3>1. newTx' = Put(newTx, t, cur[t], "FAILED")
      BY <1>2, <2>2
    <3>2. /\ \A u \in Procs \ {t} : Put(newTx, t, cur[t], "FAILED")[u] = newTx[u]
          /\ \A o \in Orders : Put(newTx, t, cur[t], "FAILED")[t][o]
                               = IF o = cur[t] THEN "FAILED" ELSE newTx[t][o]
      BY <1>1, PutWrite, SMTT(60)
    <3> QED BY <1>1, <2>1, <2>2, <3>1, <3>2
  <2>3. CASE ~(txStatus[cur[t]] = "INITIATED")
    BY <1>2, <2>1, <2>3
  <2> QED BY <2>2, <2>3
<1>5. \A u \in Procs \ {t} : Same(u)
  BY <1>3, <1>4 DEF Same
<1>6. Locks(t)
  BY <1>2, <1>3, <1>4 DEF Locks
<1>7. txStatus[cur[t]] = IF paymentStatus[cur[t]] = "PENDING" THEN "INITIATED"
                                                            ELSE paymentStatus[cur[t]]
  BY <1>1 DEF IInv, PaymentMatchesOrder
<1>8. paymentStatus[cur[t]] \in {"PENDING", "PAID", "FAILED"}
  BY <1>1 DEF IInv, TypeInv, TypeOK, PaymentStatuses, Placed
<1>9. WritesByPc(t)'
  <2>1. newPay[t][cur[t]] = "FAILED" /\ AgreeExcept(t, {cur[t]})
    BY <1>1, <1>2 DEF Sound, WritesByPc
  <2>2. txStatus[cur[t]] = "INITIATED"
    BY <1>1, <1>7, <2>1 DEF Sound, WritesGuarded
  <2>3. AgreeExcept(t, {})'
    BY <1>3, <1>4, <2>1, <2>2 DEF AgreeExcept
  <2> QED BY <1>3, <2>3 DEF WritesByPc
<1>10. WritesGuarded(t)'
  BY <1>1, <1>2, <1>3, <1>4, <1>7, <1>8 DEF Sound, WritesGuarded
<1>11. WorkByPc(t)'
  BY <1>1, <1>2, <1>3, <1>4, <1>7, <1>8 DEF Sound, WorkByPc, Placed
<1>12. KindByPc(t)'
  BY <1>1, <1>2, <1>3, <1>4, <1>7, <1>8 DEF Sound, KindByPc
<1>13. Sound(t)'
  BY <1>9, <1>10, <1>11, <1>12 DEF Sound
<1>14. authority' \subseteq Placed
  BY <1>3 DEF IInv
<1> QED BY <1>3, <1>5, <1>6, <1>13, <1>14, LocalStep DEF Local

(* Both rows are written together, or neither is.                          *)
LEMMA ReviveStep ==
    ASSUME IInv, TypeInv', NEW t \in Procs, Revive(t)
    PROVE  IInv'
<1>1. /\ pc \in [Procs -> PCs] /\ cur[t] \in Orders /\ cur[t] \in Placed
      /\ newPay \in [Procs -> [Orders -> Writes]] /\ newTx \in [Procs -> [Orders -> Writes]]
      /\ Sound(t)
  BY DEF IInv, TypeInv, TypeOK, OrderAtHand, Revive, Sound, WorkByPc, Placed
<1>2. /\ Settled(cur[t]) /\ kind[t] = "confirm"
      /\ \A o \in Orders : newPay[t][o] = "same" /\ newTx[t][o] = "same"
  BY <1>1 DEF Revive, Sound, WritesByPc, KindByPc, NoOpenWrites
<1>3. /\ UNCHANGED <<paymentStatus, txStatus, answered, authority, kind, cur, placing, todo>>
      /\ pc' = [pc EXCEPT ![t] = "commit"] /\ pc[t] = "revive"
  BY DEF Revive, tables, Goto
<1>4. Becomes(newPay[t], paymentStatus)[cur[t]] = paymentStatus[cur[t]]
  BY <1>1, <1>2 DEF Becomes
<1>5. CASE paymentStatus[cur[t]] = "PAID"
  <2>1. newPay' = newPay /\ newTx' = newTx
    BY <1>4, <1>5 DEF Revive
  <2>2. Locks(t) /\ \A u \in Procs \ {t} : Same(u)
    BY <1>1, <1>3, <2>1 DEF Locks, Same
  <2>3. Sound(t)'
    BY <1>1, <1>2, <1>3, <1>5, <2>1
    DEF Sound, WritesByPc, WritesGuarded, WorkByPc, KindByPc, AgreeExcept, Placed
  <2> QED BY <1>3, <2>2, <2>3, LocalStep DEF Local, IInv
<1>6. CASE paymentStatus[cur[t]] = "FAILED"
  <2>1. /\ newPay' = Put(newPay, t, cur[t], "PAID") /\ newTx' = Put(newTx, t, cur[t], "PAID")
        /\ OrderRowFree(t, cur[t]) /\ TxRowFree(t, cur[t])
    BY <1>4, <1>6 DEF Revive
  <2>2. /\ \A u \in Procs \ {t} : newPay'[u] = newPay[u] /\ newTx'[u] = newTx[u]
        /\ \A o \in Orders : newPay'[t][o] = IF o = cur[t] THEN "PAID" ELSE newPay[t][o]
        /\ \A o \in Orders : newTx'[t][o] = IF o = cur[t] THEN "PAID" ELSE newTx[t][o]
    BY <1>1, <2>1, PutWrite
  <2>3. Locks(t) /\ \A u \in Procs \ {t} : Same(u)
    BY <1>1, <1>3, <2>1, <2>2 DEF Locks, Same
  <2>4. WritesByPc(t)'
    BY <1>1, <1>2, <1>3, <2>2 DEF WritesByPc, AgreeExcept
  <2>5. WritesGuarded(t)'
    BY <1>1, <1>2, <1>3, <1>6, <2>2 DEF WritesGuarded
  <2>6. todo[t] = {}
    BY <1>1, <1>3 DEF Sound, WorkByPc
  <2>7. WorkByPc(t)' /\ KindByPc(t)'
    BY <1>1, <1>2, <1>3, <2>2, <2>6 DEF Sound, WorkByPc, KindByPc, Placed
  <2> QED BY <1>3, <2>3, <2>4, <2>5, <2>7, LocalStep DEF Local, IInv, Sound
<1> QED BY <1>2, <1>5, <1>6 DEF Settled

(* Callbacks, refused checkouts, orders with nothing due and sweeps commit.*)
LEMMA CommitSteps ==
    ASSUME IInv, TypeInv', NEW t \in Procs, CommitRequest(t) \/ SweepCommit(t)
    PROVE  IInv'
<1>1. /\ CommitSettlement(t) /\ ClearWrites(t) /\ authority' = authority /\ pc[t] = "commit"
      /\ \/ answered' = answered
         \/ answered' = answered \cup {cur[t]} /\ kind[t] = "confirm"
  BY DEF CommitRequest, SweepCommit, Finish
<1>2. /\ pc \in [Procs -> PCs] /\ kind \in [Procs -> Kinds]
      /\ cur \in [Procs -> Orders \cup {NoOrder}] /\ todo \in [Procs -> SUBSET Orders]
      /\ placing \in [Procs -> Orders \cup {NoOrder}]
      /\ cur[t] \in Placed /\ todo[t] \subseteq Placed /\ kind[t] # "checkout"
      /\ Sound(t)
  BY <1>1 DEF IInv, TypeInv, TypeOK, Sound, WorkByPc, KindByPc
<1>3. /\ AgreeExcept(t, {})
      /\ kind[t] = "confirm" => newPay[t][cur[t]] = "PAID" \/ paymentStatus[cur[t]] = "PAID"
  BY <1>1, <1>2 DEF Sound, WritesByPc, KindByPc
<1>4. /\ \/ pc'[t] = "idle" /\ kind'[t] = "none" /\ todo'[t] = {} /\ placing'[t] = NoOrder
         \/ /\ pc'[t] = "hooks" \/ (pc'[t] = "nextExpired" /\ kind[t] = "sweep")
            /\ kind'[t] = kind[t] /\ cur'[t] = cur[t] /\ todo'[t] = todo[t]
            /\ placing'[t] = placing[t]
      /\ \A u \in Procs \ {t} : /\ pc'[u] = pc[u] /\ kind'[u] = kind[u] /\ cur'[u] = cur[u]
                                 /\ placing'[u] = placing[u] /\ todo'[u] = todo[u]
  <2>1. CASE SweepCommit(t)
    BY <1>2, <2>1 DEF SweepCommit, Goto
  <2>2. CASE CommitRequest(t)
    <3>1. \/ Goto(t, "hooks") /\ UNCHANGED <<kind, cur, placing, todo>>
          \/ Finish(t)
      BY <2>2 DEF CommitRequest
    <3>2. CASE Goto(t, "hooks") /\ UNCHANGED <<kind, cur, placing, todo>>
      BY <1>2, <3>2 DEF Goto
    <3>3. CASE Finish(t)
      BY <1>2, <3>3 DEF Finish, Goto
    <3> QED BY <3>1, <3>2, <3>3
  <2> QED BY <2>1, <2>2
<1>5. /\ \A o \in Orders : newPay'[t][o] = "same" /\ newTx'[t][o] = "same"
      /\ \A u \in Procs \ {t} : newPay'[u] = newPay[u] /\ newTx'[u] = newTx[u]
  BY <1>1, ClearedWrites DEF NoWrites, IInv, TypeInv
<1>6. \A u \in Procs \ {t} : Same(u)
  BY <1>4, <1>5 DEF Same
<1>7. Placed \subseteq Placed'
  <2>1. \A o \in Orders : newPay[t][o] \in Writes
    BY DEF IInv, TypeInv, TypeOK
  <2>2. \A o \in Orders :
          paymentStatus'[o] = IF newPay[t][o] = "same" THEN paymentStatus[o] ELSE newPay[t][o]
    BY <1>1 DEF CommitSettlement, Becomes
  <2> QED BY <2>1, <2>2 DEF Placed, Writes
<1>8. Sound(t)'
  <2>1. WritesByPc(t)' /\ WritesGuarded(t)'
    BY <1>4, <1>5 DEF WritesByPc, WritesGuarded, NoOpenWrites
  <2>2. WorkByPc(t)'
    <3>1. pc'[t] \notin {"idle", "nextStale", "nextExpired"} => cur'[t] \in Placed'
      BY <1>2, <1>4, <1>7
    <3>2. todo'[t] \subseteq Placed'
      BY <1>2, <1>4, <1>7
    <3>3. kind'[t] # "checkout"
      BY <1>2, <1>4
    <3> QED BY <1>4, <1>5, <3>1, <3>2, <3>3 DEF WorkByPc, Placed
  <2>3. KindByPc(t)'
    BY <1>2, <1>4 DEF KindByPc
  <2> QED BY <2>1, <2>2, <2>3 DEF Sound
<1> QED BY <1>1, <1>3, <1>4, <1>6, <1>8, CommitStep

(* Processes that end without a commit.                                    *)
LEMMA EndSteps ==
    ASSUME IInv, TypeInv', NEW t \in Procs,
           StoreAuthority(t) \/ RunHooks(t) \/ SweepEnd(t) \/ DeadlockVictim(t) \/ Fail(t)
    PROVE  IInv'
<1>1. /\ Finish(t) /\ UNCHANGED <<paymentStatus, txStatus, answered>>
      /\ \/ authority' = authority
         \/ authority' \subseteq authority \cup {cur[t]} /\ pc[t] = "storeAuthority"
  BY DEF StoreAuthority, RunHooks, SweepEnd, DeadlockVictim, Fail, tables
<1>2. Sound(t)' /\ Locks(t) /\ \A u \in Procs \ {t} : Same(u)
  BY <1>1, FinishStep DEF IInv
<1>3. authority' \subseteq Placed
  BY <1>1 DEF IInv, Sound, WorkByPc
<1> QED BY <1>1, <1>2, <1>3, LocalStep DEF Local

(* The surroundings touch neither payment status nor any process.          *)
LEMMA OutsideSteps ==
    ASSUME IInv, TypeInv', Surroundings \/ UNCHANGED vars
    PROVE  IInv'
<1>1. UNCHANGED <<paymentStatus, txStatus, authority, answered, procs>>
  BY DEF Surroundings, Expire, CustomerPays, UpdateStatus, ReserveElsewhere, vars, tables
<1>2. /\ UNCHANGED <<paymentStatus, txStatus, authority, answered>>
      /\ UNCHANGED <<pc, kind, cur, placing, todo, newPay, newTx>>
  BY <1>1 DEF procs
<1>3. \A t \in Procs : Sound(t)'
  BY <1>2, SoundFrame DEF Same, Respects, IInv
<1> QED BY <1>2, <1>3
    DEF IInv, PaymentMatchesOrder, ConfirmedIsPaid, RowLocks, PlacedOnce, Placed

(* Only rows of placed orders are ever written.                            *)
LEMMA WritesArePlaced ==
    ASSUME TypeInv, NEW u \in Procs, Sound(u), NEW o \in Orders, paymentStatus[o] = "absent"
    PROVE  newPay[u][o] = "same" /\ newTx[u][o] = "same"
<1>1. newPay[u] \in [Orders -> Writes] /\ pc[u] \in PCs
  BY DEF TypeInv, TypeOK
<1>2. newPay[u][o] = "same"
  BY <1>1 DEF Sound, WritesGuarded, Writes
<1>3. pc[u] \notin {"idle", "nextStale", "nextExpired"} => cur[u] # o
  BY DEF Sound, WorkByPc, Placed
<1>4. newTx[u][o] = "same"
  BY <1>1, <1>2, <1>3 DEF Sound, WritesByPc, NoOpenWrites, AgreeExcept, PCs
<1> QED BY <1>2, <1>4

(* A checkout commits: its releases take effect and its order appears.     *)
LEMMA PlaceOrderStep ==
    ASSUME IInv, TypeInv', NEW t \in Procs, PlaceOrder(t)
    PROVE  IInv'
<1> DEFINE o == placing[t]
<1>1. /\ pc \in [Procs -> PCs] /\ kind \in [Procs -> Kinds]
      /\ cur \in [Procs -> Orders \cup {NoOrder}]
      /\ Sound(t) /\ todo[t] = {} /\ kind[t] = "checkout"
      /\ o \in Orders /\ paymentStatus[o] = "absent"
  BY DEF PlaceOrder, IInv, TypeInv, TypeOK, Sound, KindByPc, WorkByPc, Placed
<1>2. /\ pc' = [pc EXCEPT ![t] = "askGateway"] /\ kind' = [kind EXCEPT ![t] = "gateway"]
      /\ cur' = [cur EXCEPT ![t] = o] /\ ClearWrites(t)
      /\ UNCHANGED <<placing, todo, authority, answered>>
  BY DEF PlaceOrder, Goto
<1>3. AgreeExcept(t, {}) /\ WritesGuarded(t)
  BY <1>1 DEF PlaceOrder, Sound, WritesByPc
<1>4. \A x \in Orders : newPay[t][x] \in Writes
  BY DEF IInv, TypeInv, TypeOK
<1>5. \A x \in Orders :
        /\ paymentStatus'[x] = IF x = o THEN "PENDING"
                               ELSE IF newPay[t][x] = "same" THEN paymentStatus[x] ELSE newPay[t][x]
        /\ txStatus'[x] = IF x = o THEN "INITIATED"
                          ELSE IF newPay[t][x] = "same" THEN txStatus[x] ELSE newPay[t][x]
  BY <1>1, <1>3 DEF PlaceOrder, Becomes, AgreeExcept
<1>6. /\ \A x \in Orders : newPay'[t][x] = "same" /\ newTx'[t][x] = "same"
      /\ \A u \in Procs \ {t} : newPay'[u] = newPay[u] /\ newTx'[u] = newTx[u]
  BY <1>2, ClearedWrites DEF NoWrites, IInv, TypeInv
<1>7. \A u \in Procs \ {t} : Same(u)
  BY <1>1, <1>2, <1>6 DEF Same
<1>8. PaymentMatchesOrder'
  BY <1>4, <1>5 DEF IInv, PaymentMatchesOrder, Writes
<1>9. RowLocks' /\ PlacedOnce'
  <2>1. Locks(t)
    BY <1>2, <1>6 DEF Locks
  <2> QED BY <1>7, <2>1, LocksKept DEF IInv
<1>10. Sound(t)'
  <2>1. WritesByPc(t)' /\ WritesGuarded(t)'
    BY <1>1, <1>2, <1>6 DEF WritesByPc, WritesGuarded, NoOpenWrites
  <2>2. WorkByPc(t)' /\ KindByPc(t)'
    BY <1>1, <1>2, <1>5 DEF WorkByPc, KindByPc, Placed
  <2> QED BY <2>1, <2>2 DEF Sound
<1>11. ASSUME NEW u \in Procs \ {t} PROVE Sound(u)'
  <2>1. Sound(u)
    BY DEF IInv
  <2>2. ASSUME NEW x \in Orders, paymentStatus'[x] # paymentStatus[x]
        PROVE  /\ newPay[u][x] = "same" /\ newTx[u][x] = "same"
               /\ kind[u] = "checkout" => placing[u] # x
               /\ paymentStatus[x] # "PAID" /\ paymentStatus'[x] # "absent"
               /\ Settled(x) => paymentStatus'[x] \in {"FAILED", "PAID"}
    <3>1. CASE x = o
      <4>1. newPay[u][x] = "same" /\ newTx[u][x] = "same"
        BY <1>1, <2>1, <3>1, WritesArePlaced DEF IInv
      <4>2. placing[u] # x
        BY <1>1, <3>1, OrdersAssumption DEF IInv, PlacedOnce
      <4> QED BY <1>1, <1>5, <3>1, <4>1, <4>2 DEF Settled
    <3>2. CASE x # o
      <4>1. newPay[t][x] \in {"PAID", "FAILED"} /\ newTx[t][x] = newPay[t][x]
        BY <1>3, <1>4, <1>5, <2>2, <3>2 DEF Writes, AgreeExcept
      <4>2. newPay[u][x] = "same" /\ newTx[u][x] = "same"
        BY <4>1 DEF IInv, RowLocks
      <4>3. paymentStatus[x] \in {"PENDING", "FAILED"} /\ paymentStatus'[x] \in {"PAID", "FAILED"}
        BY <1>3, <1>5, <3>2, <4>1 DEF WritesGuarded
      <4>4. kind[u] = "checkout" => placing[u] # x
        BY <2>1, <4>3 DEF Sound, WorkByPc, Placed
      <4> QED BY <4>2, <4>3, <4>4
    <3> QED BY <3>1, <3>2
  <2>3. Respects(u)
    BY <2>2 DEF Respects
  <2> QED BY <1>7, <2>1, <2>3, SoundFrame DEF IInv
<1>12. ConfirmedIsPaid' /\ authority' \subseteq Placed'
  <2>1. \A x \in Orders : /\ paymentStatus[x] = "PAID" => paymentStatus'[x] = "PAID"
                          /\ paymentStatus[x] # "absent" => paymentStatus'[x] # "absent"
    BY <1>1, <1>3, <1>4, <1>5 DEF WritesGuarded, Writes
  <2>2. answered \subseteq Orders
    BY DEF IInv, TypeInv, TypeOK
  <2> QED BY <1>2, <2>1, <2>2 DEF IInv, ConfirmedIsPaid, Placed
<1>13. \A u \in Procs : Sound(u)'
  BY <1>10, <1>11
<1> QED BY <1>8, <1>9, <1>12, <1>13 DEF IInv

--------------------------------------------------------------------------------

LEMMA Inductive == IInv /\ [Next]_vars => IInv'
<1> SUFFICES ASSUME IInv, [Next]_vars
             PROVE  IInv'
  OBVIOUS
<1>1. TypeInv'
  BY TypeStep, OrderAtHandStep DEF IInv, TypeInv
<1>2. ASSUME NEW t \in Requests, NEW o \in Orders, CheckoutBegin(t, o) \/ CallbackBegin(t, o)
      PROVE  IInv'
  BY <1>1, <1>2, BeginSteps DEF Procs
<1>3. ASSUME NEW t \in Sweepers, SweepBegin(t)
      PROVE  IInv'
  <2>1. PICK o \in Orders : Overdue(o)
    BY <1>3 DEF SweepBegin
  <2> QED BY <1>1, <1>3, BeginSteps DEF Procs
<1>4. ASSUME NEW t \in Procs, Step(t)
      PROVE  IInv'
  <2>1. CASE \E o \in Orders : ReleaseNextStale(t, o) \/ SweepNext(t, o)
    BY <1>1, <2>1, NextSteps
  <2>2. CASE PlaceOrder(t)
    BY <1>1, <2>2, PlaceOrderStep
  <2>3. CASE \/ GatewayAccepts(t) \/ GatewayRefuses(t) \/ NothingDue(t)
             \/ VerifySucceeds(t) \/ VerifyFails(t)
    BY <1>1, <2>3, GatewaySteps
  <2>4. CASE ConfirmTx(t) \/ ConfirmOrder(t) \/ Revive(t)
    BY <1>1, <2>4, ConfirmTxStep, ConfirmOrderStep, ReviveStep
  <2>5. CASE ReleaseOrder(t) \/ ReleaseTx(t)
    BY <1>1, <2>5, ReleaseOrderStep, ReleaseTxStep
  <2>6. CASE CommitRequest(t) \/ SweepCommit(t)
    BY <1>1, <2>6, CommitSteps
  <2>7. CASE StoreAuthority(t) \/ RunHooks(t) \/ SweepEnd(t) \/ DeadlockVictim(t)
    BY <1>1, <2>7, EndSteps
  <2> QED BY <1>4, <2>1, <2>2, <2>3, <2>4, <2>5, <2>6, <2>7 DEF Step
<1>5. ASSUME NEW t \in Procs, Fail(t)
      PROVE  IInv'
  BY <1>1, <1>5, EndSteps
<1>6. CASE Surroundings \/ UNCHANGED vars
  BY <1>1, <1>6, OutsideSteps
<1> QED BY <1>2, <1>3, <1>4, <1>5, <1>6 DEF Next

LEMMA Initially == Init => IInv
<1> SUFFICES ASSUME Init PROVE IInv
  OBVIOUS
<1>1. TypeInv
  BY BoundsAssumption
  DEF Init, TypeInv, TypeOK, OrderAtHand, PaymentStatuses, OrderStatuses, KnownStatuses,
      TxStatuses, GatewayStates, PCs, Kinds, Writes, NoWrites
<1>2. PaymentMatchesOrder /\ ConfirmedIsPaid /\ authority \subseteq Placed
  BY DEF Init, PaymentMatchesOrder, ConfirmedIsPaid
<1>3. RowLocks /\ PlacedOnce
  BY DEF Init, RowLocks, PlacedOnce, NoWrites
<1>4. \A t \in Procs : Sound(t)
  BY DEF Init, NoWrites, Sound, WritesByPc, WritesGuarded, WorkByPc, KindByPc, NoOpenWrites
<1> QED BY <1>1, <1>2, <1>3, <1>4 DEF IInv

LEMMA Invariant == Spec => []IInv
<1> QED BY Initially, Inductive, PTL DEF Spec

(* The order row and its payment row agree in every committed state,       *)
(* however checkouts, callbacks, refused payments and sweeps interleave    *)
(* and wherever any of them is cut off.                                    *)
THEOREM PaymentAlwaysMatchesOrder == Spec => []PaymentMatchesOrder
<1>1. IInv => PaymentMatchesOrder
  BY DEF IInv
<1> QED BY <1>1, Invariant, PTL

(* A callback that was answered after the gateway's confirmation has left  *)
(* its order paid, and nothing takes that back.                            *)
THEOREM ConfirmedStaysPaid == Spec => []ConfirmedIsPaid
<1>1. IInv => ConfirmedIsPaid
  BY DEF IInv
<1> QED BY <1>1, Invariant, PTL

--------------------------------------------------------------------------------
(* What the specification keeps on its books: it implements                *)
(* SettlementPromise, the paid hooks run at most once per order, and when  *)
(* money was due only for a paid order, and no unit of stock and no use of *)
(* the discount code is lost or counted twice.                             *)

InMoney(o) == gateway[o] \in {"verified", "waived"}
ConfirmedOrders == {o \in Orders : InMoney(o)}
Confirming == {"confirm", "instant"}

(* The request that placed an order is alone with it until the customer is *)
(* sent to the payment page; who marks an order paid has seen its money    *)
(* come in; and nobody marks another order paid than the one at hand.      *)
MoneySound(t) ==
    /\ pc[t] = "askGateway" => placing[t] = cur[t] /\ gateway[cur[t]] = "none"
    /\ pc[t] = "storeAuthority" => placing[t] = cur[t] /\ gateway[cur[t]] = "issued"
    /\ pc[t] = "nextExpired" => kind[t] = "sweep"
    /\ kind[t] \in Confirming => cur[t] \in Orders /\ InMoney(cur[t])
    /\ \A o \in Orders : newPay[t][o] = "PAID" => o = cur[t] /\ kind[t] \in Confirming

(* The gateway has not heard of an order that does not exist.              *)
Unheard == \A o \in Orders : paymentStatus[o] = "absent" => gateway[o] = "none"

MoneyInv == IInv /\ Unheard /\ \A t \in Procs : MoneySound(t)

(* The gateway changes only what it knows of placed orders, keeps what is  *)
(* confirmed, and before the payment page hears only from who placed the   *)
(* order.                                                                  *)
MoneyMoves(t) ==
    \A o \in Orders :
        \/ gateway'[o] = gateway[o]
        \/ /\ paymentStatus[o] # "absent"
           /\ ~InMoney(o)
           /\ gateway[o] \in {"none", "issued"} => placing[t] = o

LEMMA OthersSound ==
    ASSUME MoneyInv, NEW t \in Procs, MoneyMoves(t), NEW u \in Procs \ {t}, Same(u)
    PROVE  MoneySound(u)'
<1>1. MoneySound(u) /\ TypeInv /\ pc[u] \in PCs
  BY DEF MoneyInv, IInv, TypeInv, TypeOK
<1>2. ASSUME pc[u] \in {"askGateway", "storeAuthority"}
      PROVE  gateway'[cur[u]] = gateway[cur[u]]
  <2>1. cur[u] \in Orders /\ placing[u] = cur[u] /\ gateway[cur[u]] \in {"none", "issued"}
    BY <1>1, <1>2 DEF MoneySound, TypeInv, OrderAtHand
  <2>2. placing[t] # cur[u]
    BY <2>1, OrdersAssumption DEF MoneyInv, IInv, PlacedOnce
  <2> QED BY <2>1, <2>2 DEF MoneyMoves
<1>3. kind[u] \in Confirming => cur[u] \in Orders /\ InMoney(cur[u])'
  BY <1>1 DEF MoneySound, MoneyMoves, InMoney, Same
<1> QED BY <1>1, <1>2, <1>3 DEF MoneySound, Same, InMoney

LEMMA MoneyStep ==
    ASSUME MoneyInv, IInv', NEW t \in Procs, MoneyMoves(t), MoneySound(t)',
           \A u \in Procs \ {t} : Same(u), Placed \subseteq Placed'
    PROVE  MoneyInv'
<1>1. \A u \in Procs : MoneySound(u)'
  BY OthersSound
<1>2. Unheard'
  BY DEF MoneyInv, Unheard, MoneyMoves, Placed
<1> QED BY <1>1, <1>2 DEF MoneyInv

(* What the abstract specification allows, in terms of this one.           *)
Forward ==
    /\ \A o \in Orders :
        \/ paymentStatus'[o] = paymentStatus[o]
        \/ paymentStatus[o] = "absent" /\ paymentStatus'[o] = "PENDING"
        \/ paymentStatus[o] = "PENDING" /\ paymentStatus'[o] = "FAILED"
        \/ paymentStatus[o] \in {"PENDING", "FAILED"} /\ paymentStatus'[o] = "PAID" /\ InMoney(o)
    /\ gateway' = gateway
HearsOf(o) ==
    /\ UNCHANGED paymentStatus
    /\ \E g \in GatewayStates : gateway' = [gateway EXCEPT ![o] = g]
    /\ InMoney(o) => gateway' = gateway
Promised == Forward \/ \E o \in Orders : HearsOf(o)

(* Steps in which no process commits and the gateway hears nothing.        *)
LEMMA QuietStep ==
    ASSUME MoneyInv, IInv', NEW t \in Procs, UNCHANGED <<paymentStatus, gateway>>,
           MoneySound(t)', \A u \in Procs \ {t} : Same(u)
    PROVE  MoneyInv' /\ Promised
<1>1. MoneyMoves(t) /\ Placed \subseteq Placed'
  BY DEF MoneyMoves, Placed
<1> QED BY <1>1, MoneyStep DEF Promised, Forward

(* A process that starts has written nothing.                              *)
LEMMA BeginQuiet ==
    ASSUME MoneyInv, IInv', NEW t \in Procs, NEW o \in Orders,
           CheckoutBegin(t, o) \/ CallbackBegin(t, o) \/ SweepBegin(t)
    PROVE  MoneyInv' /\ Promised
<1>0. /\ pc \in [Procs -> PCs] /\ kind \in [Procs -> Kinds]
      /\ cur \in [Procs -> Orders \cup {NoOrder}] /\ placing \in [Procs -> Orders \cup {NoOrder}]
      /\ todo \in [Procs -> SUBSET Orders] /\ MoneySound(t) /\ Sound(t)
  BY DEF MoneyInv, IInv, TypeInv, TypeOK
<1>1. /\ UNCHANGED <<paymentStatus, gateway, newPay, newTx>> /\ pc[t] = "idle"
      /\ \A u \in Procs \ {t} : Same(u)
      /\ pc'[t] \in {"nextStale", "verify", "releaseOrder", "nextExpired"}
      /\ kind'[t] \in {"checkout", "callback", "sweep"}
      /\ pc'[t] = "nextExpired" => kind'[t] = "sweep"
  <2>1. CASE CheckoutBegin(t, o)
    BY <1>0, <2>1 DEF CheckoutBegin, Start, Goto, tables, Same
  <2>2. CASE CallbackBegin(t, o)
    BY <1>0, <2>2 DEF CallbackBegin, Start, Goto, tables, Same
  <2>3. CASE SweepBegin(t)
    BY <1>0, <2>3 DEF SweepBegin, Start, Goto, tables, Same
  <2> QED BY <2>1, <2>2, <2>3
<1>2. \A x \in Orders : newPay[t][x] = "same"
  BY <1>0, <1>1 DEF Sound, WritesByPc, NoOpenWrites
<1>3. MoneySound(t)'
  BY <1>1, <1>2 DEF MoneySound, Confirming
<1> QED BY <1>1, <1>3, QuietStep

(* A checkout or a sweep turns to its next order.                          *)
LEMMA NextQuiet ==
    ASSUME MoneyInv, IInv', NEW t \in Procs, NEW o \in Orders,
           ReleaseNextStale(t, o) \/ SweepNext(t, o)
    PROVE  MoneyInv' /\ Promised
<1>0. /\ pc \in [Procs -> PCs] /\ cur \in [Procs -> Orders \cup {NoOrder}]
      /\ todo \in [Procs -> SUBSET Orders] /\ MoneySound(t) /\ Sound(t)
  BY DEF MoneyInv, IInv, TypeInv, TypeOK
<1>1. /\ UNCHANGED <<paymentStatus, gateway, newPay, newTx, kind>>
      /\ pc[t] \in {"nextStale", "nextExpired"} /\ pc'[t] = "releaseOrder"
      /\ \A u \in Procs \ {t} : Same(u)
  BY <1>0 DEF ReleaseNextStale, SweepNext, Goto, tables, Same
<1>2. kind[t] \in {"checkout", "sweep"}
  BY <1>0, <1>1 DEF MoneySound, Sound, KindByPc
<1>3. MoneySound(t)'
  BY <1>0, <1>1, <1>2 DEF MoneySound, Confirming
<1> QED BY <1>1, <1>3, QuietStep

(* Statements that write a row, which stays private until the commit.      *)
LEMMA WriteQuiet ==
    ASSUME MoneyInv, IInv', NEW t \in Procs,
           \/ ConfirmTx(t) \/ ConfirmOrder(t) \/ Revive(t)
           \/ ReleaseOrder(t) \/ ReleaseTx(t)
    PROVE  MoneyInv' /\ Promised
<1>0. /\ pc \in [Procs -> PCs] /\ newPay \in [Procs -> [Orders -> Writes]]
      /\ newTx \in [Procs -> [Orders -> Writes]] /\ MoneySound(t) /\ Sound(t)
  BY DEF MoneyInv, IInv, TypeInv, TypeOK
<1>1. /\ UNCHANGED <<paymentStatus, gateway, kind, cur, placing, todo>>
      /\ \E label \in {"confirmOrder", "commit", "revive", "releaseTx", "nextStale"} : Goto(t, label)
      /\ \/ newPay' = newPay
         \/ newPay' = Put(newPay, t, cur[t], "FAILED")
         \/ newPay' = Put(newPay, t, cur[t], "PAID") /\ kind[t] \in Confirming
      /\ \/ newTx' = newTx
         \/ newTx' = Put(newTx, t, cur[t], "FAILED") \/ newTx' = Put(newTx, t, cur[t], "PAID")
      /\ cur[t] \in Orders
  <2>1. CASE ConfirmTx(t)
    BY <2>1 DEF ConfirmTx, tables, MoneyInv, IInv, TypeInv, OrderAtHand
  <2>2. CASE ConfirmOrder(t)
    <3>1. kind[t] \in Confirming
      BY <1>0, <2>2 DEF ConfirmOrder, Sound, KindByPc, Confirming
    <3> QED BY <2>2, <3>1 DEF ConfirmOrder, tables, MoneyInv, IInv, TypeInv, OrderAtHand
  <2>3. CASE Revive(t)
    <3>1. kind[t] \in Confirming
      BY <1>0, <2>3 DEF Revive, Sound, KindByPc, Confirming
    <3> QED BY <2>3, <3>1 DEF Revive, tables, MoneyInv, IInv, TypeInv, OrderAtHand
  <2>4. CASE ReleaseOrder(t)
    BY <2>4 DEF ReleaseOrder, ReleaseDone, tables, MoneyInv, IInv, TypeInv, OrderAtHand
  <2>5. CASE ReleaseTx(t)
    BY <2>5 DEF ReleaseTx, ReleaseDone, tables, MoneyInv, IInv, TypeInv, OrderAtHand
  <2> QED BY <2>1, <2>2, <2>3, <2>4, <2>5
<1>2. /\ pc'[t] \in {"confirmOrder", "commit", "revive", "releaseTx", "nextStale"}
      /\ \A u \in Procs \ {t} : pc'[u] = pc[u]
  BY <1>0, <1>1 DEF Goto
<1>3. /\ \A u \in Procs \ {t} : newPay'[u] = newPay[u]
      /\ \A o \in Orders : newPay'[t][o] = "PAID" =>
            newPay[t][o] = "PAID" \/ (o = cur[t] /\ kind[t] \in Confirming)
  <2>1. CASE newPay' = newPay
    BY <2>1
  <2>2. CASE newPay' = Put(newPay, t, cur[t], "FAILED")
    BY <1>0, <1>1, <2>2, PutWrite
  <2>3. CASE newPay' = Put(newPay, t, cur[t], "PAID") /\ kind[t] \in Confirming
    BY <1>0, <1>1, <2>3, PutWrite
  <2> QED BY <1>1, <2>1, <2>2, <2>3
<1>4. \A u \in Procs \ {t} : newTx'[u] = newTx[u]
  <2>1. CASE newTx' = newTx
    BY <2>1
  <2>2. CASE newTx' = Put(newTx, t, cur[t], "FAILED")
    BY <1>0, <1>1, <2>2, PutWrite
  <2>3. CASE newTx' = Put(newTx, t, cur[t], "PAID")
    BY <1>0, <1>1, <2>3, PutWrite
  <2> QED BY <1>1, <2>1, <2>2, <2>3
<1>5. \A u \in Procs \ {t} : Same(u)
  BY <1>1, <1>2, <1>3, <1>4 DEF Same
<1>6. MoneySound(t)'
  BY <1>0, <1>1, <1>2, <1>3 DEF MoneySound, InMoney
<1> QED BY <1>1, <1>5, <1>6, QuietStep

(* A commit moves the rows it has written, each as its guard allowed.      *)
LEMMA CommitForward ==
    ASSUME MoneyInv, IInv', NEW t \in Procs, CommitRequest(t) \/ SweepCommit(t)
    PROVE  MoneyInv' /\ Promised
<1>0. /\ pc \in [Procs -> PCs] /\ kind \in [Procs -> Kinds]
      /\ cur \in [Procs -> Orders \cup {NoOrder}] /\ placing \in [Procs -> Orders \cup {NoOrder}]
      /\ todo \in [Procs -> SUBSET Orders] /\ MoneySound(t) /\ Sound(t)
      /\ \A o \in Orders : newPay[t][o] \in Writes
  BY DEF MoneyInv, IInv, TypeInv, TypeOK
<1>1. CommitSettlement(t) /\ ClearWrites(t) /\ gateway' = gateway
  BY DEF CommitRequest, SweepCommit, Finish
<1>2. /\ \/ pc'[t] = "idle" /\ kind'[t] = "none"
         \/ pc'[t] = "hooks" /\ kind'[t] = kind[t] /\ cur'[t] = cur[t]
         \/ pc'[t] = "nextExpired" /\ kind[t] = "sweep" /\ kind'[t] = "sweep"
      /\ \A u \in Procs \ {t} : /\ pc'[u] = pc[u] /\ kind'[u] = kind[u] /\ cur'[u] = cur[u]
                                 /\ placing'[u] = placing[u] /\ todo'[u] = todo[u]
  <2>1. CASE SweepCommit(t)
    BY <1>0, <2>1 DEF SweepCommit, Goto
  <2>2. CASE CommitRequest(t)
    <3>1. CASE Goto(t, "hooks") /\ UNCHANGED <<kind, cur, placing, todo>>
      BY <1>0, <3>1 DEF Goto
    <3>2. CASE Finish(t)
      BY <1>0, <3>2 DEF Finish, Goto
    <3> QED BY <2>2, <3>1, <3>2 DEF CommitRequest
  <2> QED BY <2>1, <2>2
<1>3. /\ \A o \in Orders : newPay'[t][o] = "same"
      /\ \A u \in Procs \ {t} : newPay'[u] = newPay[u] /\ newTx'[u] = newTx[u]
  BY <1>1, ClearedWrites DEF NoWrites, MoneyInv, IInv, TypeInv
<1>4. \A u \in Procs \ {t} : Same(u)
  BY <1>2, <1>3 DEF Same
<1>5. MoneySound(t)'
  BY <1>0, <1>1, <1>2, <1>3 DEF MoneySound, InMoney, Confirming
<1>6. \A o \in Orders :
        paymentStatus'[o] = IF newPay[t][o] = "same" THEN paymentStatus[o] ELSE newPay[t][o]
  BY <1>1 DEF CommitSettlement, Becomes
<1>7. Forward
  <2>1. WritesGuarded(t) /\ \A o \in Orders : newPay[t][o] = "PAID" => InMoney(o)
    BY <1>0 DEF Sound, MoneySound
  <2> QED BY <1>0, <1>1, <1>6, <2>1 DEF Forward, WritesGuarded, Writes
<1>8. MoneyMoves(t) /\ Placed \subseteq Placed'
  BY <1>1, <1>7 DEF MoneyMoves, Forward, Placed
<1> QED BY <1>4, <1>5, <1>7, <1>8, MoneyStep DEF Promised

(* A checkout commits: its releases and its new order, of which the        *)
(* gateway has not heard.                                                  *)
LEMMA PlaceForward ==
    ASSUME MoneyInv, IInv', NEW t \in Procs, PlaceOrder(t)
    PROVE  MoneyInv' /\ Promised
<1>0. /\ pc \in [Procs -> PCs] /\ kind \in [Procs -> Kinds]
      /\ cur \in [Procs -> Orders \cup {NoOrder}] /\ MoneySound(t) /\ Sound(t)
      /\ \A o \in Orders : newPay[t][o] \in Writes
  BY DEF MoneyInv, IInv, TypeInv, TypeOK
<1>1. /\ kind[t] = "checkout" /\ placing[t] \in Orders /\ paymentStatus[placing[t]] = "absent"
  BY <1>0 DEF PlaceOrder, Sound, KindByPc, WorkByPc, Placed
<1>2. gateway[placing[t]] = "none"
  BY <1>1 DEF MoneyInv, Unheard
<1>3. /\ pc' = [pc EXCEPT ![t] = "askGateway"] /\ kind' = [kind EXCEPT ![t] = "gateway"]
      /\ cur' = [cur EXCEPT ![t] = placing[t]] /\ ClearWrites(t)
      /\ UNCHANGED <<placing, todo, gateway>>
  BY DEF PlaceOrder, Goto
<1>4. /\ \A o \in Orders : newPay'[t][o] = "same"
      /\ \A u \in Procs \ {t} : newPay'[u] = newPay[u] /\ newTx'[u] = newTx[u]
  BY <1>3, ClearedWrites DEF NoWrites, MoneyInv, IInv, TypeInv
<1>5. \A u \in Procs \ {t} : Same(u)
  BY <1>0, <1>3, <1>4 DEF Same
<1>6. MoneySound(t)'
  BY <1>0, <1>2, <1>3, <1>4 DEF MoneySound, Confirming
<1>7. \A o \in Orders :
        paymentStatus'[o] = IF o = placing[t] THEN "PENDING"
                            ELSE IF newPay[t][o] = "same" THEN paymentStatus[o] ELSE newPay[t][o]
  BY <1>1 DEF PlaceOrder, Becomes
<1>8. Forward
  <2>1. WritesGuarded(t) /\ \A o \in Orders : newPay[t][o] = "PAID" => InMoney(o)
    BY <1>0 DEF Sound, MoneySound
  <2> QED BY <1>0, <1>1, <1>3, <1>7, <2>1 DEF Forward, WritesGuarded, Writes
<1>9. MoneyMoves(t) /\ Placed \subseteq Placed'
  BY <1>3, <1>8 DEF MoneyMoves, Forward, Placed
<1> QED BY <1>5, <1>6, <1>8, <1>9, MoneyStep DEF Promised

(* The gateway hears of the order at hand.                                 *)
LEMMA GatewayHears ==
    ASSUME MoneyInv, IInv', NEW t \in Procs,
           \/ GatewayAccepts(t) \/ GatewayRefuses(t) \/ NothingDue(t)
           \/ VerifySucceeds(t) \/ VerifyFails(t)
    PROVE  MoneyInv' /\ Promised
<1>0. /\ pc \in [Procs -> PCs] /\ kind \in [Procs -> Kinds] /\ gateway \in [Orders -> GatewayStates]
      /\ MoneySound(t) /\ Sound(t) /\ TypeInv
  BY DEF MoneyInv, IInv, TypeInv, TypeOK
<1>1. /\ UNCHANGED <<paymentStatus, cur, placing, todo, newPay, newTx>>
      /\ pc[t] \in {"askGateway", "verify"}
      /\ \A u \in Procs \ {t} : Same(u)
  BY <1>0 DEF GatewayAccepts, GatewayRefuses, NothingDue, VerifySucceeds, VerifyFails,
              Goto, tables, Same
<1>2. /\ cur[t] \in Orders /\ paymentStatus[cur[t]] # "absent"
      /\ \A o \in Orders : newPay[t][o] = "same"
  BY <1>0, <1>1 DEF Sound, WritesByPc, WorkByPc, NoOpenWrites, Placed
<1>3. \/ /\ pc[t] = "askGateway" /\ gateway'[cur[t]] = "issued"
         /\ gateway' = [gateway EXCEPT ![cur[t]] = "issued"]
         /\ pc'[t] = "storeAuthority" /\ kind'[t] = kind[t]
      \/ /\ pc[t] = "askGateway" /\ gateway'[cur[t]] = "waived"
         /\ gateway' = [gateway EXCEPT ![cur[t]] = "waived"]
         /\ pc'[t] = "confirmTx" /\ kind'[t] = "instant"
      \/ /\ gateway[cur[t]] \in {"paid", "verified"} /\ gateway'[cur[t]] = "verified"
         /\ gateway' = [gateway EXCEPT ![cur[t]] = "verified"]
         /\ pc'[t] \in {"confirmTx", "releaseOrder"} /\ kind'[t] \in {"confirm", kind[t]}
      \/ /\ gateway' = gateway
         /\ pc'[t] = "releaseOrder" /\ kind'[t] \in {"catch", kind[t]}
  <2>1. CASE GatewayAccepts(t)
    BY <1>0, <1>2, <2>1 DEF GatewayAccepts, Goto
  <2>2. CASE GatewayRefuses(t)
    BY <1>0, <1>2, <2>2 DEF GatewayRefuses, Goto
  <2>3. CASE NothingDue(t)
    BY <1>0, <1>2, <2>3 DEF NothingDue, Goto
  <2>4. CASE VerifySucceeds(t)
    BY <1>0, <1>2, <2>4 DEF VerifySucceeds, Goto
  <2>5. CASE VerifyFails(t)
    BY <1>0, <1>2, <2>5 DEF VerifyFails, Goto
  <2> QED BY <2>1, <2>2, <2>3, <2>4, <2>5
<1>4. /\ \A o \in Orders : o # cur[t] => gateway'[o] = gateway[o]
      /\ InMoney(cur[t]) => gateway' = gateway
      /\ \/ gateway'[cur[t]] = gateway[cur[t]]
         \/ gateway[cur[t]] \notin {"none", "issued"}
         \/ placing[t] = cur[t]
      /\ \E g \in GatewayStates : gateway' = [gateway EXCEPT ![cur[t]] = g]
  <2>1. pc[t] = "askGateway" => gateway[cur[t]] = "none" /\ placing[t] = cur[t]
    BY <1>0 DEF MoneySound
  <2>2. gateway = [gateway EXCEPT ![cur[t]] = gateway[cur[t]]] /\ gateway[cur[t]] \in GatewayStates
    BY <1>0, <1>2
  <2> QED BY <1>0, <1>2, <1>3, <2>1, <2>2 DEF InMoney, GatewayStates
<1>5. MoneySound(t)'
  BY <1>0, <1>1, <1>2, <1>3 DEF MoneySound, InMoney, Confirming
<1>6. MoneyMoves(t) /\ Placed \subseteq Placed'
  BY <1>1, <1>2, <1>4 DEF MoneyMoves, InMoney, Placed
<1>7. HearsOf(cur[t])
  BY <1>1, <1>4 DEF HearsOf, InMoney
<1> QED BY <1>1, <1>2, <1>5, <1>6, <1>7, MoneyStep DEF Promised

(* A process that ends forgets everything; the customer of a checkout that *)
(* ends well is on the payment page.                                       *)
LEMMA EndMoney ==
    ASSUME MoneyInv, IInv', NEW t \in Procs,
           StoreAuthority(t) \/ RunHooks(t) \/ SweepEnd(t) \/ DeadlockVictim(t) \/ Fail(t)
    PROVE  MoneyInv' /\ Promised
<1>0. /\ pc \in [Procs -> PCs] /\ kind \in [Procs -> Kinds] /\ gateway \in [Orders -> GatewayStates]
      /\ MoneySound(t) /\ Sound(t) /\ TypeInv
  BY DEF MoneyInv, IInv, TypeInv, TypeOK
<1>1. /\ Finish(t) /\ paymentStatus' = paymentStatus
      /\ \/ gateway' = gateway
         \/ pc[t] = "storeAuthority" /\ gateway' = [gateway EXCEPT ![cur[t]] = "sent"]
  BY DEF StoreAuthority, RunHooks, SweepEnd, DeadlockVictim, Fail, tables
<1>2. \A u \in Procs \ {t} : Same(u)
  BY <1>0, <1>1, FinishStep
<1>3. /\ pc'[t] = "idle" /\ kind'[t] = "none"
      /\ \A o \in Orders : newPay'[t][o] = "same"
  BY <1>0, <1>1, ClearedWrites DEF Finish, Goto, NoWrites, TypeInv
<1>4. MoneySound(t)'
  BY <1>3 DEF MoneySound, Confirming
<1>5. CASE gateway' = gateway
  BY <1>1, <1>2, <1>4, <1>5, QuietStep
<1>6. CASE pc[t] = "storeAuthority" /\ gateway' = [gateway EXCEPT ![cur[t]] = "sent"]
  <2>1. /\ cur[t] \in Orders /\ paymentStatus[cur[t]] # "absent"
        /\ placing[t] = cur[t] /\ gateway[cur[t]] = "issued"
    BY <1>0, <1>6 DEF MoneySound, Sound, WorkByPc, Placed
  <2>2. MoneyMoves(t) /\ Placed \subseteq Placed'
    BY <1>0, <1>1, <1>6, <2>1 DEF MoneyMoves, InMoney, Placed
  <2>3. HearsOf(cur[t])
    BY <1>1, <1>6, <2>1 DEF HearsOf, InMoney, GatewayStates
  <2> QED BY <1>2, <1>4, <2>1, <2>2, <2>3, MoneyStep DEF Promised
<1> QED BY <1>1, <1>5, <1>6

(* Customers pay orders they were sent to the payment page with.           *)
LEMMA OutsideMoney ==
    ASSUME MoneyInv, IInv', Surroundings \/ UNCHANGED vars
    PROVE  MoneyInv' /\ Promised
<1>0. gateway \in [Orders -> GatewayStates]
  BY DEF MoneyInv, IInv, TypeInv, TypeOK
<1>1. /\ UNCHANGED <<paymentStatus, pc, kind, cur, placing, todo, newPay, newTx>>
      /\ \/ gateway' = gateway
         \/ \E o \in Orders : gateway[o] = "sent" /\ gateway' = [gateway EXCEPT ![o] = "paid"]
  BY DEF Surroundings, Expire, CustomerPays, UpdateStatus, ReserveElsewhere, vars, tables, procs
<1>2. CASE gateway' = gateway
  <2>1. Unheard' /\ \A t \in Procs : MoneySound(t)'
    BY <1>1, <1>2 DEF MoneyInv, Unheard, MoneySound, InMoney
  <2> QED BY <1>1, <1>2, <2>1 DEF MoneyInv, Promised, Forward
<1>3. ASSUME NEW o \in Orders, gateway[o] = "sent", gateway' = [gateway EXCEPT ![o] = "paid"]
      PROVE  MoneyInv' /\ Promised
  <2>1. \A x \in Orders : gateway'[x] = IF x = o THEN "paid" ELSE gateway[x]
    BY <1>0, <1>3
  <2>2. Unheard'
    BY <1>1, <1>3, <2>1 DEF MoneyInv, Unheard
  <2>3. ASSUME NEW t \in Procs PROVE MoneySound(t)'
    <3>1. MoneySound(t) /\ (pc[t] \in {"askGateway", "storeAuthority"} => cur[t] \in Orders)
      BY DEF MoneyInv, IInv, TypeInv, OrderAtHand
    <3> QED BY <1>1, <1>3, <2>1, <3>1 DEF MoneySound, InMoney
  <2>4. HearsOf(o)
    BY <1>1, <1>3 DEF HearsOf, InMoney, GatewayStates
  <2> QED BY <2>2, <2>3, <2>4 DEF MoneyInv, Promised
<1> QED BY <1>1, <1>2, <1>3

--------------------------------------------------------------------------------

LEMMA MoneyInitially == Init => MoneyInv /\ Promise!Init
<1> SUFFICES ASSUME Init PROVE MoneyInv /\ Promise!Init
  OBVIOUS
<1>1. Unheard /\ \A t \in Procs : MoneySound(t)
  BY DEF Init, Unheard, MoneySound, Confirming, NoWrites
<1>2. Promise!Init
  BY DEF Init, Promise!Init
<1> QED BY <1>1, <1>2, Initially DEF MoneyInv

LEMMA MoneyInductive == MoneyInv /\ [Next]_vars => MoneyInv' /\ Promised
<1> SUFFICES ASSUME MoneyInv, [Next]_vars
             PROVE  MoneyInv' /\ Promised
  OBVIOUS
<1>1. IInv'
  BY Inductive DEF MoneyInv
<1>2. ASSUME NEW t \in Requests, NEW o \in Orders, CheckoutBegin(t, o) \/ CallbackBegin(t, o)
      PROVE  MoneyInv' /\ Promised
  BY <1>1, <1>2, BeginQuiet DEF Procs
<1>3. ASSUME NEW t \in Sweepers, SweepBegin(t)
      PROVE  MoneyInv' /\ Promised
  <2>1. PICK o \in Orders : Overdue(o)
    BY <1>3 DEF SweepBegin
  <2> QED BY <1>1, <1>3, BeginQuiet DEF Procs
<1>4. ASSUME NEW t \in Procs, Step(t)
      PROVE  MoneyInv' /\ Promised
  <2>1. CASE \E o \in Orders : ReleaseNextStale(t, o) \/ SweepNext(t, o)
    BY <1>1, <2>1, NextQuiet
  <2>2. CASE PlaceOrder(t)
    BY <1>1, <2>2, PlaceForward
  <2>3. CASE \/ GatewayAccepts(t) \/ GatewayRefuses(t) \/ NothingDue(t)
             \/ VerifySucceeds(t) \/ VerifyFails(t)
    BY <1>1, <2>3, GatewayHears
  <2>4. CASE \/ ConfirmTx(t) \/ ConfirmOrder(t) \/ Revive(t)
             \/ ReleaseOrder(t) \/ ReleaseTx(t)
    BY <1>1, <2>4, WriteQuiet
  <2>5. CASE CommitRequest(t) \/ SweepCommit(t)
    BY <1>1, <2>5, CommitForward
  <2>6. CASE StoreAuthority(t) \/ RunHooks(t) \/ SweepEnd(t) \/ DeadlockVictim(t)
    BY <1>1, <2>6, EndMoney
  <2> QED BY <1>4, <2>1, <2>2, <2>3, <2>4, <2>5, <2>6 DEF Step
<1>5. ASSUME NEW t \in Procs, Fail(t)
      PROVE  MoneyInv' /\ Promised
  BY <1>1, <1>5, EndMoney
<1>6. CASE Surroundings \/ UNCHANGED vars
  BY <1>1, <1>6, OutsideMoney
<1> QED BY <1>2, <1>3, <1>4, <1>5, <1>6 DEF Next

(* A promised step is one of the abstract specification, or changes        *)
(* nothing it speaks of.                                                   *)
LEMMA PromisedIsAllowed ==
    ASSUME MoneyInv, MoneyInv', Promised
    PROVE  [Promise!Next]_<<paymentStatus, ConfirmedOrders>>
<1>1. CASE Forward
  <2>1. paymentStatus' \in [Orders -> Promise!Statuses]
    BY DEF MoneyInv, IInv, TypeInv, TypeOK, PaymentStatuses, Promise!Statuses
  <2>2. ASSUME NEW o \in Orders PROVE Promise!MayBecome(o, paymentStatus'[o])
    BY <1>1 DEF Forward, Promise!MayBecome, InMoney
  <2>3. {o \in Orders : gateway[o] \in {"verified", "waived"}}'
          = {o \in Orders : gateway[o] \in {"verified", "waived"}}
    BY <1>1 DEF Forward
  <2> QED BY <2>1, <2>2, <2>3 DEF Promise!Next, Promise!Settle
<1>2. ASSUME NEW o \in Orders, HearsOf(o)
      PROVE  [Promise!Next]_<<paymentStatus, ConfirmedOrders>>
  <2>1. gateway \in [Orders -> GatewayStates]
    BY DEF MoneyInv, IInv, TypeInv, TypeOK
  <2>2. \A x \in Orders : x # o => gateway'[x] = gateway[x]
    BY <1>2, <2>1 DEF HearsOf
  <2>3. \/ ConfirmedOrders' = ConfirmedOrders
        \/ ConfirmedOrders' = ConfirmedOrders \cup {o}
    BY <1>2, <2>2 DEF HearsOf, ConfirmedOrders, InMoney
  <2>4. CASE ConfirmedOrders' = ConfirmedOrders
    BY <1>2, <2>4 DEF HearsOf
  <2>5. CASE ConfirmedOrders' = ConfirmedOrders \cup {o}
    <3>1. Promise!Confirm(o)
      BY <1>2, <2>5 DEF HearsOf, Promise!Confirm, ConfirmedOrders, InMoney
    <3> QED BY <3>1 DEF Promise!Next
  <2> QED BY <2>3, <2>4, <2>5
<1> QED BY <1>1, <1>2 DEF Promised

(* Whatever checkouts, callbacks, sweeps and crashes do to each other, the *)
(* committed status of every order moves as SettlementPromise says: never  *)
(* back from PAID, and to PAID only when the gateway has verified the      *)
(* payment or nothing was due.                                             *)
THEOREM ImplementsPromise == Spec => KeepsPromise
<1>1. MoneyInv /\ [Next]_vars => [Promise!Next]_<<paymentStatus, ConfirmedOrders>>
  BY MoneyInductive, PromisedIsAllowed
<1>3. MoneyInv /\ [Next]_vars
        => [Promise!Next]_<<paymentStatus, {o \in Orders : gateway[o] \in {"verified", "waived"}}>>
  BY <1>1 DEF ConfirmedOrders, InMoney
<1> QED BY <1>3, MoneyInitially, MoneyInductive, PTL DEF Spec, KeepsPromise, Promise!Spec

--------------------------------------------------------------------------------
(* The paid hooks.                                                         *)

(* An order with nothing due is settled by the request that placed it; any *)
(* other by the callback whose guarded updates found it unpaid.            *)
HookSound(t) ==
    /\ kind[t] = "instant" =>
        placing[t] = cur[t] /\ gateway[cur[t]] = "waived" /\ hooks[cur[t]] = 0
    /\ kind[t] = "confirm" => gateway[cur[t]] = "verified"
    /\ pc[t] = "hooks" =>
        /\ kind[t] \in Confirming
        /\ hooks[cur[t]] = 0
        /\ kind[t] = "confirm" => paymentStatus[cur[t]] = "PAID"

HooksApart ==
    \A t, u \in Procs : t # u /\ pc[t] = "hooks" /\ pc[u] = "hooks" => cur[t] # cur[u]

HooksPaid ==
    \A o \in Orders :
        /\ hooks[o] <= 1
        /\ hooks[o] = 1 => InMoney(o) /\ (gateway[o] = "verified" => paymentStatus[o] = "PAID")

HookInv == HooksApart /\ HooksPaid /\ \A t \in Procs : HookSound(t)

--------------------------------------------------------------------------------
(* What every step keeps: money that is in, and orders that are paid.      *)
Kept ==
    \A o \in Orders :
        /\ InMoney(o) => gateway'[o] = gateway[o]
        /\ paymentStatus[o] = "PAID" => paymentStatus'[o] = "PAID"

LEMMA PromisedKeeps == ASSUME Promised PROVE Kept
<1>1. CASE Forward
  BY <1>1 DEF Forward, Kept
<1>2. ASSUME NEW x \in Orders, HearsOf(x) PROVE Kept
  <2> SUFFICES ASSUME NEW o \in Orders PROVE InMoney(o) => gateway'[o] = gateway[o]
    BY <1>2 DEF HearsOf, Kept
  <2>1. CASE o = x
    BY <1>2, <2>1 DEF HearsOf
  <2>2. CASE o # x
    <3>1. PICK g \in GatewayStates : gateway' = [gateway EXCEPT ![x] = g]
      BY <1>2 DEF HearsOf
    <3>2. CASE gateway' = gateway
      BY <3>2
    <3> QED BY <2>2, <3>1, <3>2
  <2> QED BY <2>1, <2>2
<1> QED BY <1>1, <1>2 DEF Promised

(* What a step of t leaves of another process.                             *)
Unmoved(u) == pc'[u] = pc[u] /\ kind'[u] = kind[u] /\ cur'[u] = cur[u] /\ placing'[u] = placing[u]

LEMMA HooksWait ==
    ASSUME MoneyInv, HookInv, Kept, hooks' = hooks, NEW t \in Procs, HookSound(t)',
           \A u \in Procs \ {t} : Unmoved(u),
           pc'[t] = "hooks" =>
                \A u \in Procs \ {t} : pc[u] = "hooks" => cur[u] # cur'[t]
    PROVE  HookInv'
<1>1. ASSUME NEW u \in Procs \ {t} PROVE HookSound(u)'
  <2>1. HookSound(u) /\ (kind[u] \in Confirming => cur[u] \in Orders)
    BY DEF HookInv, MoneyInv, MoneySound
  <2> QED BY <2>1 DEF HookSound, Unmoved, Kept, InMoney, Confirming
<1>2. HooksApart'
  BY DEF HookInv, HooksApart, Unmoved
<1>3. HooksPaid'
  BY DEF HookInv, HooksPaid, Kept, InMoney
<1> QED BY <1>1, <1>2, <1>3 DEF HookInv

(* A process goes on with the order it has, or takes up one for which it   *)
(* will run no hooks.                                                      *)
LEMMA GoesOn ==
    ASSUME MoneyInv, HookInv, Kept, hooks' = hooks, NEW t \in Procs, pc'[t] # "hooks",
           \A u \in Procs \ {t} : Unmoved(u),
           \/ kind'[t] \notin Confirming
           \/ kind'[t] = kind[t] /\ cur'[t] = cur[t] /\ placing'[t] = placing[t]
    PROVE  HookInv'
<1>1. HookSound(t) /\ (kind[t] \in Confirming => cur[t] \in Orders)
  BY DEF HookInv, MoneyInv, MoneySound
<1>2. HookSound(t)'
  BY <1>1 DEF HookSound, Unmoved, Kept, InMoney, Confirming
<1> QED BY <1>2, HooksWait

LEMMA MostSteps ==
    ASSUME MoneyInv, HookInv, Kept, NEW t \in Procs, NEW o \in Orders,
           \/ CheckoutBegin(t, o) \/ CallbackBegin(t, o) \/ SweepBegin(t)
           \/ ReleaseNextStale(t, o) \/ SweepNext(t, o) \/ PlaceOrder(t)
           \/ GatewayAccepts(t) \/ GatewayRefuses(t) \/ VerifyFails(t)
           \/ ConfirmTx(t) \/ ConfirmOrder(t) \/ Revive(t)
           \/ ReleaseOrder(t) \/ ReleaseTx(t) \/ SweepCommit(t)
    PROVE  HookInv'
<1>0. /\ pc \in [Procs -> PCs] /\ kind \in [Procs -> Kinds]
      /\ cur \in [Procs -> Orders \cup {NoOrder}] /\ placing \in [Procs -> Orders \cup {NoOrder}]
      /\ MoneySound(t) /\ Sound(t)
  BY DEF MoneyInv, IInv, TypeInv, TypeOK
<1>1. CASE CheckoutBegin(t, o) \/ CallbackBegin(t, o) \/ SweepBegin(t)
  <2>1. /\ hooks' = hooks /\ pc'[t] # "hooks" /\ kind'[t] \notin Confirming
        /\ \A u \in Procs \ {t} : Unmoved(u)
    BY <1>0, <1>1 DEF CheckoutBegin, CallbackBegin, SweepBegin, Start, Goto, tables,
                      Confirming, Unmoved
  <2> QED BY <2>1, GoesOn
<1>2. CASE ReleaseNextStale(t, o) \/ SweepNext(t, o)
  <2>1. /\ hooks' = hooks /\ pc'[t] # "hooks" /\ kind'[t] = kind[t]
        /\ pc[t] \in {"nextStale", "nextExpired"}
        /\ \A u \in Procs \ {t} : Unmoved(u)
    BY <1>0, <1>2 DEF ReleaseNextStale, SweepNext, Goto, tables, Unmoved
  <2>2. kind[t] \notin Confirming
    BY <1>0, <2>1 DEF MoneySound, Sound, KindByPc, Confirming
  <2> QED BY <2>1, <2>2, GoesOn
<1>3. CASE PlaceOrder(t)
  <2>1. /\ hooks' = hooks /\ pc'[t] # "hooks" /\ kind'[t] \notin Confirming
        /\ \A u \in Procs \ {t} : Unmoved(u)
    BY <1>0, <1>3 DEF PlaceOrder, Goto, Confirming, Unmoved
  <2> QED BY <2>1, GoesOn
<1>4. CASE \/ GatewayAccepts(t) \/ GatewayRefuses(t) \/ VerifyFails(t)
           \/ ConfirmTx(t) \/ ConfirmOrder(t) \/ Revive(t)
           \/ ReleaseOrder(t) \/ ReleaseTx(t)
  <2>1. /\ hooks' = hooks /\ UNCHANGED <<cur, placing>>
        /\ \E label \in {"storeAuthority", "releaseOrder", "confirmOrder", "commit", "revive",
                         "releaseTx", "nextStale"} : Goto(t, label)
        /\ \/ kind' = kind
           \/ kind' = [kind EXCEPT ![t] = "catch"]
    BY <1>4 DEF GatewayAccepts, GatewayRefuses, VerifyFails, ConfirmTx, ConfirmOrder, Revive,
                ReleaseOrder, ReleaseTx, ReleaseDone, tables
  <2>2. pc'[t] # "hooks" /\ \A u \in Procs \ {t} : Unmoved(u)
    BY <1>0, <2>1 DEF Goto, Unmoved
  <2> QED BY <1>0, <2>1, <2>2, GoesOn DEF Confirming
<1>5. CASE SweepCommit(t)
  <2>1. /\ hooks' = hooks /\ pc'[t] # "hooks" /\ kind'[t] = "sweep"
        /\ \A u \in Procs \ {t} : Unmoved(u)
    BY <1>0, <1>5 DEF SweepCommit, Goto, Unmoved
  <2> QED BY <2>1, GoesOn DEF Confirming
<1> QED BY <1>1, <1>2, <1>3, <1>4, <1>5

(* The money comes in, or none is due: no hooks have run yet for the       *)
(* order that has nothing due.                                             *)
LEMMA MoneyIn ==
    ASSUME MoneyInv, HookInv, Kept, NEW t \in Procs, NothingDue(t) \/ VerifySucceeds(t)
    PROVE  HookInv'
<1>0. /\ pc \in [Procs -> PCs] /\ kind \in [Procs -> Kinds] /\ gateway \in [Orders -> GatewayStates]
      /\ hooks \in [Orders -> Nat] /\ MoneySound(t)
      /\ pc[t] \in {"askGateway", "verify"} => cur[t] \in Orders
  BY DEF MoneyInv, IInv, TypeInv, TypeOK, OrderAtHand
<1>1. /\ UNCHANGED <<hooks, cur, placing>> /\ pc'[t] = "confirmTx"
      /\ \A u \in Procs \ {t} : Unmoved(u)
  BY <1>0 DEF NothingDue, VerifySucceeds, Goto, tables, Unmoved
<1>2. HookSound(t)'
  <2>1. CASE NothingDue(t)
    <3>1. /\ kind'[t] = "instant" /\ cur[t] \in Orders /\ gateway'[cur[t]] = "waived"
          /\ placing[t] = cur[t] /\ gateway[cur[t]] = "none"
      BY <1>0, <2>1 DEF NothingDue, MoneySound
    <3>2. hooks[cur[t]] = 0
      BY <1>0, <3>1 DEF HookInv, HooksPaid, InMoney
    <3> QED BY <1>1, <3>1, <3>2 DEF HookSound
  <2>2. CASE VerifySucceeds(t)
    <3>1. kind'[t] = "confirm" /\ cur[t] \in Orders /\ gateway'[cur[t]] = "verified"
      BY <1>0, <2>2 DEF VerifySucceeds
    <3> QED BY <1>1, <3>1 DEF HookSound
  <2> QED BY <2>1, <2>2
<1> QED BY <1>1, <1>2, HooksWait

(* A commit after which the hooks are due is the first of its order.       *)
LEMMA HooksBecomeDue ==
    ASSUME MoneyInv, HookInv, Kept, NEW t \in Procs, CommitRequest(t)
    PROVE  HookInv'
<1>0. /\ pc \in [Procs -> PCs] /\ kind \in [Procs -> Kinds]
      /\ cur \in [Procs -> Orders \cup {NoOrder}] /\ placing \in [Procs -> Orders \cup {NoOrder}]
      /\ hooks \in [Orders -> Nat] /\ MoneySound(t) /\ Sound(t) /\ HookSound(t) /\ cur[t] \in Orders
  BY DEF MoneyInv, IInv, TypeInv, TypeOK, OrderAtHand, CommitRequest, HookInv
<1>1. hooks' = hooks /\ CommitSettlement(t)
  BY DEF CommitRequest
<1>2. CASE Finish(t)
  <2>1. /\ pc'[t] # "hooks" /\ kind'[t] \notin Confirming
        /\ \A u \in Procs \ {t} : Unmoved(u)
    BY <1>0, <1>2 DEF Finish, Goto, Confirming, Unmoved
  <2> QED BY <1>1, <2>1, GoesOn
<1>3. CASE /\ kind[t] = "instant" \/ newPay[t][cur[t]] = "PAID"
           /\ Goto(t, "hooks") /\ UNCHANGED <<kind, cur, placing, todo>>
  <2>1. pc'[t] = "hooks" /\ \A u \in Procs \ {t} : Unmoved(u)
    BY <1>0, <1>3 DEF Goto, Unmoved
  <2>2. kind[t] \in Confirming
    BY <1>0, <1>3 DEF MoneySound, Confirming
  <2>3. kind[t] = "confirm" =>
          /\ gateway[cur[t]] = "verified" /\ paymentStatus[cur[t]] # "PAID"
          /\ paymentStatus'[cur[t]] = "PAID"
    BY <1>0, <1>1, <1>3 DEF HookSound, Sound, WritesGuarded, CommitSettlement, Becomes
  <2>4. hooks[cur[t]] = 0
    BY <1>0, <2>2, <2>3 DEF HookSound, HookInv, HooksPaid, Confirming
  <2>5. HookSound(t)'
    BY <1>0, <1>1, <1>3, <2>2, <2>3, <2>4 DEF HookSound, Kept, InMoney
  <2>6. ASSUME NEW u \in Procs \ {t}, pc[u] = "hooks", cur[u] = cur[t] PROVE FALSE
    <3>1. HookSound(u)
      BY DEF HookInv
    <3>2. CASE kind[u] = "instant" /\ kind[t] = "instant"
      BY <1>0, <2>6, <3>1, <3>2, OrdersAssumption DEF HookSound, MoneyInv, IInv, PlacedOnce
    <3> QED BY <1>0, <2>2, <2>3, <2>6, <3>1, <3>2 DEF HookSound, Confirming
  <2> QED BY <1>1, <1>3, <2>1, <2>5, <2>6, HooksWait
<1> QED BY <1>2, <1>3 DEF CommitRequest

(* Processes that end, with or without the hooks.                          *)
LEMMA HooksRun ==
    ASSUME MoneyInv, HookInv, Kept, NEW t \in Procs,
           StoreAuthority(t) \/ RunHooks(t) \/ SweepEnd(t) \/ DeadlockVictim(t) \/ Fail(t)
    PROVE  HookInv'
<1>0. /\ pc \in [Procs -> PCs] /\ kind \in [Procs -> Kinds]
      /\ cur \in [Procs -> Orders \cup {NoOrder}] /\ placing \in [Procs -> Orders \cup {NoOrder}]
      /\ hooks \in [Orders -> Nat] /\ HookSound(t) /\ MoneySound(t)
  BY DEF MoneyInv, IInv, TypeInv, TypeOK, HookInv
<1>1. Finish(t)
  BY DEF StoreAuthority, RunHooks, SweepEnd, DeadlockVictim, Fail
<1>2. /\ pc'[t] = "idle" /\ kind'[t] = "none"
      /\ \A u \in Procs \ {t} : Unmoved(u)
  BY <1>0, <1>1 DEF Finish, Goto, Unmoved
<1>3. CASE hooks' = hooks
  BY <1>2, <1>3, GoesOn DEF Confirming
<1>4. CASE RunHooks(t)
  <2>1. /\ pc[t] = "hooks" /\ hooks' = [hooks EXCEPT ![cur[t]] = @ + 1]
        /\ UNCHANGED <<gateway, paymentStatus>> /\ cur[t] \in Orders
    BY <1>4 DEF RunHooks, MoneyInv, IInv, TypeInv, OrderAtHand
  <2>2. /\ hooks[cur[t]] = 0
        /\ \A o \in Orders : hooks'[o] = IF o = cur[t] THEN 1 ELSE hooks[o]
    BY <1>0, <2>1 DEF HookSound
  <2>3. HooksPaid'
    BY <1>0, <2>1, <2>2 DEF HookInv, HooksPaid, HookSound, InMoney, Confirming
  <2>4. HooksApart'
    BY <1>2 DEF HookInv, HooksApart, Unmoved
  <2>5. ASSUME NEW u \in Procs \ {t} PROVE HookSound(u)'
    <3>1. /\ HookSound(u) /\ (kind[u] \in Confirming => cur[u] \in Orders)
          /\ (pc[u] = "hooks" => kind[u] \in Confirming)
      BY DEF HookInv, HookSound, MoneyInv, MoneySound
    <3>2. ASSUME kind[u] = "instant" \/ pc[u] = "hooks" PROVE cur[u] # cur[t]
      <4>1. CASE pc[u] = "hooks"
        BY <2>1, <4>1 DEF HookInv, HooksApart
      <4>2. CASE kind[u] = "instant" /\ kind[t] = "instant"
        BY <1>0, <2>1, <3>1, <4>2, OrdersAssumption DEF HookSound, MoneyInv, IInv, PlacedOnce
      <4>3. CASE kind[u] = "instant" /\ kind[t] = "confirm"
        BY <1>0, <3>1, <4>3 DEF HookSound
      <4> QED BY <1>0, <2>1, <3>2, <4>1, <4>2, <4>3 DEF HookSound, Confirming
    <3> QED BY <1>2, <2>1, <2>2, <3>1, <3>2 DEF HookSound, Unmoved, Confirming
  <2>6. HookSound(t)'
    BY <1>2 DEF HookSound
  <2> QED BY <2>3, <2>4, <2>5, <2>6 DEF HookInv
<1> QED BY <1>3, <1>4 DEF StoreAuthority, SweepEnd, DeadlockVictim, Fail, tables

LEMMA OutsideHooks ==
    ASSUME MoneyInv, HookInv, Kept, Surroundings \/ UNCHANGED vars
    PROVE  HookInv'
<1>1. UNCHANGED <<hooks, pc, kind, cur, placing>>
  BY DEF Surroundings, Expire, CustomerPays, UpdateStatus, ReserveElsewhere, vars, tables, procs
<1>2. HooksApart' /\ HooksPaid'
  BY <1>1 DEF HookInv, HooksApart, HooksPaid, Kept, InMoney
<1>3. ASSUME NEW t \in Procs PROVE HookSound(t)'
  <2>1. HookSound(t) /\ (kind[t] \in Confirming => cur[t] \in Orders)
    BY DEF HookInv, MoneyInv, MoneySound
  <2> QED BY <1>1, <2>1 DEF HookSound, Kept, InMoney, Confirming
<1> QED BY <1>2, <1>3 DEF HookInv

--------------------------------------------------------------------------------

LEMMA HooksInductive == MoneyInv /\ HookInv /\ [Next]_vars => HookInv'
<1> SUFFICES ASSUME MoneyInv, HookInv, [Next]_vars
             PROVE  HookInv'
  OBVIOUS
<1>1. Kept
  BY MoneyInductive, PromisedKeeps
<1>2. ASSUME NEW t \in Requests, NEW o \in Orders, CheckoutBegin(t, o) \/ CallbackBegin(t, o)
      PROVE  HookInv'
  BY <1>1, <1>2, MostSteps DEF Procs
<1>3. ASSUME NEW t \in Sweepers, SweepBegin(t)
      PROVE  HookInv'
  <2>1. PICK o \in Orders : Overdue(o)
    BY <1>3 DEF SweepBegin
  <2> QED BY <1>1, <1>3, MostSteps DEF Procs
<1>4. ASSUME NEW t \in Procs, Step(t)
      PROVE  HookInv'
  <2>1. CASE \E o \in Orders : ReleaseNextStale(t, o) \/ SweepNext(t, o)
    BY <1>1, <2>1, MostSteps
  <2>2. CASE \/ PlaceOrder(t) \/ GatewayAccepts(t) \/ GatewayRefuses(t) \/ VerifyFails(t)
             \/ ConfirmTx(t) \/ ConfirmOrder(t) \/ Revive(t)
             \/ ReleaseOrder(t) \/ ReleaseTx(t) \/ SweepCommit(t)
    <3>1. PICK o : o \in Orders
      BY <2>2 DEF PlaceOrder, GatewayAccepts, GatewayRefuses, VerifyFails, ConfirmTx, ConfirmOrder,
                  Revive, ReleaseOrder, ReleaseTx, SweepCommit, MoneyInv, IInv, TypeInv, OrderAtHand
    <3> QED BY <1>1, <2>2, <3>1, MostSteps
  <2>3. CASE NothingDue(t) \/ VerifySucceeds(t)
    BY <1>1, <2>3, MoneyIn
  <2>4. CASE CommitRequest(t)
    BY <1>1, <2>4, HooksBecomeDue
  <2>5. CASE StoreAuthority(t) \/ RunHooks(t) \/ SweepEnd(t) \/ DeadlockVictim(t)
    BY <1>1, <2>5, HooksRun
  <2> QED BY <1>4, <2>1, <2>2, <2>3, <2>4, <2>5 DEF Step
<1>5. ASSUME NEW t \in Procs, Fail(t)
      PROVE  HookInv'
  BY <1>1, <1>5, HooksRun
<1>6. CASE Surroundings \/ UNCHANGED vars
  BY <1>1, <1>6, OutsideHooks
<1> QED BY <1>2, <1>3, <1>4, <1>5, <1>6 DEF Next

(* However often the gateway calls back, and whatever else settles the     *)
(* order at the same time, its paid hooks run at most once; and unless     *)
(* nothing was due, only when it is paid.                                  *)
THEOREM HooksAtMostOnce == Spec => []HooksRunOnce
<1>1. Init => HookInv
  BY DEF Init, HookInv, HooksApart, HooksPaid, HookSound
<1>2. MoneyInv /\ HookInv => HooksRunOnce
  BY DEF HookInv, HooksPaid, HooksRunOnce, InMoney
<1> QED BY <1>1, <1>2, HooksInductive, MoneyInitially, MoneyInductive, PTL DEF Spec

--------------------------------------------------------------------------------
(* Stock and uses of the discount code.                                    *)

(* Some elements of a set make room for others.                            *)
LEMMA SwapCardinality ==
    ASSUME NEW S, IsFiniteSet(S), NEW Out, Out \subseteq S,
           NEW In, IsFiniteSet(In), In \cap S = {}
    PROVE  /\ IsFiniteSet((S \ Out) \cup In)
           /\ Cardinality((S \ Out) \cup In) = Cardinality(S) - Cardinality(Out) + Cardinality(In)
           /\ Cardinality(S) \in Nat /\ Cardinality(Out) \in Nat /\ Cardinality(In) \in Nat
           /\ Cardinality(Out) <= Cardinality(S)
<1>1. /\ IsFiniteSet(Out) /\ Cardinality(Out) <= Cardinality(S)
      /\ Cardinality(S) \in Nat /\ Cardinality(In) \in Nat
  BY FS_Subset, FS_CardinalityType
<1>2. Cardinality(Out) \in Nat
  BY <1>1, FS_CardinalityType
<1>3. S \cap Out = Out /\ (S \ Out) \cap In = {}
  OBVIOUS
<1>4. IsFiniteSet(S \ Out) /\ Cardinality(S \ Out) = Cardinality(S) - Cardinality(Out)
  BY <1>3, FS_Difference
<1>5. /\ IsFiniteSet((S \ Out) \cup In)
      /\ Cardinality((S \ Out) \cup In)
           = Cardinality(S \ Out) + Cardinality(In) - Cardinality((S \ Out) \cap In)
  BY <1>4, FS_Union
<1>6. Cardinality((S \ Out) \cap In) = 0
  BY <1>3, FS_EmptySet
<1> QED BY <1>1, <1>2, <1>4, <1>5, <1>6

(* The orders whose use of the code counts.                                *)
Counted == {o \in Discounted : paymentStatus[o] \in {"PENDING", "PAID"}}

CountsInv == StockConserved /\ UsesCounted

LEMMA CountedSetsFinite ==
    ASSUME TypeOK
    PROVE  /\ IsFiniteSet(holding) /\ IsFiniteSet(Placed) /\ IsFiniteSet(Counted)
           /\ Cardinality(holding) \in Nat /\ Cardinality(Placed) \in Nat
           /\ Cardinality(Counted) \in Nat
<1>1. holding \subseteq Orders /\ Placed \subseteq Orders /\ Counted \subseteq Orders
  BY OrdersAssumption DEF TypeOK, Placed, Counted
<1> QED BY <1>1, OrdersAssumption, FS_Subset, FS_CardinalityType

(* What a transaction has written, seen from the counts: it releases       *)
(* orders that hold their unit and are counted, and revives orders that    *)
(* are neither.  The guards of the decrements therefore never bite.        *)
LEMMA ReleasedAreCounted ==
    ASSUME MoneyInv, CountsInv, NEW t \in Procs
    PROVE  /\ Released(t) \subseteq holding
           /\ Released(t) \cap Discounted \subseteq Counted
           /\ UsesAfterRelease(t) = usedCount - Cardinality(Released(t) \cap Discounted)
           /\ Revived(t) \cap holding = {} /\ Revived(t) \cap Counted = {}
<1>1. Sound(t) /\ TypeOK
  BY DEF MoneyInv, IInv, TypeInv
<1>2. \A o \in Released(t) : o \in Orders /\ paymentStatus[o] = "PENDING"
  BY <1>1 DEF Sound, WritesGuarded, Released
<1>3. Released(t) \subseteq holding /\ Released(t) \cap Discounted \subseteq Counted
  BY <1>2 DEF CountsInv, StockConserved, Counted
<1>4. Revived(t) \cap holding = {} /\ Revived(t) \cap Counted = {}
  BY DEF CountsInv, StockConserved, Revived, Paid, Counted
<1>5. usedCount = Cardinality(Counted) /\ usedCount \in Nat
  BY <1>1 DEF CountsInv, UsesCounted, Counted, TypeOK
<1>6. IsFiniteSet(Counted) /\ Cardinality(Released(t) \cap Discounted) <= Cardinality(Counted)
  BY <1>1, <1>3, CountedSetsFinite, FS_Subset
<1>7. Cardinality(Released(t) \cap Discounted) \in Nat
  BY CommittedSetsFinite, FS_CardinalityType
<1> QED BY <1>3, <1>4, <1>5, <1>6, <1>7 DEF UsesAfterRelease

(* The transaction of a callback or of a sweep commits.                    *)
LEMMA CommitCounts ==
    ASSUME MoneyInv, CountsInv, NEW t \in Procs, CommitSettlement(t), elsewhere' = elsewhere
    PROVE  CountsInv'
<1>1. /\ TypeOK /\ Sound(t) /\ newPay[t] \in [Orders -> Writes]
      /\ stock \in Nat /\ elsewhere \in Nat
      /\ paymentStatus \in [Orders -> PaymentStatuses]
  BY DEF MoneyInv, IInv, TypeInv, TypeOK
<1>2. \A o \in Orders :
        paymentStatus'[o] = IF newPay[t][o] = "same" THEN paymentStatus[o] ELSE newPay[t][o]
  BY DEF CommitSettlement, Becomes
<1>3. /\ Released(t) \subseteq holding /\ Released(t) \cap Discounted \subseteq Counted
      /\ UsesAfterRelease(t) = usedCount - Cardinality(Released(t) \cap Discounted)
      /\ Revived(t) \cap holding = {} /\ Revived(t) \cap Counted = {}
  BY ReleasedAreCounted
<1>4. Restocked(t) \subseteq Revived(t)
  BY DEF Restocked
<1>5. Placed' = Placed
  <2>1. ASSUME NEW o \in Orders PROVE paymentStatus'[o] = "absent" <=> paymentStatus[o] = "absent"
    BY <1>1, <1>2 DEF Sound, WritesGuarded, Writes
  <2> QED BY <2>1 DEF Placed
<1>6. /\ holding' = (holding \ Released(t)) \cup Restocked(t)
      /\ stock' = stock + Cardinality(Released(t)) - Cardinality(Restocked(t))
      /\ usedCount' = UsesAfterRelease(t) + Cardinality(Revived(t) \cap Discounted)
  BY DEF CommitSettlement
<1>7. /\ Cardinality(holding')
           = Cardinality(holding) - Cardinality(Released(t)) + Cardinality(Restocked(t))
      /\ Cardinality(Released(t)) \in Nat /\ Cardinality(Restocked(t)) \in Nat
  <2>1. /\ IsFiniteSet(holding) /\ IsFiniteSet(Restocked(t)) /\ Restocked(t) \cap holding = {}
        /\ Released(t) \subseteq holding
    BY <1>1, <1>3, <1>4, CountedSetsFinite, CommittedSetsFinite
  <2>2. Cardinality((holding \ Released(t)) \cup Restocked(t))
          = Cardinality(holding) - Cardinality(Released(t)) + Cardinality(Restocked(t))
    BY <2>1, SwapCardinality
  <2> QED BY <1>6, <2>2, CommittedSetsFinite, FS_CardinalityType
<1>8. stock' + elsewhere' + Cardinality(holding') = ShelfStock + Cardinality(Placed')
  <2>1. stock + elsewhere + Cardinality(holding) = ShelfStock + Cardinality(Placed)
    BY DEF CountsInv, StockConserved
  <2>2. Cardinality(holding) \in Nat
    BY <1>1, CountedSetsFinite
  <2> QED BY <1>1, <1>5, <1>6, <1>7, <2>1, <2>2
<1>9. ASSUME NEW o \in Orders
      PROVE  /\ paymentStatus'[o] = "PENDING" => o \in holding'
             /\ paymentStatus'[o] \in {"absent", "FAILED"} => o \notin holding'
  <2>1. /\ paymentStatus[o] = "PENDING" => o \in holding
        /\ paymentStatus[o] \in {"absent", "FAILED"} => o \notin holding
    BY DEF CountsInv, StockConserved
  <2>2. /\ o \in Released(t) <=> newPay[t][o] = "FAILED"
        /\ o \in Revived(t) => newPay[t][o] = "PAID"
    BY DEF Released, Revived, Paid
  <2>3. newPay[t][o] \in {"same", "PAID", "FAILED"}
    BY <1>1 DEF Writes
  <2>4. CASE newPay[t][o] = "same"
    BY <1>2, <1>4, <1>6, <2>1, <2>2, <2>4
  <2>5. CASE newPay[t][o] = "PAID"
    BY <1>2, <2>5
  <2>6. CASE newPay[t][o] = "FAILED"
    BY <1>2, <1>4, <1>6, <2>2, <2>6
  <2> QED BY <2>3, <2>4, <2>5, <2>6
<1>10. Counted' = (Counted \ (Released(t) \cap Discounted)) \cup (Revived(t) \cap Discounted)
  <2>1. \A o \in Orders : newPay[t][o] \in {"same", "PAID", "FAILED"}
    BY <1>1 DEF Writes
  <2>2. \A o \in Orders : newPay[t][o] = "PAID" => paymentStatus[o] \in {"PENDING", "FAILED"}
    BY <1>1 DEF Sound, WritesGuarded
  <2>3. Discounted \subseteq Orders
    BY OrdersAssumption
  <2>4. ASSUME NEW o \in Orders
        PROVE  /\ o \in Released(t) <=> newPay[t][o] = "FAILED"
               /\ o \in Revived(t) <=> newPay[t][o] = "PAID" /\ paymentStatus[o] = "FAILED"
               /\ o \in Counted <=> o \in Discounted /\ paymentStatus[o] \in {"PENDING", "PAID"}
               /\ o \in Counted' <=> o \in Discounted /\ paymentStatus'[o] \in {"PENDING", "PAID"}
    BY DEF Counted, Released, Revived, Paid
  <2>5. ASSUME NEW o \in Orders
        PROVE  o \in Counted'
                 <=> \/ o \in Counted /\ ~(o \in Released(t) /\ o \in Discounted)
                     \/ o \in Revived(t) /\ o \in Discounted
    BY <1>2, <2>1, <2>2, <2>4
  <2>6. Counted \subseteq Orders /\ Counted' \subseteq Orders /\ Revived(t) \subseteq Orders
    BY <2>3 DEF Counted, Revived, Paid
  <2> QED BY <2>5, <2>6
<1>11. usedCount' = Cardinality(Counted')
  <2>1. usedCount = Cardinality(Counted)
    BY DEF CountsInv, UsesCounted, Counted
  <2>2. Cardinality(Counted') = Cardinality(Counted) - Cardinality(Released(t) \cap Discounted)
                                  + Cardinality(Revived(t) \cap Discounted)
    <3>1. /\ IsFiniteSet(Counted) /\ IsFiniteSet(Revived(t) \cap Discounted)
          /\ (Revived(t) \cap Discounted) \cap Counted = {}
          /\ Released(t) \cap Discounted \subseteq Counted
      BY <1>1, <1>3, CountedSetsFinite, CommittedSetsFinite
    <3>2. Cardinality((Counted \ (Released(t) \cap Discounted)) \cup (Revived(t) \cap Discounted))
            = Cardinality(Counted) - Cardinality(Released(t) \cap Discounted)
                + Cardinality(Revived(t) \cap Discounted)
      BY <3>1, SwapCardinality
    <3> QED BY <1>10, <3>2
  <2> QED BY <1>3, <1>6, <2>1, <2>2
<1> QED BY <1>8, <1>9, <1>11 DEF CountsInv, StockConserved, UsesCounted, Counted

(* A checkout commits: it releases its stale orders and its own order      *)
(* holds a unit that had left the shelf with the basket.  It revives none. *)
LEMMA PlaceCounts ==
    ASSUME MoneyInv, CountsInv, NEW t \in Procs, PlaceOrder(t)
    PROVE  CountsInv'
<1>1. /\ TypeOK /\ Sound(t) /\ MoneySound(t) /\ newPay[t] \in [Orders -> Writes]
      /\ stock \in Nat /\ elsewhere \in Nat
  BY DEF MoneyInv, IInv, TypeInv, TypeOK
<1>2. PICK p : p = placing[t]
  OBVIOUS
<1>3. p \in Orders /\ paymentStatus[p] = "absent" /\ kind[t] = "checkout"
  BY <1>1, <1>2 DEF PlaceOrder, Sound, KindByPc, WorkByPc, Placed
<1>4. \A o \in Orders : newPay[t][o] \in {"same", "FAILED"}
  BY <1>1, <1>3 DEF MoneySound, Confirming, Writes
<1>5. /\ \A o \in Orders :
          paymentStatus'[o] = IF o = p THEN "PENDING"
                              ELSE IF newPay[t][o] = "same" THEN paymentStatus[o] ELSE newPay[t][o]
      /\ holding' = (holding \ Released(t)) \cup {p}
      /\ stock' = stock + Cardinality(Released(t)) /\ elsewhere' = elsewhere
      /\ usedCount' = UsesAfterRelease(t) + Cardinality({p} \cap Discounted)
  BY <1>2, <1>3 DEF PlaceOrder, Becomes
<1>6. /\ Released(t) \subseteq holding /\ Released(t) \cap Discounted \subseteq Counted
      /\ UsesAfterRelease(t) = usedCount - Cardinality(Released(t) \cap Discounted)
  BY ReleasedAreCounted
<1>7. p \notin holding /\ p \notin Counted /\ p \notin Placed /\ p \notin Released(t)
  BY <1>1, <1>3 DEF CountsInv, StockConserved, Counted, Placed, Released, Sound, WritesGuarded
<1>8. Placed' = Placed \cup {p}
  <2>1. ASSUME NEW o \in Orders
        PROVE  paymentStatus'[o] = "absent" <=> o # p /\ paymentStatus[o] = "absent"
    BY <1>1, <1>4, <1>5 DEF Sound, WritesGuarded
  <2> QED BY <1>3, <2>1 DEF Placed
<1>9. /\ Cardinality(holding') = Cardinality(holding) - Cardinality(Released(t)) + 1
      /\ Cardinality(Released(t)) \in Nat
  <2>1. IsFiniteSet({p}) /\ Cardinality({p}) = 1 /\ {p} \cap holding = {}
    BY <1>7, FS_Singleton
  <2>2. IsFiniteSet(holding) /\ Released(t) \subseteq holding
    BY <1>1, <1>6, CountedSetsFinite
  <2>3. Cardinality((holding \ Released(t)) \cup {p})
          = Cardinality(holding) - Cardinality(Released(t)) + Cardinality({p})
    BY <2>1, <2>2, SwapCardinality
  <2> QED BY <1>5, <2>1, <2>3, CommittedSetsFinite, FS_CardinalityType
<1>10. Cardinality(Placed') = Cardinality(Placed) + 1
  BY <1>1, <1>7, <1>8, CountedSetsFinite, FS_AddElement
<1>11. stock' + elsewhere' + Cardinality(holding') = ShelfStock + Cardinality(Placed')
  <2>1. stock + elsewhere + Cardinality(holding) = ShelfStock + Cardinality(Placed)
    BY DEF CountsInv, StockConserved
  <2>2. Cardinality(holding) \in Nat /\ Cardinality(Placed) \in Nat /\ ShelfStock \in Nat
    BY <1>1, CountedSetsFinite, BoundsAssumption
  <2> QED BY <1>1, <1>5, <1>9, <1>10, <2>1, <2>2
<1>12. ASSUME NEW o \in Orders
       PROVE  /\ paymentStatus'[o] = "PENDING" => o \in holding'
              /\ paymentStatus'[o] \in {"absent", "FAILED"} => o \notin holding'
  <2>1. /\ paymentStatus[o] = "PENDING" => o \in holding
        /\ paymentStatus[o] \in {"absent", "FAILED"} => o \notin holding
        /\ o \in Released(t) <=> newPay[t][o] = "FAILED"
    BY DEF CountsInv, StockConserved, Released
  <2>2. CASE o = p
    BY <1>5, <2>2
  <2>3. CASE o # p /\ newPay[t][o] = "same"
    BY <1>5, <2>1, <2>3
  <2>4. CASE o # p /\ newPay[t][o] = "FAILED"
    BY <1>5, <2>1, <2>4
  <2> QED BY <1>4, <2>2, <2>3, <2>4
<1>13. Counted' = (Counted \ (Released(t) \cap Discounted)) \cup ({p} \cap Discounted)
  <2>1. Discounted \subseteq Orders
    BY OrdersAssumption
  <2>2. \A o \in Orders : newPay[t][o] = "FAILED" => paymentStatus[o] = "PENDING"
    BY <1>1 DEF Sound, WritesGuarded
  <2> QED BY <1>3, <1>4, <1>5, <2>1, <2>2 DEF Counted, Released
<1>14. usedCount' = Cardinality(Counted')
  <2>1. usedCount = Cardinality(Counted)
    BY DEF CountsInv, UsesCounted, Counted
  <2>2. IsFiniteSet({p} \cap Discounted) /\ ({p} \cap Discounted) \cap Counted = {}
    BY <1>7, FS_Singleton, FS_Subset, ZenonT(60)
  <2>3. Cardinality(Counted') = Cardinality(Counted) - Cardinality(Released(t) \cap Discounted)
                                  + Cardinality({p} \cap Discounted)
    BY <1>1, <1>6, <1>13, <2>2, CountedSetsFinite, SwapCardinality
  <2> QED BY <1>5, <1>6, <2>1, <2>3
<1> QED BY <1>11, <1>12, <1>14 DEF CountsInv, StockConserved, UsesCounted, Counted

LEMMA CountsInductive == MoneyInv /\ CountsInv /\ [Next]_vars => CountsInv'
<1> SUFFICES ASSUME MoneyInv, CountsInv, [Next]_vars
             PROVE  CountsInv'
  OBVIOUS
<1>0. stock \in Nat /\ elsewhere \in Nat /\ Cardinality(holding) \in Nat
  <2>1. TypeOK
    BY DEF MoneyInv, IInv, TypeInv
  <2> QED BY <2>1, CountedSetsFinite DEF TypeOK
<1>1. ASSUME NEW t \in Procs, CommitRequest(t) \/ SweepCommit(t)
      PROVE  CountsInv'
  <2>1. CommitSettlement(t) /\ elsewhere' = elsewhere
    BY <1>1 DEF CommitRequest, SweepCommit
  <2> QED BY <2>1, CommitCounts
<1>2. ASSUME NEW t \in Procs, PlaceOrder(t)
      PROVE  CountsInv'
  BY <1>2, PlaceCounts
<1>3. CASE ReserveElsewhere
  <2>1. UNCHANGED <<paymentStatus, holding, usedCount>> /\ stock' + elsewhere' = stock + elsewhere
    BY <1>0, <1>3 DEF ReserveElsewhere
  <2> QED BY <1>0, <2>1 DEF CountsInv, StockConserved, UsesCounted, Placed
<1>4. CASE UNCHANGED <<paymentStatus, holding, usedCount, stock, elsewhere>>
  BY <1>4 DEF CountsInv, StockConserved, UsesCounted, Placed
<1>5. ASSUME NEW t \in Procs, Step(t)
      PROVE  \/ CommitRequest(t) \/ SweepCommit(t) \/ PlaceOrder(t)
             \/ UNCHANGED <<paymentStatus, holding, usedCount, stock, elsewhere>>
  BY <1>5 DEF Step, ReleaseNextStale, GatewayAccepts, GatewayRefuses, NothingDue, StoreAuthority,
     VerifySucceeds, VerifyFails, ConfirmTx, ConfirmOrder, Revive, ReleaseOrder, ReleaseTx,
     RunHooks, SweepNext, SweepEnd, DeadlockVictim, tables
<1>6. ASSUME NEW t \in Requests, NEW o \in Orders, CheckoutBegin(t, o) \/ CallbackBegin(t, o)
      PROVE  UNCHANGED <<paymentStatus, holding, usedCount, stock, elsewhere>>
  BY <1>6 DEF CheckoutBegin, CallbackBegin, tables
<1>7. ASSUME NEW t \in Procs, SweepBegin(t) \/ Fail(t)
      PROVE  UNCHANGED <<paymentStatus, holding, usedCount, stock, elsewhere>>
  BY <1>7 DEF SweepBegin, Fail, tables
<1>8. CASE Surroundings \/ UNCHANGED vars
  BY <1>3, <1>4, <1>8 DEF Surroundings, Expire, CustomerPays, UpdateStatus, vars, tables
<1> QED BY <1>1, <1>2, <1>4, <1>5, <1>6, <1>7, <1>8 DEF Next, Procs

LEMMA CountsInitially == Init => CountsInv
<1> SUFFICES ASSUME Init PROVE CountsInv
  OBVIOUS
<1>1. holding = {} /\ Placed = {} /\ Counted = {} /\ usedCount = 0
  BY OrdersAssumption DEF Init, Placed, Counted
<1>2. stock + elsewhere + Cardinality(holding) = ShelfStock + Cardinality(Placed)
  BY <1>1, FS_EmptySet, BoundsAssumption DEF Init
<1>3. UsesCounted
  BY <1>1, FS_EmptySet DEF UsesCounted, Counted
<1> QED BY <1>1, <1>2, <1>3 DEF CountsInv, StockConserved, Init

(* However checkouts, callbacks, sweeps and crashes interleave, every unit *)
(* is on the shelf, in another basket or held by one order: an order gives *)
(* its unit back at most once.                                             *)
THEOREM StockAlwaysConserved == Spec => []StockConserved
<1>1. CountsInv => StockConserved
  BY DEF CountsInv
<1> QED BY <1>1, MoneyInitially, MoneyInductive, CountsInitially, CountsInductive, PTL DEF Spec

(* The discount code counts exactly the orders that are pending or paid.   *)
THEOREM UsesAlwaysCounted == Spec => []UsesCounted
<1>1. CountsInv => UsesCounted
  BY DEF CountsInv
<1> QED BY <1>1, MoneyInitially, MoneyInductive, CountsInitially, CountsInductive, PTL DEF Spec

================================================================================
