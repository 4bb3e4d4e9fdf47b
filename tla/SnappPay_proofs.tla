------------------------------ MODULE SnappPay_proofs ------------------------------
(***************************************************************************)
(* Proofs about SnappPay, for any callbacks, administrators, orders and    *)
(* prices, and any number of lost answers and of processes that die.       *)
(***************************************************************************)
EXTENDS SnappPay, TLAPS, FiniteSetTheorems

Settled == remote \in {"SETTLE", "CANCEL"}

Shapes == pc = [p \in Procs |-> pc[p]] /\ seen = [p \in Procs |-> seen[p]]

(* Who is about to mark the order paid knows that Snapp has settled; who   *)
(* is about to write a status has one of Snapp's, or none, but never the   *)
(* null of an attempt that nobody has claimed.                             *)
ProcSound(p) ==
    /\ pc[p] = "finalize" => Settled
    /\ pc[p] \in {"write", "fail"} => seen[p] \in Codes

(* Snapp does not know the purchase before it is asked for.                *)
NotYetAsked == shop = "placed" => remote = "none"

HooksArePaid == hooks \in {0, 1} /\ (hooks = 1 => pay = "PAID")

(* A claimed attempt cannot be claimed again.                              *)
ClaimedOnce ==
    /\ claimed # {} => gw # "NULL"
    /\ \A c, d \in claimed : c = d

IInv ==
    /\ Shapes /\ \A p \in Procs : ProcSound(p)
    /\ NotYetAsked /\ PaidMeansSettled /\ HooksArePaid /\ ClaimedOnce

--------------------------------------------------------------------------------
(* What a step leaves of each part of the invariant.                       *)

SettledStays == Settled => Settled'

(* Only p has moved, and it stands where it may.                           *)
Moved(p) ==
    /\ Shapes'
    /\ \A q \in Procs \ {p} : pc'[q] = pc[q] /\ seen'[q] = seen[q]
    /\ ProcSound(p)'

ProcsKept == UNCHANGED <<pc, seen>>

(* The order and the claim are as they were, or moved as the rest allows.  *)
PayKept == (pay' = "PAID" => pay = "PAID" \/ Settled) /\ (pay = "PAID" => pay' = "PAID")
ClaimKept == UNCHANGED claimed /\ (gw' = gw \/ gw' # "NULL")

LEMMA Step ==
    ASSUME IInv, SettledStays, PayKept, UNCHANGED hooks, ClaimKept, NotYetAsked',
           ProcsKept \/ \E p \in Procs : Moved(p)
    PROVE  IInv'
<1>1. Shapes' /\ \A q \in Procs : ProcSound(q)'
  <2>1. CASE ProcsKept
    BY <2>1 DEF IInv, ProcsKept, Shapes, ProcSound, SettledStays
  <2>2. ASSUME NEW p \in Procs, Moved(p) PROVE Shapes' /\ \A q \in Procs : ProcSound(q)'
    BY <2>2 DEF IInv, Moved, ProcSound, SettledStays
  <2> QED BY <2>1, <2>2
<1>2. PaidMeansSettled'
  BY DEF IInv, PayKept, PaidMeansSettled, SettledStays, Settled
<1>3. HooksArePaid'
  BY DEF IInv, HooksArePaid, PayKept
<1>4. ClaimedOnce'
  BY DEF IInv, ClaimedOnce, ClaimKept
<1> QED BY <1>1, <1>2, <1>3, <1>4 DEF IInv

(* A process that goes to a place where nothing is asked of it.            *)
Plain == {"idle", "ask", "verify", "verifyStatus", "settle", "settleStatus", "caught", "done",
          "reconcile", "settleOnce", "view", "cancel", "cancelWrite", "reduce", "reduceWrite"}

LEMMA GoesTo ==
    ASSUME Shapes, NEW p \in Procs, NEW place,
           pc' = [pc EXCEPT ![p] = place], UNCHANGED seen,
           place \in Plain \/ (place = "finalize" /\ Settled')
    PROVE  Moved(p)
BY DEF Shapes, Moved, ProcSound, Plain

LEMMA Sees ==
    ASSUME Shapes, NEW p \in Procs, NEW place, NEW value,
           pc' = [pc EXCEPT ![p] = place], seen' = [seen EXCEPT ![p] = value],
           place \in Plain \/ (place \in {"write", "fail"} /\ value \in Codes)
    PROVE  Moved(p)
BY DEF Shapes, Moved, ProcSound, Plain

LEMMA Ends ==
    ASSUME Shapes, NEW p \in Procs, End(p)
    PROVE  Moved(p)
<1>1. Rest(p) \in Plain
  BY DEF Rest, Plain
<1> QED BY <1>1, Sees DEF End

LEMMA Throws ==
    ASSUME Shapes, NEW p \in Procs, Throw(p)
    PROVE  Moved(p)
<1>1. CASE p \in Callbacks
  BY <1>1, GoesTo DEF Throw, Goto, Plain
<1>2. CASE p \notin Callbacks
  BY <1>2, Ends DEF Throw
<1> QED BY <1>1, <1>2

LEMMA FailsFor ==
    ASSUME Shapes, NEW p \in Procs, NEW code \in Codes, Fails(p, code)
    PROVE  Moved(p)
BY Sees DEF Fails

LEMMA Goes ==
    ASSUME Shapes, NEW p \in Procs, NEW place \in Plain, Goto(p, place)
    PROVE  Moved(p)
BY GoesTo DEF Goto

LEMMA GoesFinalize ==
    ASSUME Shapes, NEW p \in Procs, Goto(p, "finalize"), Settled'
    PROVE  Moved(p)
BY GoesTo DEF Goto

(* An answer of Snapp is its state, or no answer at all.                   *)
LEMMA Answers ==
    ASSUME NEW a, Answer(a)
    PROVE  a = remote \/ a = NoAnswer
BY DEF Answer

LEMMA ReleasePay ==
    ASSUME Released
    PROVE  PayKept
BY DEF Released, order, PayKept

--------------------------------------------------------------------------------
(* Checkout, the customer, Snapp, the sweeper and the order's endpoints.   *)

(* The order's endpoints leave payments, Snapp and the requests alone.     *)
LEMMA OrderStepsLeave ==
    ASSUME OrderStep
    PROVE  /\ UNCHANGED <<pay, tx, gw, token, remote, charged, authorised, pc, attempt, seen, target>>
           /\ UNCHANGED <<expired, shop, claimed, hooks, lost, failures>>
           /\ acts < MaxActs /\ acts' = acts + 1
           /\ deleted' = deleted \/ deleted' = TRUE
           /\ (UNCHANGED <<status, restated>>) \/ (status' \in Statuses /\ restated' = TRUE)
<1>1. ASSUME OrderAct
      PROVE  /\ UNCHANGED <<pay, tx, gw, token, remote, charged, authorised, pc, attempt, seen, target>>
             /\ UNCHANGED <<expired, shop, claimed, hooks, lost, failures>>
             /\ acts < MaxActs /\ acts' = acts + 1
  BY <1>1 DEF OrderAct, payment, snapp, procs
<1>2. CASE DeleteOrder
  BY <1>1, <1>2 DEF DeleteOrder
<1>3. ASSUME NEW s \in Statuses, UpdateStatus(s)
      PROVE  /\ OrderAct /\ UNCHANGED deleted /\ status' \in Statuses /\ restated' = TRUE
  BY <1>3 DEF UpdateStatus
<1>4. ASSUME NEW q, NEW o, NEW x, Edit(q, o, x)
      PROVE  OrderAct /\ UNCHANGED <<status, deleted, restated>>
  BY <1>4 DEF Edit
<1>5. CASE \E l \in Lines, n \in 0..MaxQuantity : EditItem(l, n)
  <2>1. \E q, o, x : Edit(q, o, x)
    BY <1>5 DEF EditItem
  <2> QED BY <1>1, <1>4, <2>1
<1>6. CASE \E o \in NewOff \cup {off}, x \in NewExtras \cup {extras} : UpdateOrder(o, x)
  <2>1. \E q, o, x : Edit(q, o, x)
    BY <1>6 DEF UpdateOrder
  <2> QED BY <1>1, <1>4, <2>1
<1> QED BY <1>1, <1>2, <1>3, <1>5, <1>6 DEF OrderStep

LEMMA InitSound ==
    ASSUME Init
    PROVE  IInv
<1>1. Shapes /\ \A p \in Procs : ProcSound(p)
  BY DEF Init, Shapes, ProcSound
<1>2. NotYetAsked /\ PaidMeansSettled /\ HooksArePaid /\ ClaimedOnce
  BY DEF Init, NotYetAsked, PaidMeansSettled, HooksArePaid, ClaimedOnce
<1> QED BY <1>1, <1>2 DEF IInv

LEMMA WorldKeeps ==
    ASSUME IInv,
           \/ RequestToken \/ TokenRefused \/ StoreAuthority \/ CheckoutDies
           \/ Authorise \/ Revert \/ Sweep \/ Expire \/ OrderStep
    PROVE  IInv'
<1> USE DEF SettledStays, Settled, ClaimKept, ProcsKept, NotYetAsked,
            order, payment, snapp, procs, bounds
<1>1. CASE RequestToken
  BY <1>1, Step DEF RequestToken, IInv, PayKept
<1>2. CASE TokenRefused
  BY <1>2, Step, ReleasePay DEF TokenRefused, IInv
<1>3. CASE StoreAuthority
  BY <1>3, Step DEF StoreAuthority, IInv, PayKept
<1>4. CASE CheckoutDies
  BY <1>4, Step DEF CheckoutDies, IInv, PayKept
<1>5. CASE Authorise
  BY <1>5, Step DEF Authorise, IInv, PayKept
<1>6. CASE Revert
  BY <1>6, Step DEF Revert, IInv, PayKept
<1>7. CASE Sweep
  BY <1>7, Step, ReleasePay DEF Sweep, IInv
<1>8. CASE Expire
  BY <1>8, Step DEF Expire, IInv, PayKept
<1>9. CASE OrderStep
  BY <1>9, Step, OrderStepsLeave DEF IInv, PayKept
<1> QED BY <1>1, <1>2, <1>3, <1>4, <1>5, <1>6, <1>7, <1>8, <1>9

--------------------------------------------------------------------------------
(* A request that leaves order, claim and hooks alone: it talks to Snapp.  *)

LEMMA TalkKeeps ==
    ASSUME IInv, NEW p \in Procs, Moved(p), SettledStays,
           UNCHANGED <<pay, shop, hooks, claimed>>, gw' = gw \/ gw' # "NULL",
           shop = "placed" => remote' = remote
    PROVE  IInv'
<1>1. PayKept /\ ClaimKept
  BY DEF PayKept, ClaimKept
<1>2. NotYetAsked'
  BY DEF IInv, NotYetAsked
<1> QED BY <1>1, <1>2, Step

(* Snapp's answers leave it as it is; verify, settle and cancel move it    *)
(* only from states it has once it was asked.                              *)
LEMMA RemoteMoves ==
    ASSUME IInv, UNCHANGED <<pay, shop, hooks, claimed>>, gw' = gw \/ gw' # "NULL",
           UNCHANGED remote \/ (remote \in {"PENDING", "VERIFY", "SETTLE"} /\ SettledStays),
           NEW p \in Procs, Moved(p)
    PROVE  IInv'
<1>1. SettledStays
  BY DEF SettledStays, Settled
<1>2. shop = "placed" => remote' = remote
  BY DEF IInv, NotYetAsked
<1> QED BY <1>1, <1>2, TalkKeeps

LEMMA AskStateKeeps ==
    ASSUME IInv, NEW c \in Procs, AskState(c)
    PROVE  IInv'
<1>1. PICK a \in Codes : IF a \in {"VERIFY", "SETTLE"} THEN Goto(c, "verify") ELSE Fails(c, a)
  BY DEF AskState
<1>2. Moved(c)
  BY <1>1, Goes, FailsFor DEF IInv, Plain
<1> QED BY <1>2, RemoteMoves DEF AskState, order, payment, snapp

LEMMA VerifyKeeps ==
    ASSUME IInv, NEW p \in Procs, Verify(p)
    PROVE  IInv'
<1>1. /\ UNCHANGED <<pay, shop, hooks, claimed, gw, seen>>
      /\ UNCHANGED remote \/ (remote = "PENDING" /\ remote' = "VERIFY")
      /\ \E place \in {"settle", "verifyStatus"} : pc' = [pc EXCEPT ![p] = place]
  BY DEF Verify, order, payment
<1>2. Moved(p)
  BY <1>1, GoesTo DEF IInv, Plain
<1> QED BY <1>1, <1>2, RemoteMoves DEF SettledStays, Settled

LEMMA VerifyStatusKeeps ==
    ASSUME IInv, NEW p \in Procs, VerifyStatus(p)
    PROVE  IInv'
<1>1. \/ \E place \in {"settle", "verify"} : pc' = [pc EXCEPT ![p] = place] /\ UNCHANGED seen
      \/ Throw(p)
  BY DEF VerifyStatus
<1>2. Moved(p)
  BY <1>1, GoesTo, Throws DEF IInv, Plain
<1> QED BY <1>2, RemoteMoves DEF VerifyStatus, order, payment, snapp

LEMMA SettleKeeps ==
    ASSUME IInv, NEW p \in Procs, Settle(p)
    PROVE  IInv'
<1>1. UNCHANGED remote \/ (remote = "VERIFY" /\ remote' = "SETTLE")
  BY DEF Settle
<1>2. \/ Goto(p, "finalize") /\ remote' = "SETTLE"
      \/ Goto(p, "settleStatus")
  BY DEF Settle
<1>3. Moved(p)
  BY <1>2, Goes, GoesFinalize DEF IInv, Plain, Settled
<1> QED BY <1>1, <1>3, RemoteMoves DEF Settle, order, payment, SettledStays, Settled

LEMMA SettleStatusKeeps ==
    ASSUME IInv, NEW p \in Procs, SettleStatus(p)
    PROVE  IInv'
<1>1. PICK a \in Codes :
          /\ Answer(a)
          /\ \/ a = "SETTLE" /\ Goto(p, "finalize")
             \/ pc' = [pc EXCEPT ![p] = "settle"] /\ UNCHANGED seen
             \/ Throw(p)
  BY DEF SettleStatus, SettledAnswers
<1>2. UNCHANGED remote
  BY DEF SettleStatus, snapp
<1>3. CASE a = "SETTLE" /\ Goto(p, "finalize")
  <2>1. remote = "SETTLE"
    BY <1>1, <1>3, Answers DEF NoAnswer
  <2> QED BY <2>1, <1>2, <1>3, GoesFinalize, RemoteMoves
          DEF SettleStatus, order, payment, snapp, IInv, Settled
<1>4. CASE (pc' = [pc EXCEPT ![p] = "settle"] /\ UNCHANGED seen) \/ Throw(p)
  <2>1. Moved(p)
    BY <1>4, GoesTo, Throws DEF IInv, Plain
  <2> QED BY <2>1, <1>2, RemoteMoves DEF SettleStatus, order, payment, snapp
<1> QED BY <1>1, <1>3, <1>4

LEMMA CaughtKeeps ==
    ASSUME IInv, NEW c \in Procs, Caught(c)
    PROVE  IInv'
<1>1. PICK a \in Codes :
          /\ Answer(a)
          /\ \/ a = "SETTLE" /\ Goto(c, "finalize") /\ UNCHANGED gw
             \/ a = "VERIFY" /\ gw' = "VERIFY" /\ End(c)
             \/ a \notin {"SETTLE", "VERIFY"} /\ Fails(c, a) /\ UNCHANGED gw
  BY DEF Caught
<1>2. UNCHANGED remote
  BY DEF Caught, snapp
<1>3. CASE a = "SETTLE" /\ Goto(c, "finalize") /\ UNCHANGED gw
  <2>1. Settled'
    BY <1>1, <1>2, <1>3, Answers DEF NoAnswer, Settled
  <2>2. Moved(c)
    BY <2>1, <1>3, GoesFinalize DEF IInv
  <2> QED BY <2>2, <1>2, <1>3, RemoteMoves DEF Caught, order
<1>4. CASE a = "VERIFY" /\ gw' = "VERIFY" /\ End(c)
  BY <1>4, <1>2, Ends, RemoteMoves DEF Caught, order, IInv
<1>5. CASE a \notin {"SETTLE", "VERIFY"} /\ Fails(c, a) /\ UNCHANGED gw
  BY <1>5, <1>2, FailsFor, RemoteMoves DEF Caught, order, IInv
<1> QED BY <1>1, <1>3, <1>4, <1>5

LEMMA FailKeeps ==
    ASSUME IInv, NEW p \in Procs, Fail(p)
    PROVE  IInv'
BY Ends, RemoteMoves DEF Fail, order, payment, snapp, IInv

--------------------------------------------------------------------------------
(* Transactions.                                                           *)

LEMMA FailAttemptKeeps ==
    ASSUME IInv, NEW p \in Procs, FailAttempt(p)
    PROVE  IInv'
<1>1. PayKept
  BY ReleasePay DEF FailAttempt
<1>2. seen[p] # "NULL"
  BY DEF FailAttempt, IInv, ProcSound, Codes, RemoteStates, NoAnswer
<1>3. ClaimKept
  BY <1>2 DEF FailAttempt, ClaimKept
<1>4. Moved(p)
  BY Ends DEF FailAttempt, IInv
<1> QED BY <1>1, <1>3, <1>4, Step DEF FailAttempt, snapp, SettledStays, Settled, IInv, NotYetAsked

LEMMA PostKeeps ==
    ASSUME IInv, NEW c \in Callbacks, NEW ok \in BOOLEAN, Post(c, ok)
    PROVE  IInv'
<1>1. c \in Procs
  BY DEF Procs
<1>2. Moved(c)
  BY <1>1, Goes DEF Post, IInv, Plain
<1>3. CASE Claimable
  <2>1. claimed = {} /\ claimed' = {c} /\ gw' = "CALLBACK_RECEIVED"
    BY <1>3 DEF Post, Claimable, IInv, ClaimedOnce
  <2>2. ClaimedOnce'
    BY <2>1 DEF ClaimedOnce
  <2>3. Shapes' /\ \A q \in Procs : ProcSound(q)'
    BY <1>2 DEF IInv, Moved, ProcSound, Post, snapp, Settled
  <2>4. (NotYetAsked /\ PaidMeansSettled /\ HooksArePaid)'
    BY DEF IInv, Post, order, snapp, NotYetAsked, PaidMeansSettled, HooksArePaid
  <2> QED BY <2>2, <2>3, <2>4 DEF IInv
<1>4. CASE ~Claimable
  BY <1>1, <1>2, <1>4, RemoteMoves DEF Post, order, snapp
<1> QED BY <1>3, <1>4

(* Only an order that is not PAID yet starts the hooks, and it is then.    *)
LEMMA FinalizeKeeps ==
    ASSUME IInv, NEW p \in Procs, Finalize(p)
    PROVE  IInv'
<1>1. Moved(p)
  BY Ends DEF Finalize, IInv
<1>2. Settled /\ UNCHANGED <<remote, shop, claimed>>
  BY DEF Finalize, IInv, ProcSound, snapp
<1>3. \/ UNCHANGED <<pay, hooks>>
      \/ pay # "PAID" /\ pay' = "PAID" /\ hooks' = hooks + 1
  BY DEF Finalize, Known
<1>4. HooksArePaid'
  BY <1>3 DEF IInv, HooksArePaid
<1>5. PaidMeansSettled' /\ NotYetAsked'
  BY <1>2 DEF IInv, PaidMeansSettled, NotYetAsked, Settled
<1>6. gw' = gw \/ gw' = "SETTLE"
  BY DEF Finalize
<1>7. ClaimedOnce'
  BY <1>2, <1>6 DEF IInv, ClaimedOnce
<1>8. Shapes' /\ \A q \in Procs : ProcSound(q)'
  BY <1>1, <1>2 DEF IInv, Moved, ProcSound, Settled
<1> QED BY <1>4, <1>5, <1>7, <1>8 DEF IInv

--------------------------------------------------------------------------------
(* Administrators.                                                         *)

LEMMA ActKeeps ==
    ASSUME IInv, NEW a \in Procs, NEW place \in Plain, NEW value, Act(a, place, value)
    PROVE  IInv'
<1>1. Moved(a)
  BY Sees DEF Act, IInv
<1> QED BY <1>1, RemoteMoves DEF Act, order, payment, snapp

LEMMA AdminStarts ==
    ASSUME IInv, NEW a \in Procs,
           \/ Reconcile(a) \/ View(a) \/ Cancel(a)
           \/ \E q \in [Lines -> 0..MaxQuantity] : Reduce(a, q)
    PROVE  IInv'
<1> {"reconcile", "view", "cancel", "reduce"} \subseteq Plain
  BY DEF Plain
<1>1. CASE Reconcile(a)
  BY <1>1, ActKeeps DEF Reconcile, Look
<1>2. CASE View(a)
  BY <1>2, ActKeeps DEF View, Look
<1>3. CASE Cancel(a)
  BY <1>3, ActKeeps DEF Cancel, Look
<1>4. CASE \E q \in [Lines -> 0..MaxQuantity] : Reduce(a, q)
  BY <1>4, ActKeeps DEF Reduce
<1> QED BY <1>1, <1>2, <1>3, <1>4

LEMMA ReconcileStatusKeeps ==
    ASSUME IInv, NEW a \in Procs, ReconcileStatus(a)
    PROVE  IInv'
<1>1. PICK s \in Codes :
          /\ Answer(s)
          /\ \/ End(a)
             \/ pc' = [pc EXCEPT ![a] = "write"] /\ seen' = [seen EXCEPT ![a] = s]
             \/ Goto(a, "verify")
             \/ Goto(a, "settleOnce")
             \/ s = "SETTLE" /\ Goto(a, "finalize")
             \/ Fails(a, s)
  <2>1. PICK s \in Codes :
          /\ Answer(s)
          /\ CASE s = NoAnswer -> End(a)
               [] s # NoAnswer /\ seen[a] = "PAID" ->
                    /\ pc' = [pc EXCEPT ![a] = "write"]
                    /\ seen' = [seen EXCEPT ![a] = s] /\ UNCHANGED <<attempt, target>>
               [] s = "PENDING" /\ seen[a] # "PAID" -> Goto(a, "verify")
               [] s = "VERIFY" /\ seen[a] # "PAID" -> Goto(a, "settleOnce")
               [] s = "SETTLE" /\ seen[a] # "PAID" -> Goto(a, "finalize")
               [] OTHER -> Fails(a, s)
    BY DEF ReconcileStatus
  <2> QED BY <2>1 DEF NoAnswer
<1>2. UNCHANGED <<remote, pay, shop, hooks, claimed, gw>>
  BY DEF ReconcileStatus, order, payment, snapp
<1>3. CASE s = "SETTLE" /\ Goto(a, "finalize")
  <2>1. Settled'
    BY <1>1, <1>2, <1>3, Answers DEF NoAnswer, Settled
  <2> QED BY <2>1, <1>2, <1>3, GoesFinalize, RemoteMoves DEF IInv
<1>4. CASE \/ End(a)
           \/ pc' = [pc EXCEPT ![a] = "write"] /\ seen' = [seen EXCEPT ![a] = s]
           \/ Goto(a, "verify")
           \/ Goto(a, "settleOnce")
           \/ Fails(a, s)
  <2>1. Moved(a)
    BY <1>4, Ends, Sees, Goes, FailsFor DEF IInv, Plain
  <2> QED BY <2>1, <1>2, RemoteMoves
<1> QED BY <1>1, <1>3, <1>4

LEMMA SettleOnceKeeps ==
    ASSUME IInv, NEW a \in Procs, SettleOnce(a)
    PROVE  IInv'
<1>1. UNCHANGED remote \/ (remote = "VERIFY" /\ remote' = "SETTLE")
  BY DEF SettleOnce
<1>2. (Goto(a, "finalize") /\ remote' = "SETTLE") \/ End(a)
  BY DEF SettleOnce
<1>3. Moved(a)
  BY <1>2, GoesFinalize, Ends DEF IInv, Settled
<1> QED BY <1>1, <1>3, RemoteMoves DEF SettleOnce, order, payment, SettledStays, Settled

LEMMA ViewStatusKeeps ==
    ASSUME IInv, NEW a \in Procs, ViewStatus(a)
    PROVE  IInv'
<1>1. PICK s \in Codes :
          End(a) \/ (pc' = [pc EXCEPT ![a] = "write"] /\ seen' = [seen EXCEPT ![a] = s])
  BY DEF ViewStatus
<1>2. Moved(a)
  BY <1>1, Ends, Sees DEF IInv
<1> QED BY <1>2, RemoteMoves DEF ViewStatus, order, payment, snapp

LEMMA WriteStatusKeeps ==
    ASSUME IInv, NEW a \in Procs, WriteStatus(a)
    PROVE  IInv'
<1>1. gw' # "NULL"
  BY DEF WriteStatus, IInv, ProcSound, Codes, RemoteStates, NoAnswer
<1> QED BY <1>1, Ends, RemoteMoves DEF WriteStatus, order, snapp, IInv

LEMMA RemoteCancelKeeps ==
    ASSUME IInv, NEW a \in Procs, RemoteCancel(a)
    PROVE  IInv'
<1>1. UNCHANGED remote \/ (remote = "SETTLE" /\ SettledStays)
  BY DEF RemoteCancel, SettledStays, Settled
<1>2. Goto(a, "cancelWrite") \/ End(a)
  BY DEF RemoteCancel
<1>3. Moved(a)
  BY <1>2, Goes, Ends DEF IInv, Plain
<1> QED BY <1>1, <1>3, RemoteMoves DEF RemoteCancel, order, payment

LEMMA CancelWriteKeeps ==
    ASSUME IInv, NEW a \in Procs, CancelWrite(a)
    PROVE  IInv'
BY Ends, RemoteMoves DEF CancelWrite, snapp, IInv

LEMMA RemoteReduceKeeps ==
    ASSUME IInv, NEW a \in Procs, RemoteReduce(a)
    PROVE  IInv'
<1>1. Goto(a, "reduceWrite") \/ End(a)
  BY DEF RemoteReduce
<1>2. Moved(a)
  BY <1>1, Goes, Ends DEF IInv, Plain
<1> QED BY <1>2, RemoteMoves DEF RemoteReduce, order, payment

LEMMA ReduceWriteKeeps ==
    ASSUME IInv, NEW a \in Procs, ReduceWrite(a)
    PROVE  IInv'
BY Ends, RemoteMoves DEF ReduceWrite, payment, snapp, IInv

--------------------------------------------------------------------------------
LEMMA StutterKeeps ==
    ASSUME IInv, UNCHANGED vars
    PROVE  IInv'
BY Step DEF vars, order, payment, snapp, procs, SettledStays, Settled, PayKept, ClaimKept,
            ProcsKept, IInv, NotYetAsked

LEMMA StepSound ==
    ASSUME IInv, [Next]_vars
    PROVE  IInv'
<1>1. CASE \/ RequestToken \/ TokenRefused \/ StoreAuthority \/ CheckoutDies
           \/ Authorise \/ Revert \/ Sweep \/ Expire \/ OrderStep
  BY <1>1, WorldKeeps
<1>2. ASSUME NEW p \in Procs, AtSnapp(p) PROVE IInv'
  BY <1>2, VerifyKeeps, VerifyStatusKeeps, SettleKeeps, SettleStatusKeeps DEF AtSnapp
<1>3. ASSUME NEW c \in Callbacks, CallbackStep(c) \/ \E ok \in BOOLEAN : Post(c, ok) PROVE IInv'
  <2>1. c \in Procs
    BY DEF Procs
  <2> QED BY <1>2, <1>3, <2>1, AskStateKeeps, CaughtKeeps, FailAttemptKeeps, FinalizeKeeps, PostKeeps
          DEF CallbackStep
<1>4. ASSUME NEW a \in Admins, AdminStep(a) PROVE IInv'
  <2>1. a \in Procs
    BY DEF Procs
  <2>2. CASE ReconcileStatus(a) \/ SettleOnce(a) \/ AtSnapp(a) \/ FailAttempt(a) \/ Finalize(a)
    BY <2>1, <2>2, <1>2, ReconcileStatusKeeps, SettleOnceKeeps, FailAttemptKeeps, FinalizeKeeps
  <2>3. CASE \/ ViewStatus(a) \/ WriteStatus(a)
             \/ RemoteCancel(a) \/ CancelWrite(a) \/ RemoteReduce(a) \/ ReduceWrite(a)
    BY <2>1, <2>3, ViewStatusKeeps, WriteStatusKeeps, RemoteCancelKeeps, CancelWriteKeeps,
       RemoteReduceKeeps, ReduceWriteKeeps
  <2> QED BY <1>4, <2>2, <2>3 DEF AdminStep
<1>5. ASSUME NEW a \in Admins,
             \/ Reconcile(a) \/ View(a) \/ Cancel(a)
             \/ \E q \in [Lines -> 0..MaxQuantity] : Reduce(a, q)
      PROVE  IInv'
  <2>1. a \in Procs
    BY DEF Procs
  <2> QED BY <1>5, <2>1, AdminStarts
<1>6. ASSUME NEW p \in Procs, Fail(p) PROVE IInv'
  BY <1>6, FailKeeps
<1>7. CASE UNCHANGED vars
  BY <1>7, StutterKeeps
<1> QED BY <1>1, <1>3, <1>4, <1>5, <1>6, <1>7 DEF Next

LEMMA InvariantHolds == Spec => []IInv
<1>1. Init => IInv
  BY InitSound
<1>2. IInv /\ [Next]_vars => IInv'
  BY StepSound
<1> QED BY <1>1, <1>2, PTL DEF Spec

(* An order is PAID only when Snapp has settled its purchase, whatever     *)
(* answers are lost, whoever dies and however many callbacks,              *)
(* reconciliations, cancellations and sweeps come in between.              *)
THEOREM PaidIsSettled == Spec => []PaidMeansSettled
<1>1. IInv => PaidMeansSettled
  BY DEF IInv
<1> QED BY <1>1, InvariantHolds, PTL

(* One post of the browser at most claims the attempt, and the paid hooks  *)
(* start once at most, for any number of posts and administrators.         *)
THEOREM HooksStartAtMostOnce == Spec => []HooksStartOnce
<1>1. ASSUME IInv PROVE HooksStartOnce
  <2>1. hooks <= 1
    BY <1>1 DEF IInv, HooksArePaid
  <2>2. CASE claimed = {}
    BY <2>1, <2>2, FS_EmptySet DEF HooksStartOnce
  <2>3. ASSUME NEW c \in claimed PROVE HooksStartOnce
    <3>1. claimed = {c}
      BY <1>1 DEF IInv, ClaimedOnce
    <3>2. Cardinality(claimed) = 1
      BY <3>1, FS_Singleton
    <3> QED BY <2>1, <3>2 DEF HooksStartOnce
  <2> QED BY <2>2, <2>3
<1> QED BY <1>1, InvariantHolds, PTL

--------------------------------------------------------------------------------
(* Money that Snapp has settled is recorded.                               *)

Typed ==
    /\ lost \in Nat /\ failures \in Nat /\ remote \in RemoteStates
    /\ attempt \in [Procs -> 0..2]

Settling(p) == pc[p] \in {"settle", "settleStatus"}

(* Who settles goes round again only because answers were lost.            *)
RoundsWereLost(p) ==
    /\ Settling(p) => remote \notin {"none", "PENDING"}
    /\ pc[p] = "settle" /\ remote \in {"VERIFY", "SETTLE"} => lost >= attempt[p]
    /\ pc[p] = "settleStatus" /\ remote = "VERIFY" => lost >= attempt[p] + 1
    /\ pc[p] = "settleStatus" /\ remote = "SETTLE" => lost >= attempt[p]

(* A purchase that is recorded, or whose order was deleted, may be         *)
(* cancelled.                                                              *)
Kept == pay = "PAID" \/ deleted
Recorded ==
    /\ tx = "PAID" \/ remote = "CANCEL" => Kept
    /\ \A p \in Procs : pc[p] = "cancel" => Kept

(* Somebody has a verified, and a settled, purchase in hand, unless enough *)
(* answers were lost for all to give up.                                   *)
HasVerified(p) == Settling(p) \/ (pc[p] = "verifyStatus" /\ lost >= 1)
HasSettled(p) == Settling(p) \/ pc[p] = "finalize" \/ (pc[p] = "verifyStatus" /\ lost >= 2)
InHand ==
    /\ remote = "VERIFY" => lost >= 2 \/ \E p \in Procs : HasVerified(p)
    /\ remote = "SETTLE" => lost >= 3 \/ Kept \/ \E p \in Procs : HasSettled(p)

RecordInv ==
    /\ IInv /\ Typed /\ Recorded /\ \A p \in Procs : RoundsWereLost(p)
    /\ failures = 0 => InHand

(* Nobody moves: the world around the requests.                            *)
LEMMA WorldRecords ==
    ASSUME RecordInv, IInv', UNCHANGED <<pc, attempt, lost>>,
           failures' = failures \/ failures' = failures + 1,
           \/ UNCHANGED remote
           \/ remote = "none" /\ remote' = "PENDING"
           \/ remote' = "REVERT",
           Kept => Kept', tx' = "PAID" => tx = "PAID"
    PROVE  RecordInv'
<1>1. Typed'
  BY DEF RecordInv, Typed, RemoteStates
<1>2. Recorded'
  BY DEF RecordInv, Recorded
<1>3. \A p \in Procs : RoundsWereLost(p)'
  BY DEF RecordInv, RoundsWereLost, Settling
<1>4. ASSUME failures' = 0 PROVE InHand'
  <2>1. failures = 0 /\ InHand
    BY <1>4 DEF RecordInv, Typed
  <2> QED BY <2>1 DEF InHand, HasVerified, HasSettled, Settling
<1> QED BY <1>1, <1>2, <1>3, <1>4 DEF RecordInv

(* Only p moves, and what it had in hand it keeps, or an answer was lost.  *)
OnlyMoves(p) ==
    /\ attempt' \in [Procs -> 0..2] /\ lost' \in {lost, lost + 1} /\ failures' = failures
    /\ \A q \in Procs \ {p} : pc'[q] = pc[q] /\ attempt'[q] = attempt[q]

RemoteGoesOn ==
    \/ UNCHANGED remote
    \/ remote = "PENDING" /\ remote' = "VERIFY"
    \/ remote = "VERIFY" /\ remote' = "SETTLE"
    \/ remote = "SETTLE" /\ remote' = "CANCEL"

HandsOver(p) ==
    /\ remote' = "VERIFY" =>
        \/ HasVerified(p)'
        \/ remote = "VERIFY" /\ (HasVerified(p) => lost' >= 2)
    /\ remote' = "SETTLE" =>
        \/ HasSettled(p)' \/ Kept'
        \/ remote = "SETTLE" /\ (HasSettled(p) => lost' >= 3)
        \/ remote = "VERIFY" /\ ~HasVerified(p) /\ lost' = lost + 1

LEMMA ProcRecords ==
    ASSUME RecordInv, IInv', NEW p \in Procs, OnlyMoves(p), RemoteGoesOn, HandsOver(p),
           Recorded', RoundsWereLost(p)', Kept => Kept'
    PROVE  RecordInv'
<1>1. lost \in Nat /\ lost' \in Nat /\ lost' >= lost /\ attempt \in [Procs -> 0..2]
  BY DEF RecordInv, Typed, OnlyMoves
<1>2. Typed'
  BY <1>1 DEF RecordInv, Typed, OnlyMoves, RemoteGoesOn, RemoteStates
<1>3. ASSUME NEW q \in Procs \ {p}
      PROVE  /\ RoundsWereLost(q)'
             /\ HasVerified(q) => HasVerified(q)'
             /\ HasSettled(q) => HasSettled(q)'
             /\ HasVerified(q) /\ lost' = lost + 1 => HasSettled(q)'
  <2>1. pc'[q] = pc[q] /\ attempt'[q] = attempt[q] /\ attempt[q] \in 0..2
    BY <1>1 DEF OnlyMoves
  <2>2. RoundsWereLost(q)
    BY DEF RecordInv
  <2>3. RoundsWereLost(q)'
    BY <1>1, <2>1, <2>2 DEF RoundsWereLost, Settling, RemoteGoesOn
  <2> QED BY <1>1, <2>1, <2>3 DEF HasVerified, HasSettled, Settling
<1>4. ASSUME failures' = 0 PROVE InHand'
  <2>1. InHand
    BY <1>4 DEF RecordInv, OnlyMoves
  <2>2. ASSUME remote' = "VERIFY" PROVE lost' >= 2 \/ \E q \in Procs : HasVerified(q)'
    <3>1. CASE HasVerified(p)'
      BY <3>1
    <3>2. CASE remote = "VERIFY" /\ (HasVerified(p) => lost' >= 2)
      BY <1>1, <1>3, <2>1, <3>2 DEF InHand
    <3> QED BY <2>2, <3>1, <3>2 DEF HandsOver
  <2>3. ASSUME remote' = "SETTLE" PROVE lost' >= 3 \/ Kept' \/ \E q \in Procs : HasSettled(q)'
    <3>1. CASE HasSettled(p)' \/ Kept'
      BY <3>1
    <3>2. CASE remote = "SETTLE" /\ (HasSettled(p) => lost' >= 3)
      BY <1>1, <1>3, <2>1, <3>2 DEF InHand
    <3>3. CASE remote = "VERIFY" /\ ~HasVerified(p) /\ lost' = lost + 1
      BY <1>1, <1>3, <2>1, <3>3 DEF InHand
    <3> QED BY <2>3, <3>1, <3>2, <3>3 DEF HandsOver
  <2> QED BY <2>2, <2>3 DEF InHand
<1>5. \A q \in Procs : RoundsWereLost(q)'
  BY <1>3
<1> QED BY <1>2, <1>4, <1>5 DEF RecordInv

(* The places at which a request moves.                                    *)
MovesTo(p, place) ==
    /\ pc' = [pc EXCEPT ![p] = place]
    /\ attempt' \in [Procs -> 0..2] /\ \A q \in Procs \ {p} : attempt'[q] = attempt[q]

LEMMA Places ==
    ASSUME RecordInv, NEW p \in Procs, NEW place, MovesTo(p, place)
    PROVE  pc'[p] = place /\ \A q \in Procs \ {p} : pc'[q] = pc[q] /\ attempt'[q] = attempt[q]
BY DEF MovesTo, RecordInv, IInv, Shapes

LEMMA GotoPlace ==
    ASSUME RecordInv, NEW p \in Procs, NEW place, Goto(p, place)
    PROVE  MovesTo(p, place) /\ attempt' = attempt
BY DEF Goto, MovesTo, RecordInv, Typed

LEMMA EndPlace ==
    ASSUME RecordInv, NEW p \in Procs, End(p)
    PROVE  \E place \in {"idle", "done"} : MovesTo(p, place)
<1>1. MovesTo(p, Rest(p))
  BY DEF End, MovesTo, RecordInv, Typed
<1>2. Rest(p) \in {"idle", "done"}
  BY DEF Rest
<1> QED BY <1>1, <1>2

LEMMA FailsPlace ==
    ASSUME RecordInv, NEW p \in Procs, NEW code, Fails(p, code)
    PROVE  MovesTo(p, "fail")
BY DEF Fails, MovesTo, RecordInv, Typed

LEMMA ThrowPlace ==
    ASSUME RecordInv, NEW p \in Procs, Throw(p)
    PROVE  \E place \in {"idle", "done", "caught"} : MovesTo(p, place)
BY GotoPlace, EndPlace DEF Throw

(* A request that has nothing in hand, and goes where nothing is.          *)
Idle == {"idle", "ask", "verify", "caught", "fail", "done", "reconcile", "settleOnce", "view",
         "write", "cancel", "cancelWrite", "reduce", "reduceWrite"}

LEMMA IdleRecords ==
    ASSUME RecordInv, IInv', NEW p \in Procs, NEW place \in Idle \cup {"finalize"}, MovesTo(p, place),
           pc[p] \in Idle, lost' \in {lost, lost + 1}, failures' = failures,
           UNCHANGED remote \/ (remote = "SETTLE" /\ remote' = "CANCEL" /\ Kept'),
           Kept => Kept', tx' = "PAID" => tx = "PAID", place = "cancel" => Kept'
    PROVE  RecordInv'
<1>1. pc'[p] = place /\ \A q \in Procs \ {p} : pc'[q] = pc[q] /\ attempt'[q] = attempt[q]
  BY Places
<1>2. OnlyMoves(p) /\ RemoteGoesOn
  BY <1>1 DEF OnlyMoves, MovesTo, RemoteGoesOn
<1>3. HandsOver(p)
  BY DEF HandsOver, HasVerified, HasSettled, Settling, Idle
<1>4. Recorded'
  BY <1>1 DEF RecordInv, Recorded
<1>5. RoundsWereLost(p)'
  BY <1>1 DEF RoundsWereLost, Settling, Idle
<1> QED BY <1>2, <1>3, <1>4, <1>5, ProcRecords

--------------------------------------------------------------------------------
(* Requests that have nothing in hand.                                     *)

LEMMA PostRecords ==
    ASSUME RecordInv, IInv', NEW c \in Callbacks, NEW ok \in BOOLEAN, Post(c, ok)
    PROVE  RecordInv'
<1>1. c \in Procs /\ pc[c] \in Idle
  BY DEF Procs, Post, Idle
<1>2. \E place \in {"verify", "ask", "done"} : MovesTo(c, place)
  BY <1>1, GotoPlace DEF Post
<1>3. UNCHANGED <<remote, pay, deleted, tx, lost, failures>>
  BY DEF Post, order, snapp, bounds
<1> QED BY <1>1, <1>2, <1>3, IdleRecords DEF Idle, Kept

LEMMA AskStateRecords ==
    ASSUME RecordInv, IInv', NEW c \in Procs, AskState(c)
    PROVE  RecordInv'
<1>1. \E place \in {"verify", "fail"} : MovesTo(c, place)
  BY GotoPlace, FailsPlace DEF AskState
<1>2. UNCHANGED <<remote, pay, deleted, tx, failures>> /\ lost' \in {lost, lost + 1} /\ pc[c] \in Idle
  BY DEF AskState, order, payment, snapp, Answer, Answered, Unanswered, Idle
<1> QED BY <1>1, <1>2, IdleRecords DEF Idle, Kept

LEMMA CaughtRecords ==
    ASSUME RecordInv, IInv', NEW c \in Procs, Caught(c)
    PROVE  RecordInv'
<1>1. \E place \in {"finalize", "idle", "done", "fail"} : MovesTo(c, place)
  BY GotoPlace, FailsPlace, EndPlace DEF Caught
<1>2. UNCHANGED <<remote, pay, deleted, tx, failures>> /\ lost' \in {lost, lost + 1} /\ pc[c] \in Idle
  BY DEF Caught, order, snapp, Answer, Answered, Unanswered, Idle
<1> QED BY <1>1, <1>2, IdleRecords DEF Idle, Kept

LEMMA ReleaseKeeps ==
    ASSUME Released
    PROVE  (Kept => Kept') /\ (tx' = "PAID" => tx = "PAID")
BY DEF Released, order, Kept

LEMMA FailAttemptRecords ==
    ASSUME RecordInv, IInv', NEW p \in Procs, FailAttempt(p)
    PROVE  RecordInv'
<1>1. \E place \in {"idle", "done"} : MovesTo(p, place)
  BY EndPlace DEF FailAttempt
<1>2. UNCHANGED <<remote, lost, failures>> /\ pc[p] \in Idle
  BY DEF FailAttempt, snapp, bounds, Idle
<1>3. (Kept => Kept') /\ (tx' = "PAID" => tx = "PAID")
  BY ReleaseKeeps DEF FailAttempt
<1> QED BY <1>1, <1>2, <1>3, IdleRecords DEF Idle

(* What an administrator begins, asks for and writes.                      *)
LEMMA AdminBeginsRecords ==
    ASSUME RecordInv, IInv', NEW a \in Procs,
           \/ Reconcile(a) \/ View(a) \/ Cancel(a)
           \/ \E q \in [Lines -> 0..MaxQuantity] : Reduce(a, q)
    PROVE  RecordInv'
<1>1. PICK place \in {"reconcile", "view", "cancel", "reduce"} :
        /\ \E value : Act(a, place, value)
        /\ place = "cancel" => tx = "PAID"
  BY DEF Reconcile, View, Cancel, Reduce, Look
<1>2. MovesTo(a, place)
  BY <1>1 DEF Act, MovesTo, RecordInv, Typed
<1>3. UNCHANGED <<remote, pay, deleted, tx, lost, failures>> /\ pc[a] \in Idle
  BY <1>1 DEF Act, order, payment, snapp, Idle
<1>4. place = "cancel" => Kept'
  BY <1>1, <1>3 DEF RecordInv, Recorded, Kept
<1> QED BY <1>2, <1>3, <1>4, IdleRecords DEF Idle, Kept

LEMMA ReconcileStatusRecords ==
    ASSUME RecordInv, IInv', NEW a \in Procs, ReconcileStatus(a)
    PROVE  RecordInv'
<1>1. PICK s \in Codes :
        \/ End(a) \/ Fails(a, s) \/ \E place \in {"verify", "settleOnce", "finalize"} : Goto(a, place)
        \/ pc' = [pc EXCEPT ![a] = "write"] /\ UNCHANGED attempt
  <2>1. PICK s \in Codes :
          CASE s = NoAnswer -> End(a)
            [] s # NoAnswer /\ seen[a] = "PAID" ->
                 /\ pc' = [pc EXCEPT ![a] = "write"]
                 /\ seen' = [seen EXCEPT ![a] = s] /\ UNCHANGED <<attempt, target>>
            [] s = "PENDING" /\ seen[a] # "PAID" -> Goto(a, "verify")
            [] s = "VERIFY" /\ seen[a] # "PAID" -> Goto(a, "settleOnce")
            [] s = "SETTLE" /\ seen[a] # "PAID" -> Goto(a, "finalize")
            [] OTHER -> Fails(a, s)
    BY DEF ReconcileStatus
  <2> QED BY <2>1 DEF NoAnswer
<1>2. \E place \in {"idle", "done", "fail", "verify", "settleOnce", "finalize", "write"} : MovesTo(a, place)
  BY <1>1, EndPlace, FailsPlace, GotoPlace DEF MovesTo, RecordInv, Typed
<1>3. UNCHANGED <<remote, pay, deleted, tx, failures>> /\ lost' \in {lost, lost + 1} /\ pc[a] \in Idle
  BY DEF ReconcileStatus, order, payment, snapp, Answer, Answered, Unanswered, Idle
<1> QED BY <1>2, <1>3, IdleRecords DEF Idle, Kept

LEMMA AdminWorksRecords ==
    ASSUME RecordInv, IInv', NEW a \in Procs,
           \/ ViewStatus(a) \/ WriteStatus(a) \/ CancelWrite(a)
           \/ RemoteReduce(a) \/ ReduceWrite(a)
    PROVE  RecordInv'
<1>1. \E place \in {"idle", "done", "write", "reduceWrite"} : MovesTo(a, place)
  <2>1. CASE ViewStatus(a)
    <3>1. End(a) \/ (pc' = [pc EXCEPT ![a] = "write"] /\ UNCHANGED attempt)
      BY <2>1 DEF ViewStatus
    <3> QED BY <3>1, EndPlace DEF MovesTo, RecordInv, Typed
  <2>2. CASE WriteStatus(a) \/ CancelWrite(a) \/ ReduceWrite(a)
    BY <2>2, EndPlace DEF WriteStatus, CancelWrite, ReduceWrite
  <2>3. CASE RemoteReduce(a)
    BY <2>3, EndPlace, GotoPlace DEF RemoteReduce
  <2> QED BY <2>1, <2>2, <2>3
<1>2. UNCHANGED <<remote, pay, deleted, tx, failures>> /\ lost' \in {lost, lost + 1} /\ pc[a] \in Idle
  BY DEF ViewStatus, WriteStatus, CancelWrite, RemoteReduce, ReduceWrite, order, payment, snapp, bounds,
         Answer, Answered, Unanswered, Idle
<1> QED BY <1>1, <1>2, IdleRecords DEF Idle, Kept

LEMMA RemoteCancelRecords ==
    ASSUME RecordInv, IInv', NEW a \in Procs, RemoteCancel(a)
    PROVE  RecordInv'
<1>1. \E place \in {"cancelWrite", "idle", "done"} : MovesTo(a, place)
  BY EndPlace, GotoPlace DEF RemoteCancel
<1>2. UNCHANGED <<pay, deleted, tx, failures>> /\ lost' \in {lost, lost + 1} /\ pc[a] \in Idle
  BY DEF RemoteCancel, order, payment, Answered, Unanswered, Idle
<1>3. UNCHANGED remote \/ (remote = "SETTLE" /\ remote' = "CANCEL")
  BY DEF RemoteCancel
<1>4. Kept'
  BY <1>2 DEF RemoteCancel, RecordInv, Recorded, Kept
<1> QED BY <1>1, <1>2, <1>3, <1>4, IdleRecords DEF Idle

--------------------------------------------------------------------------------
(* Requests that verify and settle.                                        *)

LEMMA VerifyRecords ==
    ASSUME RecordInv, IInv', NEW p \in Procs, Verify(p)
    PROVE  RecordInv'
<1>1. PICK place \in {"settle", "verifyStatus"} :
        /\ MovesTo(p, place)
        /\ UNCHANGED remote \/ (remote = "PENDING" /\ remote' = "VERIFY")
        /\ place = "settle" => attempt'[p] = 0 /\ remote' = "VERIFY"
        /\ remote' = remote \/ place = "settle" \/ lost' = lost + 1
  <2>1. attempt \in [Procs -> 0..2] /\ lost \in Nat
    BY DEF RecordInv, Typed
  <2>2. CASE /\ remote = "PENDING" /\ remote' = "VERIFY" /\ pc' = [pc EXCEPT ![p] = "settle"]
             /\ attempt' = [attempt EXCEPT ![p] = 0]
    <3>1. MovesTo(p, "settle") /\ attempt'[p] = 0
      BY <2>1, <2>2 DEF MovesTo
    <3> QED BY <2>2, <3>1
  <2>3. CASE /\ pc' = [pc EXCEPT ![p] = "verifyStatus"] /\ attempt' = attempt
             /\ UNCHANGED remote \/ (remote = "PENDING" /\ remote' = "VERIFY" /\ lost' = lost + 1)
    <3>1. MovesTo(p, "verifyStatus")
      BY <2>1, <2>3 DEF MovesTo
    <3> QED BY <2>3, <3>1
  <2> QED BY <2>2, <2>3 DEF Verify, Unanswered
<1>2. /\ UNCHANGED <<pay, deleted, tx, failures>> /\ lost' \in {lost, lost + 1}
      /\ pc[p] = "verify" /\ lost \in Nat
  BY DEF Verify, order, payment, Answered, Unanswered, RecordInv, Typed
<1>3. pc'[p] = place /\ \A q \in Procs \ {p} : pc'[q] = pc[q] /\ attempt'[q] = attempt[q]
  BY <1>1, Places
<1>4. OnlyMoves(p) /\ RemoteGoesOn
  BY <1>1, <1>2, <1>3 DEF OnlyMoves, MovesTo, RemoteGoesOn
<1>5. HandsOver(p)
  BY <1>1, <1>2, <1>3 DEF HandsOver, HasVerified, HasSettled, Settling
<1>6. Recorded'
  BY <1>1, <1>2, <1>3 DEF RecordInv, Recorded, Kept
<1>7. RoundsWereLost(p)'
  BY <1>1, <1>2, <1>3 DEF RoundsWereLost, Settling
<1> QED BY <1>2, <1>4, <1>5, <1>6, <1>7, ProcRecords DEF Kept

LEMMA VerifyStatusRecords ==
    ASSUME RecordInv, IInv', NEW p \in Procs, VerifyStatus(p)
    PROVE  RecordInv'
<1>1. PICK place \in {"settle", "verify", "idle", "done", "caught"} :
        /\ MovesTo(p, place)
        /\ place = "settle" => attempt'[p] = 0 /\ remote \in {"VERIFY", "SETTLE"}
        /\ place = "settle" \/ remote \notin {"VERIFY", "SETTLE"} \/ lost' = lost + 1
  <2>1. PICK a \in Codes :
          /\ Answer(a)
          /\ \/ /\ a \in {"VERIFY", "SETTLE"} /\ pc' = [pc EXCEPT ![p] = "settle"]
                /\ attempt' = [attempt EXCEPT ![p] = 0]
             \/ /\ a \notin {"VERIFY", "SETTLE"} /\ attempt[p] < 2 /\ pc' = [pc EXCEPT ![p] = "verify"]
                /\ attempt' = [attempt EXCEPT ![p] = @ + 1]
             \/ a \notin {"VERIFY", "SETTLE"} /\ Throw(p)
    BY DEF VerifyStatus
  <2>2. attempt \in [Procs -> 0..2] /\ remote \in RemoteStates
    BY DEF RecordInv, Typed
  <2>3. a = remote \/ (a = NoAnswer /\ lost' = lost + 1)
    BY <2>1 DEF Answer, Unanswered
  <2>4. NoAnswer \notin {"VERIFY", "SETTLE"}
    BY DEF NoAnswer
  <2>5. CASE a \in {"VERIFY", "SETTLE"}
    <3>1. MovesTo(p, "settle") /\ attempt'[p] = 0
      BY <2>1, <2>2, <2>5 DEF MovesTo
    <3> QED BY <2>3, <2>4, <2>5, <3>1
  <2>6. CASE a \notin {"VERIFY", "SETTLE"}
    <3>1. \E place \in {"verify", "idle", "done", "caught"} : MovesTo(p, place)
      BY <2>1, <2>2, <2>6, ThrowPlace DEF MovesTo
    <3> QED BY <2>3, <2>6, <3>1
  <2> QED BY <2>5, <2>6
<1>2. /\ UNCHANGED <<remote, pay, deleted, tx, failures>> /\ lost' \in {lost, lost + 1}
      /\ pc[p] = "verifyStatus" /\ lost \in Nat
  BY DEF VerifyStatus, order, payment, snapp, Answer, Answered, Unanswered, RecordInv, Typed
<1>3. pc'[p] = place /\ \A q \in Procs \ {p} : pc'[q] = pc[q] /\ attempt'[q] = attempt[q]
  BY <1>1, Places
<1>4. OnlyMoves(p) /\ RemoteGoesOn
  BY <1>1, <1>2, <1>3 DEF OnlyMoves, MovesTo, RemoteGoesOn
<1>5. HandsOver(p)
  BY <1>1, <1>2, <1>3 DEF HandsOver, HasVerified, HasSettled, Settling
<1>6. Recorded'
  BY <1>1, <1>2, <1>3 DEF RecordInv, Recorded, Kept
<1>7. RoundsWereLost(p)'
  BY <1>1, <1>2, <1>3 DEF RoundsWereLost, Settling
<1> QED BY <1>2, <1>4, <1>5, <1>6, <1>7, ProcRecords DEF Kept

LEMMA SettleRecords ==
    ASSUME RecordInv, IInv', NEW p \in Procs, Settle(p)
    PROVE  RecordInv'
<1>1. PICK place \in {"finalize", "settleStatus"} :
        /\ MovesTo(p, place) /\ attempt' = attempt
        /\ \/ remote = "VERIFY" /\ remote' = "SETTLE"
           \/ UNCHANGED remote /\ place = "settleStatus" /\ (remote = "VERIFY" => lost' = lost + 1)
  BY GotoPlace DEF Settle, Unanswered
<1>2. /\ UNCHANGED <<pay, deleted, tx, failures>> /\ lost' \in {lost, lost + 1}
      /\ pc[p] = "settle" /\ lost \in Nat /\ attempt[p] \in 0..2 /\ remote \in RemoteStates
  BY DEF Settle, order, payment, Answered, Unanswered, RecordInv, Typed
<1>3. pc'[p] = place /\ \A q \in Procs \ {p} : pc'[q] = pc[q] /\ attempt'[q] = attempt[q]
  BY <1>1, Places
<1>4. OnlyMoves(p) /\ RemoteGoesOn
  BY <1>1, <1>2, <1>3 DEF OnlyMoves, MovesTo, RemoteGoesOn
<1>5. HandsOver(p)
  BY <1>1, <1>2, <1>3 DEF HandsOver, HasVerified, HasSettled, Settling
<1>6. Recorded'
  BY <1>1, <1>2, <1>3 DEF RecordInv, Recorded, Kept
<1>7. RoundsWereLost(p)'
  <2>1. RoundsWereLost(p)
    BY DEF RecordInv
  <2> QED BY <1>1, <1>2, <1>3, <2>1 DEF RoundsWereLost, Settling
<1> QED BY <1>2, <1>4, <1>5, <1>6, <1>7, ProcRecords DEF Kept

LEMMA SettleStatusRecords ==
    ASSUME RecordInv, IInv', NEW p \in Procs, SettleStatus(p)
    PROVE  RecordInv'
<1>1. PICK a \in Codes :
        /\ Answer(a)
        /\ \/ a = "SETTLE" /\ Goto(p, "finalize")
           \/ /\ a # "SETTLE" /\ attempt[p] < 2 /\ pc' = [pc EXCEPT ![p] = "settle"]
              /\ attempt' = [attempt EXCEPT ![p] = @ + 1]
           \/ a # "SETTLE" /\ ~(attempt[p] < 2) /\ Throw(p)
  BY DEF SettleStatus, SettledAnswers
<1>2. /\ UNCHANGED <<remote, pay, deleted, tx, failures>> /\ lost' \in {lost, lost + 1}
      /\ pc[p] = "settleStatus" /\ lost \in Nat /\ attempt \in [Procs -> 0..2] /\ remote \in RemoteStates
      /\ RoundsWereLost(p)
  BY DEF SettleStatus, order, payment, snapp, Answer, Answered, Unanswered, RecordInv, Typed
<1>3. a # "SETTLE" /\ remote = "SETTLE" => lost' = lost + 1
  BY <1>1 DEF Answer, Unanswered
<1>4. PICK place \in {"finalize", "settle", "idle", "done", "caught"} :
        /\ MovesTo(p, place)
        /\ place = "settle" => attempt'[p] = attempt[p] + 1 /\ a # "SETTLE"
        /\ place \in {"idle", "done", "caught"} => attempt[p] = 2 /\ a # "SETTLE"
  <2>1. CASE a = "SETTLE" /\ Goto(p, "finalize")
    BY <2>1, GotoPlace
  <2>2. CASE /\ a # "SETTLE" /\ attempt[p] < 2 /\ pc' = [pc EXCEPT ![p] = "settle"]
             /\ attempt' = [attempt EXCEPT ![p] = @ + 1]
    <3>1. MovesTo(p, "settle") /\ attempt'[p] = attempt[p] + 1
      BY <1>2, <2>2 DEF MovesTo
    <3> QED BY <2>2, <3>1
  <2>3. CASE a # "SETTLE" /\ ~(attempt[p] < 2) /\ Throw(p)
    <3>1. attempt[p] = 2
      BY <1>2, <2>3
    <3>2. PICK place \in {"idle", "done", "caught"} : MovesTo(p, place)
      BY <2>3, ThrowPlace
    <3> QED BY <2>3, <3>1, <3>2
  <2> QED BY <1>1, <2>1, <2>2, <2>3
<1>5. pc'[p] = place /\ \A q \in Procs \ {p} : pc'[q] = pc[q] /\ attempt'[q] = attempt[q]
  BY <1>4, Places
<1>6. OnlyMoves(p) /\ RemoteGoesOn
  BY <1>2, <1>4, <1>5 DEF OnlyMoves, MovesTo, RemoteGoesOn
<1>7. RoundsWereLost(p)'
  BY <1>2, <1>3, <1>4, <1>5 DEF RoundsWereLost, Settling
<1>8. HandsOver(p)
  <2>1. remote = "VERIFY" => place # "finalize"
    BY <1>1, <1>2, <1>4, <1>5 DEF IInv, ProcSound, Settled
  <2>2. CASE place \in {"finalize", "settle"}
    BY <1>2, <1>5, <2>1, <2>2 DEF HandsOver, HasVerified, HasSettled, Settling
  <2>3. CASE place \in {"idle", "done", "caught"}
    BY <1>2, <1>3, <1>4, <2>3 DEF HandsOver, RoundsWereLost
  <2> QED BY <2>2, <2>3
<1>9. Recorded'
  BY <1>2, <1>4, <1>5 DEF RecordInv, Recorded, Kept
<1> QED BY <1>2, <1>6, <1>7, <1>8, <1>9, ProcRecords DEF Kept

(* An administrator settles once: a lost answer ends it.                   *)
LEMMA SettleOnceRecords ==
    ASSUME RecordInv, IInv', NEW a \in Procs, SettleOnce(a)
    PROVE  RecordInv'
<1>1. PICK place \in {"finalize", "idle", "done"} :
        /\ MovesTo(a, place)
        /\ \/ remote = "VERIFY" /\ remote' = "SETTLE" /\ (place = "finalize" \/ lost' = lost + 1)
           \/ UNCHANGED remote
  BY GotoPlace, EndPlace DEF SettleOnce, Unanswered
<1>2. /\ UNCHANGED <<pay, deleted, tx, failures>> /\ lost' \in {lost, lost + 1}
      /\ pc[a] = "settleOnce"
  BY DEF SettleOnce, order, payment, Answered, Unanswered
<1>3. pc'[a] = place /\ \A q \in Procs \ {a} : pc'[q] = pc[q] /\ attempt'[q] = attempt[q]
  BY <1>1, Places
<1>4. OnlyMoves(a) /\ RemoteGoesOn
  BY <1>1, <1>2, <1>3 DEF OnlyMoves, MovesTo, RemoteGoesOn
<1>5. HandsOver(a)
  BY <1>1, <1>2, <1>3 DEF HandsOver, HasVerified, HasSettled, Settling
<1>6. Recorded'
  BY <1>1, <1>2, <1>3 DEF RecordInv, Recorded, Kept
<1>7. RoundsWereLost(a)'
  BY <1>3 DEF RoundsWereLost, Settling
<1> QED BY <1>2, <1>4, <1>5, <1>6, <1>7, ProcRecords DEF Kept

(* The order is marked paid, unless it is already or was deleted.          *)
LEMMA FinalizeRecords ==
    ASSUME RecordInv, IInv', NEW p \in Procs, Finalize(p)
    PROVE  RecordInv'
<1>1. PICK place \in {"idle", "done"} : MovesTo(p, place)
  BY EndPlace DEF Finalize
<1>2. pc'[p] = place /\ \A q \in Procs \ {p} : pc'[q] = pc[q] /\ attempt'[q] = attempt[q]
  BY <1>1, Places
<1>3. UNCHANGED <<remote, deleted, lost, failures>> /\ remote \in {"SETTLE", "CANCEL"}
  BY DEF Finalize, snapp, bounds, RecordInv, IInv, ProcSound, Settled
<1>4. Kept'
  <2>1. CASE Known
    BY <2>1 DEF Known, Finalize, RecordInv, Recorded, Kept
  <2>2. CASE ~Known /\ Revived
    BY <2>2 DEF Finalize, Kept
  <2>3. CASE ~Known /\ ~Revived
    BY <2>3, <1>3 DEF Revived, Kept
  <2> QED BY <2>1, <2>2, <2>3
<1>5. OnlyMoves(p) /\ RemoteGoesOn
  BY <1>1, <1>2, <1>3 DEF OnlyMoves, MovesTo, RemoteGoesOn
<1>6. HandsOver(p) /\ Recorded'
  BY <1>3, <1>4 DEF HandsOver, Recorded
<1>7. RoundsWereLost(p)'
  BY <1>2 DEF RoundsWereLost, Settling
<1> QED BY <1>4, <1>5, <1>6, <1>7, ProcRecords

LEMMA FailRecords ==
    ASSUME RecordInv, IInv', NEW p \in Procs, Fail(p)
    PROVE  RecordInv'
<1>1. PICK place \in {"idle", "done"} : MovesTo(p, place)
  BY EndPlace DEF Fail
<1>2. pc'[p] = place /\ \A q \in Procs \ {p} : pc'[q] = pc[q] /\ attempt'[q] = attempt[q]
  BY <1>1, Places
<1>3. /\ UNCHANGED <<remote, pay, deleted, tx, lost>> /\ failures' = failures + 1
      /\ failures \in Nat
  BY DEF Fail, order, payment, snapp, RecordInv, Typed
<1>4. Typed'
  BY <1>1, <1>3 DEF RecordInv, Typed, MovesTo
<1>5. Recorded' /\ \A q \in Procs : RoundsWereLost(q)'
  BY <1>2, <1>3 DEF RecordInv, Recorded, Kept, RoundsWereLost, Settling
<1>6. failures' # 0
  BY <1>3
<1> QED BY <1>4, <1>5, <1>6 DEF RecordInv

LEMMA RecordInitially == Init => RecordInv
<1> SUFFICES ASSUME Init PROVE RecordInv
  OBVIOUS
<1>1. Typed /\ Recorded /\ InHand /\ \A p \in Procs : RoundsWereLost(p)
  BY DEF Init, Typed, RemoteStates, Recorded, InHand, RoundsWereLost, Settling
<1> QED BY <1>1, InitSound DEF RecordInv

LEMMA RecordInductive == RecordInv /\ [Next]_vars => RecordInv'
<1> SUFFICES ASSUME RecordInv, [Next]_vars PROVE RecordInv'
  OBVIOUS
<1>1. IInv'
  BY StepSound DEF RecordInv
<1>2. CASE \/ RequestToken \/ StoreAuthority \/ CheckoutDies \/ Authorise \/ Revert \/ Expire
           \/ OrderStep \/ UNCHANGED vars
  <2>1. /\ UNCHANGED <<pc, attempt, lost, pay, tx>>
        /\ failures' = failures \/ failures' = failures + 1
        /\ deleted => deleted'
        /\ \/ UNCHANGED remote
           \/ shop = "placed" /\ remote' = "PENDING"
           \/ remote' = "REVERT"
    <3>1. CASE OrderStep
      <4>1. UNCHANGED <<pc, attempt, lost, pay, tx, failures, remote>>
        BY <3>1, OrderStepsLeave
      <4>2. deleted => deleted'
        <5>1. deleted' = deleted \/ deleted' = TRUE
          BY <3>1, OrderStepsLeave
        <5> QED BY <5>1
      <4> QED BY <4>1, <4>2
    <3> QED BY <1>2, <3>1 DEF RequestToken, StoreAuthority, CheckoutDies, Authorise, Revert, Expire, vars,
                              order, payment, snapp, procs, bounds
  <2>2. shop = "placed" => remote = "none"
    BY DEF RecordInv, IInv, NotYetAsked
  <2> QED BY <1>1, <2>1, <2>2, WorldRecords DEF Kept
<1>3. CASE TokenRefused \/ Sweep
  BY <1>1, <1>3, ReleaseKeeps, WorldRecords DEF TokenRefused, Sweep, snapp, procs, bounds
<1>4. ASSUME NEW p \in Procs, AtSnapp(p) \/ FailAttempt(p) \/ Finalize(p) \/ Fail(p) PROVE RecordInv'
  BY <1>1, <1>4, VerifyRecords, VerifyStatusRecords, SettleRecords, SettleStatusRecords,
     FailAttemptRecords, FinalizeRecords, FailRecords DEF AtSnapp
<1>5. ASSUME NEW c \in Callbacks, CallbackStep(c) \/ \E ok \in BOOLEAN : Post(c, ok) PROVE RecordInv'
  <2>1. c \in Procs
    BY DEF Procs
  <2> QED BY <1>1, <1>4, <1>5, <2>1, AskStateRecords, CaughtRecords, PostRecords DEF CallbackStep
<1>6. ASSUME NEW a \in Admins,
             \/ AdminStep(a) \/ Reconcile(a) \/ View(a) \/ Cancel(a)
             \/ \E q \in [Lines -> 0..MaxQuantity] : Reduce(a, q)
      PROVE  RecordInv'
  <2>1. a \in Procs
    BY DEF Procs
  <2>2. CASE AdminStep(a)
    BY <1>1, <1>4, <2>1, <2>2, ReconcileStatusRecords, SettleOnceRecords, AdminWorksRecords,
       RemoteCancelRecords DEF AdminStep
  <2> QED BY <1>1, <1>6, <2>1, <2>2, AdminBeginsRecords
<1> QED BY <1>2, <1>3, <1>4, <1>5, <1>6 DEF Next

(* When all requests are through and at most two answers were lost,        *)
(* settled money is recorded, or its order was deleted: for any numbers of *)
(* posts and of administrators who reconcile at the same time, and         *)
(* whatever is released in between (verifyAndSettle, reconcile).           *)
THEOREM SettledAlwaysRecorded == Spec => []SettledIsRecorded
<1>1. ASSUME RecordInv, Quiet, failures = 0, lost <= 2, remote \in {"SETTLE", "CANCEL"}
      PROVE  Kept
  <2>1. lost \in Nat /\ \A p \in Procs : ~HasSettled(p)
    BY <1>1 DEF RecordInv, Typed, Quiet, HasSettled, Settling
  <2>2. CASE remote = "SETTLE"
    BY <1>1, <2>1, <2>2 DEF RecordInv, InHand
  <2>3. CASE remote = "CANCEL"
    BY <1>1, <2>3 DEF RecordInv, Recorded
  <2> QED BY <1>1, <2>2, <2>3
<1>2. RecordInv => SettledIsRecorded
  BY <1>1 DEF SettledIsRecorded, Kept
<1> QED BY <1>2, RecordInitially, RecordInductive, PTL DEF Spec

--------------------------------------------------------------------------------
(* Types, and the books of shop and Snapp, which agree with one            *)
(* administrator at work at a time while nobody edits the order.           *)

OneAdmin == \A a, b \in Admins : a = b

Quantities == [Lines -> 0..MaxQuantity]
Plans == [qty : Quantities, edited : SUBSET Lines, due : Nat \ {0}, asked : Int]

(* The part of the type invariant that no amount enters.                   *)
StateTypes ==
    /\ pay \in {"PENDING", "PAID", "FAILED"}
    /\ status \in Statuses
    /\ tx \in {"INITIATED", "PAID", "FAILED"}
    /\ gw \in Codes \cup {"NULL", "CALLBACK_RECEIVED"}
    /\ remote \in RemoteStates
    /\ shop \in {"placed", "asked", "sent", "ended"}
    /\ claimed \subseteq Callbacks
FlagTypes ==
    /\ deleted \in BOOLEAN /\ token \in BOOLEAN /\ expired \in BOOLEAN
    /\ authorised \in BOOLEAN /\ restated \in BOOLEAN
ProcTypes ==
    /\ pc \in [Procs -> PCs] /\ attempt \in [Procs -> 0..2]
    /\ seen \in [Procs -> Codes \cup {"NULL", "CALLBACK_RECEIVED", "PAID", "FAILED", "INITIATED"}]
CountTypes ==
    hooks \in Nat /\ lost \in 0..MaxLost /\ failures \in 0..MaxFailures /\ acts \in 0..MaxActs
ControlTypes == StateTypes /\ FlagTypes /\ ProcTypes /\ CountTypes

Calm == failures = 0 /\ lost = 0

(* Nothing but one administrator's reductions has changed the amounts.     *)
Alone == OneAdmin /\ ~amended

AmountTypes ==
    /\ qty \in Quantities /\ amended \in BOOLEAN
    /\ total \in Nat /\ off \in Nat /\ extras \in Nat /\ payable \in Nat /\ charged \in Nat
    /\ target \in [Procs -> Plans]

Net(q) == Subtotal(q) + Extras - Off - FromWallet

(* What Snapp is asked for at checkout is what the order was placed with.  *)
Untouched ==
    remote = "none" => qty = Bought /\ payable = Price /\ off = Off /\ extras = Extras
AmountsNet ==
    Alone => payable = Net(qty) /\ off = Off /\ extras = Extras
Amounts == AmountTypes /\ Untouched /\ AmountsNet

(* A reduction under way was computed from the order as it still is, and   *)
(* Snapp has it before the shop; who cancels has a recorded purchase.      *)
AtBooks(p) ==
    /\ pc[p] \in {"cancel", "cancelWrite"} => tx = "PAID"
    /\ pc[p] \in {"reduce", "reduceWrite"} => p \in Admins
    /\ pc[p] = "reduceWrite" => Settled
    /\ Alone => target[p].due = Net(target[p].qty) /\ target[p].asked = target[p].due
    /\ Alone /\ pc[p] \in {"reduce", "reduceWrite"} =>
        target[p].edited = {l \in Lines : target[p].qty[l] # qty[l]}
    /\ Alone /\ Calm /\ pc[p] = "reduceWrite" => charged = target[p].due

Cancelled ==
    /\ remote = "CANCEL" => tx = "PAID"
    /\ Calm /\ remote = "CANCEL" =>
        status = "CANCELED" \/ restated \/ \E p \in Procs : pc[p] = "cancelWrite"

ChargedRight ==
    Alone /\ Calm /\ remote # "none" => charged = payable \/ \E p \in Procs : pc[p] = "reduceWrite"

BookInv ==
    /\ IInv /\ ControlTypes /\ Amounts /\ \A p \in Procs : AtBooks(p)
    /\ Cancelled /\ ChargedRight

--------------------------------------------------------------------------------
(* Amounts.                                                                *)

LEMMA UnitsFinite ==
    ASSUME NEW f \in [Lines -> Nat]
    PROVE  IsFiniteSet(UnitsIn(f)) /\ Cardinality(UnitsIn(f)) \in Nat
<1>1. PICK T : T = {{x} \X (1..f[x]) : x \in Lines}
  OBVIOUS
<1>2. PICK g : g = [x \in Lines |-> {x} \X (1..f[x])]
  OBVIOUS
<1>3. g \in Surjection(Lines, T)
  BY <1>1, <1>2 DEF Surjection
<1>4. IsFiniteSet(T)
  BY <1>3, FS_Surjection, PriceAssumption
<1>5. \A u \in T : IsFiniteSet(u)
  <2> SUFFICES ASSUME NEW x \in Lines PROVE IsFiniteSet({x} \X (1..f[x]))
    BY <1>1
  <2>1. f[x] \in Int /\ 1 \in Int
    OBVIOUS
  <2>2. IsFiniteSet({x}) /\ IsFiniteSet(1..f[x])
    BY <2>1, FS_Singleton, FS_Interval
  <2> QED BY <2>2, FS_Product
<1>6. UnitsIn(f) = UNION T
  BY <1>1 DEF UnitsIn
<1> QED BY <1>4, <1>5, <1>6, FS_UNION, FS_CardinalityType

LEMMA SubtotalType ==
    ASSUME NEW q \in Quantities
    PROVE  Subtotal(q) \in Nat
<1>1. q \in [Lines -> Nat]
  BY PriceAssumption DEF Quantities
<1>2. PICK n : n = Cardinality(UnitsIn(q))
  OBVIOUS
<1>3. n \in Nat /\ UnitPrice \in Nat
  BY <1>1, <1>2, UnitsFinite, PriceAssumption
<1>4. n * UnitPrice \in Nat
  BY <1>3
<1> QED BY <1>2, <1>4 DEF Subtotal

LEMMA Larger ==
    ASSUME NEW n \in Int
    PROVE  /\ Max({0, n}) \in Nat
           /\ n >= 0 => Max({0, n}) = n
BY DEF Max

LEMMA Smaller ==
    ASSUME NEW m \in Int, NEW n \in Int
    PROVE  Min({m, n}) \in {m, n} /\ Min({m, n}) <= n
BY DEF Min

LEMMA PriceIsDue ==
    Price \in Nat \ {0} /\ Price = Net(Bought) /\ Bought \in Quantities
<1>1. Bought \in Quantities
  BY PriceAssumption DEF Bought, Quantities
<1>2. UnitsIn(Bought) = Lines \X (1..Quantity)
  BY DEF UnitsIn, Bought
<1>3. IsFiniteSet(1..Quantity) /\ Cardinality(1..Quantity) = Quantity
  BY PriceAssumption, FS_Interval
<1>4. Cardinality(Lines \X (1..Quantity)) = Cardinality(Lines) * Cardinality(1..Quantity)
  BY PriceAssumption, <1>3, FS_Product
<1>5. Subtotal(Bought) = Cardinality(Lines) * Quantity * UnitPrice
  BY <1>2, <1>3, <1>4 DEF Subtotal
<1>6. Subtotal(Bought) \in Nat
  BY <1>1, SubtotalType
<1> QED BY <1>1, <1>5, <1>6, PriceAssumption DEF Price, Net

LEMMA NetType ==
    ASSUME NEW q \in Quantities
    PROVE  Net(q) \in Int
BY SubtotalType, PriceAssumption DEF Net

LEMMA AskedType ==
    ASSUME NEW q \in Quantities, NEW o \in Nat, NEW x \in Nat, NEW due \in Int
    PROVE  AmountAsked(q, o, x, due) \in Int
<1>1. PICK cart : cart = Subtotal(q) + x
  OBVIOUS
<1>2. cart \in Int
  BY <1>1, SubtotalType
<1>3. cart - o - due \in Int
  BY <1>2
<1>4. PICK share : share = Max({0, cart - o - due})
  OBVIOUS
<1>5. share \in Nat
  BY <1>3, <1>4, Larger
<1> QED BY <1>1, <1>2, <1>4, <1>5 DEF AmountAsked

(* The wallet's share is all that lies between the cart and the amount due.*)
LEMMA AskedIsDue ==
    ASSUME NEW q \in Quantities, NEW due, due = Net(q)
    PROVE  AmountAsked(q, Off, Extras, due) = due
<1>1. PICK cart : cart = Subtotal(q) + Extras
  OBVIOUS
<1>2. cart \in Int /\ cart - Off - due = FromWallet /\ FromWallet \in Nat /\ Off \in Nat
  BY <1>1, SubtotalType, PriceAssumption DEF Net
<1>3. Max({0, FromWallet}) = FromWallet
  BY <1>2, Larger
<1>4. AmountAsked(q, Off, Extras, due) = cart - Off - Max({0, cart - Off - due})
  BY <1>1 DEF AmountAsked
<1>5. cart - Off - FromWallet = due
  BY <1>1, <1>2, SubtotalType DEF Net
<1> QED BY <1>2, <1>3, <1>4, <1>5

LEMMA PlanIsNet ==
    ASSUME Amounts, NEW q \in Quantities, Reducible(q)
    PROVE  /\ Reduction(q) \in Plans /\ Reduction(q).qty = q
           /\ Reduction(q).edited = {l \in Lines : q[l] # qty[l]}
           /\ Alone => Reduction(q).due = Net(q) /\ Reduction(q).asked = Reduction(q).due
<1>1. Subtotal(q) \in Nat /\ Subtotal(qty) \in Nat
  BY SubtotalType DEF Amounts, AmountTypes
<1>2. PICK due : due = payable - (Subtotal(qty) - Subtotal(q))
  OBVIOUS
<1>3. due \in Int
  BY <1>1, <1>2 DEF Amounts, AmountTypes
<1>4. due > 0
  BY <1>2 DEF Reducible, Reduction
<1>5. PICK asked : asked = AmountAsked(q, off, extras, due)
  OBVIOUS
<1>6. asked \in Int
  BY <1>3, <1>5, AskedType DEF Amounts, AmountTypes
<1>7. Reduction(q) = [qty |-> q, edited |-> {l \in Lines : q[l] # qty[l]}, due |-> due, asked |-> asked]
  BY <1>2, <1>5 DEF Reduction
<1>8. ASSUME Alone PROVE due = Net(q) /\ asked = due
  <2>1. payable = Net(qty) /\ off = Off /\ extras = Extras
    BY <1>8 DEF Amounts, AmountsNet
  <2>2. due = Net(q)
    BY <1>1, <1>2, <2>1, PriceAssumption DEF Net
  <2> QED BY <1>5, <2>1, <2>2, AskedIsDue
<1>9. due \in Nat \ {0}
  BY <1>3, <1>4
<1> QED BY <1>6, <1>7, <1>8, <1>9 DEF Plans

LEMMA WholePlan == Whole \in Plans /\ Whole.due = Net(Whole.qty) /\ Whole.asked = Whole.due
BY PriceIsDue DEF Whole, Plans

(* The wallet never pays more than there is to pay.                        *)
LEMMA RecalcTyped ==
    ASSUME AmountTypes, NEW q \in Quantities, NEW o \in Nat, NEW x \in Nat, Recalc(q, o, x)
    PROVE  total' \in Nat /\ off' \in Nat /\ extras' \in Nat /\ payable' \in Nat
<1>1. PICK sum : sum = Subtotal(q)
  OBVIOUS
<1>2. sum \in Nat
  BY <1>1, SubtotalType
<1>3. PICK discount : discount = Min({o, sum})
  OBVIOUS
<1>4. discount \in Nat /\ discount <= sum
  BY <1>2, <1>3, Smaller
<1>5. PICK rest : rest = sum - discount + x
  OBVIOUS
<1>6. rest \in Nat
  BY <1>2, <1>4, <1>5
<1>7. total - off + extras - payable \in Int
  BY DEF AmountTypes
<1>8. PICK share : share = Share
  OBVIOUS
<1>9. share \in Nat
  BY <1>7, <1>8, Larger DEF Share
<1>10. PICK part : part = Min({share, rest})
  OBVIOUS
<1>11. part \in Nat /\ part <= rest
  BY <1>6, <1>9, <1>10, Smaller
<1>12. total' = sum /\ off' = discount /\ extras' = x /\ payable' = rest - part
  BY <1>1, <1>3, <1>5, <1>8, <1>10 DEF Recalc
<1> QED BY <1>2, <1>4, <1>6, <1>11, <1>12

--------------------------------------------------------------------------------
(* The control part of the type invariant.                                 *)

LEMMA ControlInitially ==
    ASSUME Init
    PROVE  ControlTypes
<1>1. StateTypes
  BY DEF Init, StateTypes, Statuses, Codes, RemoteStates
<1>2. FlagTypes
  BY DEF Init, FlagTypes
<1>3. ProcTypes
  <2>1. pc \in [Procs -> PCs] /\ attempt \in [Procs -> 0..2]
    BY DEF Init, PCs
  <2>2. NoAnswer \in Codes
    BY DEF Codes
  <2>3. seen \in [Procs -> Codes \cup {"NULL", "CALLBACK_RECEIVED", "PAID", "FAILED", "INITIATED"}]
    BY <2>2 DEF Init
  <2> QED BY <2>1, <2>3 DEF ProcTypes
<1>4. CountTypes
  BY ProcsAssumption DEF Init, CountTypes
<1> QED BY <1>1, <1>2, <1>3, <1>4 DEF ControlTypes

(* A request moves; what it sees is a status, or that there is no answer.  *)
Values == Codes \cup {"NULL", "CALLBACK_RECEIVED", "PAID", "FAILED", "INITIATED"}

LEMMA ProcsTyped ==
    ASSUME ProcTypes, NEW p \in Procs, NEW place \in PCs, NEW n \in 0..2, NEW value \in Values,
           pc' = [pc EXCEPT ![p] = place],
           attempt' = attempt \/ attempt' = [attempt EXCEPT ![p] = n],
           seen' = seen \/ seen' = [seen EXCEPT ![p] = value]
    PROVE  ProcTypes'
<1>1. pc' \in [Procs -> PCs]
  BY DEF ProcTypes
<1>2. attempt' \in [Procs -> 0..2]
  BY DEF ProcTypes
<1>3. seen' \in [Procs -> Values]
  BY DEF ProcTypes, Values
<1> QED BY <1>1, <1>2, <1>3 DEF ProcTypes, Values

LEMMA GotoTyped ==
    ASSUME ProcTypes, NEW p \in Procs, NEW place \in PCs, Goto(p, place)
    PROVE  ProcTypes'
<1>1. NoAnswer \in Values /\ 0 \in 0..2
  BY DEF Values, Codes
<1> QED BY <1>1, ProcsTyped DEF Goto

LEMMA EndTyped ==
    ASSUME ProcTypes, NEW p \in Procs, End(p)
    PROVE  ProcTypes'
<1>1. NoAnswer \in Values /\ 0 \in 0..2 /\ Rest(p) \in PCs
  BY DEF Values, Codes, Rest, PCs
<1> QED BY <1>1, ProcsTyped DEF End

LEMMA FailsTyped ==
    ASSUME ProcTypes, NEW p \in Procs, NEW code \in Codes, Fails(p, code)
    PROVE  ProcTypes'
<1>1. code \in Values /\ 0 \in 0..2 /\ "fail" \in PCs
  BY DEF Values, PCs
<1> QED BY <1>1, ProcsTyped DEF Fails

LEMMA ThrowTyped ==
    ASSUME ProcTypes, NEW p \in Procs, Throw(p)
    PROVE  ProcTypes'
<1>1. "caught" \in PCs
  BY DEF PCs
<1> QED BY <1>1, GotoTyped, EndTyped DEF Throw

LEMMA AnswerCounted ==
    ASSUME CountTypes, UNCHANGED <<hooks, failures, acts>>, Answered \/ Unanswered
    PROVE  CountTypes' /\ lost' >= lost
BY ProcsAssumption DEF CountTypes, Answered, Unanswered

LEMMA ReleaseTyped ==
    ASSUME StateTypes, FlagTypes, Released, UNCHANGED <<gw, remote, shop, claimed, token, expired, authorised>>
    PROVE  StateTypes' /\ FlagTypes'
<1>1. StateTypes'
  BY DEF StateTypes, Statuses, Released, order
<1>2. FlagTypes'
  BY DEF FlagTypes, Released, order
<1> QED BY <1>1, <1>2

LEMMA WorldTyped ==
    ASSUME ControlTypes,
           \/ RequestToken \/ TokenRefused \/ StoreAuthority \/ CheckoutDies
           \/ Authorise \/ Revert \/ Sweep \/ Expire \/ OrderStep
    PROVE  ControlTypes'
<1> USE DEF order, payment, snapp, procs, bounds, ControlTypes
<1>1. CASE TokenRefused \/ Sweep
  <2>1. ProcTypes' /\ CountTypes'
    BY <1>1 DEF TokenRefused, Sweep, ProcTypes, CountTypes
  <2>2. CASE TokenRefused
    <3>1. Released /\ UNCHANGED <<gw, remote, claimed, token, expired, authorised>> /\ shop' = "ended"
      BY <2>2 DEF TokenRefused
    <3>2. StateTypes'
      BY <3>1 DEF StateTypes, Statuses, Released
    <3>3. FlagTypes'
      BY <3>1 DEF FlagTypes, Released
    <3> QED BY <2>1, <3>2, <3>3
  <2>3. CASE Sweep
    BY <2>1, <2>3, ReleaseTyped DEF Sweep
  <2> QED BY <1>1, <2>2, <2>3
<1>2. CASE RequestToken \/ StoreAuthority \/ CheckoutDies \/ Authorise \/ Revert \/ Expire \/ OrderStep
  <2>1. UNCHANGED <<pc, attempt, seen>>
    BY <1>2, OrderStepsLeave DEF RequestToken, StoreAuthority, CheckoutDies, Authorise, Revert, Expire
  <2>2. ProcTypes'
    BY <2>1 DEF ProcTypes
  <2>3. /\ UNCHANGED <<hooks, lost>>
        /\ failures' = failures \/ (failures < MaxFailures /\ failures' = failures + 1)
        /\ acts' = acts \/ (acts < MaxActs /\ acts' = acts + 1)
    BY <1>2, OrderStepsLeave DEF RequestToken, StoreAuthority, CheckoutDies, Authorise, Revert, Expire
  <2>4. CountTypes'
    BY <2>3, ProcsAssumption DEF CountTypes
  <2>5. /\ UNCHANGED <<pay, tx, gw, claimed>> /\ status' \in Statuses \cup {status}
        /\ remote' \in {remote, "PENDING", "REVERT"} /\ shop' \in {shop, "asked", "sent", "ended"}
    BY <1>2, OrderStepsLeave DEF RequestToken, StoreAuthority, CheckoutDies, Authorise, Revert, Expire
  <2>6. StateTypes'
    BY <2>5 DEF StateTypes, RemoteStates
  <2>7. /\ deleted' = deleted \/ deleted' = TRUE
        /\ token' = token \/ token' = (tx = "INITIATED")
        /\ expired' = expired \/ expired' = TRUE
        /\ authorised' = authorised \/ authorised' = TRUE
        /\ restated' = restated \/ restated' = TRUE
    BY <1>2, OrderStepsLeave DEF RequestToken, StoreAuthority, CheckoutDies, Authorise, Revert, Expire
  <2>8. FlagTypes'
    BY <2>7 DEF FlagTypes
  <2> QED BY <2>2, <2>4, <2>6, <2>8
<1> QED BY <1>1, <1>2

(* The requests: where they go, and what they see there.                   *)
LEMMA CallbackTyped ==
    ASSUME ControlTypes, NEW c \in Procs,
           \/ c \in Callbacks /\ \E ok \in BOOLEAN : Post(c, ok)
           \/ AskState(c) \/ Caught(c)
    PROVE  ControlTypes'
<1> USE DEF order, payment, snapp, bounds, ControlTypes
<1>1. ProcTypes'
  <2>1. {"verify", "ask", "done", "finalize"} \subseteq PCs
    BY DEF PCs
  <2>2. ASSUME NEW ok \in BOOLEAN, Post(c, ok) PROVE ProcTypes'
    BY <2>1, <2>2, GotoTyped DEF Post
  <2>3. CASE AskState(c)
    BY <2>1, <2>3, GotoTyped, FailsTyped DEF AskState
  <2>4. CASE Caught(c)
    BY <2>1, <2>4, GotoTyped, FailsTyped, EndTyped DEF Caught
  <2> QED BY <2>2, <2>3, <2>4
<1>2. CountTypes'
  BY AnswerCounted DEF Post, AskState, Caught, Answer, Answered
<1>3. StateTypes'
  BY DEF Post, AskState, Caught, StateTypes, Codes, RemoteStates
<1>4. FlagTypes'
  BY DEF Post, AskState, Caught, FlagTypes
<1> QED BY <1>1, <1>2, <1>3, <1>4

LEMMA AtSnappTyped ==
    ASSUME ControlTypes, NEW p \in Procs, AtSnapp(p)
    PROVE  ControlTypes'
<1> USE DEF order, payment, snapp, bounds, ControlTypes
<1>1. ProcTypes'
  <2>1. /\ {"settle", "verifyStatus", "verify", "settleStatus", "finalize"} \subseteq PCs
        /\ NoAnswer \in Values /\ 0 \in 0..2
    BY DEF PCs, Values, Codes
  <2>2. attempt[p] < 2 => attempt[p] + 1 \in 0..2
    BY DEF ProcTypes
  <2>3. CASE Verify(p)
    BY <2>1, <2>3, ProcsTyped DEF Verify
  <2>4. CASE VerifyStatus(p)
    <3>1. \/ pc' = [pc EXCEPT ![p] = "settle"] /\ attempt' = [attempt EXCEPT ![p] = 0] /\ seen' = seen
          \/ /\ attempt[p] < 2 /\ pc' = [pc EXCEPT ![p] = "verify"] /\ seen' = seen
             /\ attempt' = [attempt EXCEPT ![p] = attempt[p] + 1]
          \/ Throw(p)
      BY <2>4 DEF VerifyStatus
    <3> QED BY <2>1, <2>2, <3>1, ProcsTyped, ThrowTyped
  <2>5. CASE Settle(p)
    BY <2>1, <2>5, GotoTyped DEF Settle
  <2>6. CASE SettleStatus(p)
    <3>1. \/ Goto(p, "finalize")
          \/ /\ attempt[p] < 2 /\ pc' = [pc EXCEPT ![p] = "settle"] /\ seen' = seen
             /\ attempt' = [attempt EXCEPT ![p] = attempt[p] + 1]
          \/ Throw(p)
      BY <2>6 DEF SettleStatus
    <3> QED BY <2>1, <2>2, <3>1, ProcsTyped, ThrowTyped, GotoTyped
  <2> QED BY <2>3, <2>4, <2>5, <2>6 DEF AtSnapp
<1>2. CountTypes'
  BY AnswerCounted DEF AtSnapp, Verify, VerifyStatus, Settle, SettleStatus, Answer
<1>3. StateTypes'
  <2>1. UNCHANGED <<pay, status, tx, gw, shop, claimed>> /\ remote' \in {remote, "VERIFY", "SETTLE"}
    BY DEF AtSnapp, Verify, VerifyStatus, Settle, SettleStatus
  <2> QED BY <2>1 DEF StateTypes, RemoteStates
<1>4. FlagTypes'
  BY DEF AtSnapp, Verify, VerifyStatus, Settle, SettleStatus, FlagTypes
<1> QED BY <1>1, <1>2, <1>3, <1>4

LEMMA EndsTyped ==
    ASSUME ControlTypes, NEW p \in Procs,
           FailAttempt(p) \/ Finalize(p) \/ WriteStatus(p) \/ CancelWrite(p) \/ ReduceWrite(p) \/ Fail(p),
           IInv
    PROVE  ControlTypes'
<1> USE DEF order, payment, snapp, bounds, ControlTypes
<1>1. ProcTypes'
  BY EndTyped DEF FailAttempt, Finalize, WriteStatus, CancelWrite, ReduceWrite, Fail
<1>2. CountTypes'
  <2>1. /\ hooks' \in {hooks, hooks + 1} /\ UNCHANGED <<lost, acts>>
        /\ failures' = failures \/ (failures < MaxFailures /\ failures' = failures + 1)
    BY DEF FailAttempt, Finalize, WriteStatus, CancelWrite, ReduceWrite, Fail
  <2> QED BY <2>1, ProcsAssumption DEF CountTypes
<1>3. StateTypes'
  <2>1. pc[p] \in {"write", "fail"} => seen[p] \in Codes
    BY DEF IInv, ProcSound
  <2>2. /\ UNCHANGED <<remote, shop, claimed>> /\ pay' \in {pay, "FAILED", "PAID"}
        /\ status' \in {status, "CANCELED", "PAID"} /\ tx' \in {tx, "FAILED", "PAID"}
        /\ gw' \in {gw, "SETTLE", "CANCEL"} \cup Codes
    BY <2>1 DEF FailAttempt, Released, Finalize, WriteStatus, CancelWrite, ReduceWrite, Fail
  <2> QED BY <2>2 DEF StateTypes, Statuses, Codes, RemoteStates
<1>4. FlagTypes'
  <2>1. UNCHANGED <<deleted, token, expired, authorised>> /\ restated' \in {restated, FALSE}
    BY DEF FailAttempt, Released, Finalize, WriteStatus, CancelWrite, ReduceWrite, Fail
  <2> QED BY <2>1 DEF FlagTypes
<1> QED BY <1>1, <1>2, <1>3, <1>4

LEMMA AdminTyped ==
    ASSUME ControlTypes, NEW a \in Procs,
           \/ ReconcileStatus(a) \/ SettleOnce(a) \/ ViewStatus(a) \/ RemoteCancel(a) \/ RemoteReduce(a)
           \/ Reconcile(a) \/ View(a) \/ Cancel(a)
           \/ \E q \in Quantities : Reduce(a, q)
    PROVE  ControlTypes'
<1> USE DEF order, payment, snapp, bounds, ControlTypes
<1>0. /\ {"verify", "settleOnce", "finalize", "write", "cancelWrite", "reduceWrite"} \subseteq PCs
      /\ Codes \subseteq Values /\ NoAnswer \in Values /\ 0 \in 0..2
  BY DEF PCs, Values, Codes
<1>1. ProcTypes'
  <2>1. CASE ReconcileStatus(a)
    <3>1. PICK s \in Codes :
            \/ End(a) \/ Fails(a, s) \/ \E place \in {"verify", "settleOnce", "finalize"} : Goto(a, place)
            \/ pc' = [pc EXCEPT ![a] = "write"] /\ attempt' = attempt /\ seen' = [seen EXCEPT ![a] = s]
      <4>1. PICK s \in Codes :
              CASE s = NoAnswer -> End(a)
                [] s # NoAnswer /\ seen[a] = "PAID" ->
                     /\ pc' = [pc EXCEPT ![a] = "write"]
                     /\ seen' = [seen EXCEPT ![a] = s] /\ UNCHANGED <<attempt, target>>
                [] s = "PENDING" /\ seen[a] # "PAID" -> Goto(a, "verify")
                [] s = "VERIFY" /\ seen[a] # "PAID" -> Goto(a, "settleOnce")
                [] s = "SETTLE" /\ seen[a] # "PAID" -> Goto(a, "finalize")
                [] OTHER -> Fails(a, s)
        BY <2>1 DEF ReconcileStatus
      <4> QED BY <4>1 DEF NoAnswer
    <3> QED BY <1>0, <3>1, EndTyped, FailsTyped, GotoTyped, ProcsTyped
  <2>2. CASE ViewStatus(a)
    <3>1. PICK s \in Codes :
            \/ End(a)
            \/ pc' = [pc EXCEPT ![a] = "write"] /\ attempt' = attempt /\ seen' = [seen EXCEPT ![a] = s]
      BY <2>2 DEF ViewStatus
    <3> QED BY <1>0, <3>1, EndTyped, ProcsTyped
  <2>3. CASE SettleOnce(a) \/ RemoteCancel(a) \/ RemoteReduce(a)
    BY <1>0, <2>3, GotoTyped, EndTyped DEF SettleOnce, RemoteCancel, RemoteReduce
  <2>4. CASE Reconcile(a) \/ View(a) \/ Cancel(a) \/ \E q \in Quantities : Reduce(a, q)
    <3>1. PICK place \in {"reconcile", "view", "cancel", "reduce"}, value \in {tx, gw} : Act(a, place, value)
      BY <2>4 DEF Reconcile, View, Cancel, Reduce, Look
    <3>2. place \in PCs /\ value \in Values
      BY <3>1 DEF PCs, Values, StateTypes
    <3> QED BY <1>0, <3>1, <3>2, ProcsTyped DEF Act
  <2> QED BY <2>1, <2>2, <2>3, <2>4
<1>2. CountTypes'
  <2>1. /\ hooks' = hooks /\ failures' = failures
        /\ lost' = lost \/ (lost < MaxLost /\ lost' = lost + 1)
        /\ acts' = acts \/ (acts < MaxActs /\ acts' = acts + 1)
    BY DEF ReconcileStatus, SettleOnce, ViewStatus, RemoteCancel, RemoteReduce, Reconcile, View, Cancel,
           Reduce, Look, Act, Answer, Answered, Unanswered
  <2> QED BY <2>1, ProcsAssumption DEF CountTypes
<1>3. StateTypes'
  <2>1. UNCHANGED <<pay, status, tx, gw, shop, claimed>> /\ remote' \in {remote, "SETTLE", "CANCEL"}
    BY DEF ReconcileStatus, SettleOnce, ViewStatus, RemoteCancel, RemoteReduce, Reconcile, View, Cancel,
           Reduce, Look, Act
  <2> QED BY <2>1 DEF StateTypes, RemoteStates
<1>4. FlagTypes'
  <2>1. UNCHANGED <<deleted, token, expired, authorised, restated>>
    BY DEF ReconcileStatus, SettleOnce, ViewStatus, RemoteCancel, RemoteReduce, Reconcile, View, Cancel,
           Reduce, Look, Act
  <2> QED BY <2>1 DEF FlagTypes
<1> QED BY <1>1, <1>2, <1>3, <1>4

--------------------------------------------------------------------------------
(* The amounts.                                                            *)

LEMMA BooksInitially ==
    ASSUME Init
    PROVE  BookInv
<1>1. Amounts
  <2>1. Bought \in Quantities /\ Subtotal(Bought) \in Nat /\ Price \in Nat /\ Price = Net(Bought)
    BY PriceIsDue, SubtotalType
  <2>2. AmountTypes
    BY <2>1, WholePlan, PriceAssumption DEF Init, AmountTypes
  <2> QED BY <2>1, <2>2 DEF Init, Amounts, Untouched, AmountsNet
<1>2. \A p \in Procs : AtBooks(p)
  BY WholePlan DEF Init, AtBooks
<1>3. Cancelled /\ ChargedRight
  BY DEF Init, Cancelled, ChargedRight
<1> QED BY <1>1, <1>2, <1>3, InitSound, ControlInitially DEF BookInv

CalmBefore == lost \in Nat /\ failures \in Nat /\ lost' \in Nat /\ failures' \in Nat
              /\ lost' >= lost /\ failures' >= failures

LEMMA CalmWas ==
    ASSUME CalmBefore, Calm'
    PROVE  Calm
BY DEF CalmBefore, Calm

AmountsLeft == UNCHANGED <<qty, total, off, extras, payable, amended>>
StatusLeft == status' = "CANCELED" \/ restated' \/ UNCHANGED <<status, restated>>
RemoteLeft ==
    /\ remote' = "none" => remote = "none"
    /\ remote = "none" => remote' = "none"
    /\ Settled => Settled'

(* What Snapp and the shop have is as it was, but for answers that were    *)
(* lost, processes that died and statuses that were set.                   *)
BooksLeft ==
    /\ AmountsLeft
    /\ charged' = charged \/ (~Calm' /\ charged' \in Nat)
    /\ tx = "PAID" => tx' = "PAID" /\ StatusLeft
    /\ RemoteLeft

LEMMA AmountsStay ==
    ASSUME Amounts, AmountsLeft, charged' \in Nat, remote' = "none" => remote = "none",
           target' \in [Procs -> Plans]
    PROVE  Amounts'
<1>1. AmountTypes'
  BY DEF Amounts, AmountTypes, AmountsLeft
<1>2. Untouched'
  BY DEF Amounts, Untouched, AmountsLeft
<1>3. AmountsNet'
  BY DEF Amounts, AmountsNet, AmountsLeft, Alone, Net, Subtotal
<1> QED BY <1>1, <1>2, <1>3 DEF Amounts

LEMMA WorldBooks ==
    ASSUME BookInv, IInv', ControlTypes', CalmBefore, BooksLeft, UNCHANGED <<pc, target>>,
           remote' = "CANCEL" => remote = "CANCEL"
    PROVE  BookInv'
<1>1. Amounts'
  <2>1. charged' \in Nat /\ target' \in [Procs -> Plans]
    BY DEF BookInv, BooksLeft, Amounts, AmountTypes
  <2> QED BY <2>1, AmountsStay DEF BookInv, BooksLeft, RemoteLeft
<1>2. ASSUME NEW p \in Procs PROVE AtBooks(p)'
  BY CalmWas DEF BookInv, BooksLeft, AmountsLeft, RemoteLeft, AtBooks, Alone, Net
<1>3. Cancelled'
  BY CalmWas DEF BookInv, BooksLeft, StatusLeft, Cancelled
<1>4. ChargedRight'
  BY CalmWas DEF BookInv, BooksLeft, AmountsLeft, RemoteLeft, Alone, ChargedRight
<1> QED BY <1>1, <1>2, <1>3, <1>4 DEF BookInv

(* Request p moves, and drops its plan or not.                             *)
Walks(p, place) ==
    /\ pc' = [pc EXCEPT ![p] = place]
    /\ target' = target \/ target' = [target EXCEPT ![p] = Whole]
    /\ place \notin {"reduce", "reduceWrite"}
    /\ place \in {"cancel", "cancelWrite"} => tx = "PAID"
    /\ pc[p] = "reduceWrite" => ~Calm'
    /\ pc[p] = "cancelWrite" => ~Calm' \/ status' = "CANCELED"
    /\ remote' = "CANCEL" => remote = "CANCEL" \/ (tx = "PAID" /\ (~Calm' \/ place = "cancelWrite"))

LEMMA WalkBooks ==
    ASSUME BookInv, IInv', ControlTypes', CalmBefore, BooksLeft, NEW p \in Procs, NEW place, Walks(p, place)
    PROVE  BookInv'
<1>1. /\ pc \in [Procs -> PCs] /\ target \in [Procs -> Plans]
      /\ pc'[p] = place /\ \A q \in Procs \ {p} : pc'[q] = pc[q]
  BY DEF BookInv, ControlTypes, ProcTypes, Amounts, AmountTypes, Walks
<1>2. /\ target' \in [Procs -> Plans] /\ target'[p] \in {target[p], Whole}
      /\ \A q \in Procs \ {p} : target'[q] = target[q]
  BY <1>1, WholePlan DEF Walks
<1>3. Amounts'
  <2>1. charged' \in Nat
    BY DEF BookInv, BooksLeft, Amounts, AmountTypes
  <2> QED BY <1>2, <2>1, AmountsStay DEF BookInv, BooksLeft, RemoteLeft
<1>4. ASSUME NEW q \in Procs PROVE AtBooks(q)'
  <2>1. AtBooks(q)
    BY DEF BookInv
  <2>2. CASE q = p
    BY <1>1, <1>2, <2>1, <2>2, WholePlan DEF Walks, BooksLeft, AmountsLeft, RemoteLeft, Alone, AtBooks
  <2>3. CASE q # p
    BY <1>1, <1>2, <2>1, <2>3, CalmWas DEF BooksLeft, AmountsLeft, RemoteLeft, Alone, AtBooks
  <2> QED BY <2>2, <2>3
<1>5. Cancelled'
  <2>1. remote' = "CANCEL" => tx' = "PAID"
    BY DEF BookInv, BooksLeft, Walks, Cancelled
  <2>2. ASSUME Calm', remote' = "CANCEL", remote # "CANCEL"
        PROVE  \E q \in Procs : pc'[q] = "cancelWrite"
    BY <1>1, <2>2 DEF Walks
  <2>3. ASSUME Calm', remote' = "CANCEL", remote = "CANCEL"
        PROVE  status' = "CANCELED" \/ restated' \/ \E q \in Procs : pc'[q] = "cancelWrite"
    <3>1. Calm /\ tx = "PAID"
      BY <2>3, CalmWas DEF BookInv, Cancelled
    <3>2. CASE status = "CANCELED" \/ restated
      BY <3>1, <3>2 DEF BooksLeft, StatusLeft
    <3>3. ASSUME NEW q \in Procs, pc[q] = "cancelWrite"
          PROVE  status' = "CANCELED" \/ \E r \in Procs : pc'[r] = "cancelWrite"
      BY <1>1, <2>3, <3>3 DEF Walks
    <3> QED BY <2>3, <3>1, <3>2, <3>3 DEF BookInv, Cancelled
  <2> QED BY <2>1, <2>2, <2>3 DEF Cancelled
<1>6. ChargedRight'
  <2>1. ASSUME Alone', Calm', remote' # "none"
        PROVE  charged' = payable' \/ \E q \in Procs : pc'[q] = "reduceWrite"
    <3>1. Alone /\ Calm /\ remote # "none" /\ UNCHANGED <<charged, payable>>
      BY <2>1, CalmWas DEF BooksLeft, AmountsLeft, RemoteLeft, Alone
    <3>2. ASSUME NEW q \in Procs, pc[q] = "reduceWrite" PROVE pc'[q] = "reduceWrite"
      BY <1>1, <2>1, <3>2 DEF Walks
    <3> QED BY <3>1, <3>2 DEF BookInv, ChargedRight
  <2> QED BY <2>1 DEF ChargedRight
<1> QED BY <1>3, <1>4, <1>5, <1>6 DEF BookInv

--------------------------------------------------------------------------------
(* The steps.                                                              *)

LEMMA CountsGrow ==
    ASSUME BookInv, lost' \in {lost, lost + 1}, failures' \in {failures, failures + 1}
    PROVE  CalmBefore
BY ProcsAssumption DEF BookInv, ControlTypes, CountTypes, CalmBefore

LEMMA RequestTokenBooks ==
    ASSUME BookInv, IInv', ControlTypes', RequestToken
    PROVE  BookInv'
<1>1. UNCHANGED <<pc, target, lost, failures, tx, status, restated>> /\ AmountsLeft /\ remote' = "PENDING"
  BY DEF RequestToken, AmountsLeft, order, amounts, payment, procs, bounds
<1>2. remote = "none"
  BY DEF RequestToken, BookInv, IInv, NotYetAsked
<1>3. charged' = payable
  <2>1. qty = Bought /\ payable = Price /\ off = Off /\ extras = Extras
    BY <1>2 DEF BookInv, Amounts, Untouched
  <2> QED BY <2>1, PriceIsDue, AskedIsDue DEF RequestToken
<1>4. Amounts'
  <2>1. charged' \in Nat /\ target' \in [Procs -> Plans]
    BY <1>1, <1>3 DEF BookInv, Amounts, AmountTypes
  <2> QED BY <1>1, <2>1, AmountsStay DEF BookInv
<1>5. ASSUME NEW p \in Procs PROVE AtBooks(p)'
  <2>1. AtBooks(p) /\ pc[p] # "reduceWrite"
    BY <1>2 DEF BookInv, AtBooks, Settled
  <2> QED BY <1>1, <2>1 DEF AtBooks, AmountsLeft, Alone, Calm
<1>6. Cancelled' /\ ChargedRight'
  BY <1>1, <1>3 DEF Cancelled, ChargedRight, AmountsLeft
<1> QED BY <1>4, <1>5, <1>6 DEF BookInv

LEMMA WorldStepsBooks ==
    ASSUME BookInv, IInv', ControlTypes',
           \/ TokenRefused \/ StoreAuthority \/ CheckoutDies
           \/ Authorise \/ Revert \/ Sweep \/ Expire
           \/ DeleteOrder \/ \E s \in Statuses : UpdateStatus(s)
    PROVE  BookInv'
<1> USE DEF order, amounts, payment, snapp, procs, bounds
<1>1. /\ UNCHANGED <<pc, target, charged, lost>> /\ failures' \in {failures, failures + 1}
      /\ remote' = remote \/ (remote \in {"PENDING", "VERIFY"} /\ remote' = "REVERT")
  BY DEF TokenRefused, StoreAuthority, CheckoutDies, Authorise, Revert, Sweep, Expire, DeleteOrder,
         UpdateStatus, OrderAct
<1>2. AmountsLeft
  BY DEF TokenRefused, StoreAuthority, CheckoutDies, Authorise, Revert, Sweep, Expire, DeleteOrder,
         UpdateStatus, Released, AmountsLeft
<1>3. tx = "PAID" => tx' = "PAID" /\ StatusLeft
  BY DEF TokenRefused, StoreAuthority, CheckoutDies, Authorise, Revert, Sweep, Expire, DeleteOrder,
         UpdateStatus, OrderAct, Released, StatusLeft
<1>4. CalmBefore
  BY <1>1, CountsGrow
<1>5. BooksLeft
  BY <1>1, <1>2, <1>3 DEF BooksLeft, RemoteLeft, Settled
<1> QED BY <1>1, <1>4, <1>5, WorldBooks

(* Items and amounts are edited in the back office: the books may differ.  *)
LEMMA EditBooks ==
    ASSUME BookInv, IInv', ControlTypes', NEW q \in Quantities, NEW o \in Nat, NEW x \in Nat, Edit(q, o, x)
    PROVE  BookInv'
<1>1. /\ UNCHANGED <<remote, charged, pc, target, lost, failures, tx, status, restated>>
      /\ qty' = q /\ Recalc(q, o, x) /\ amended' = TRUE /\ pay = "PAID"
  BY DEF Edit, OrderAct, payment, snapp, procs
<1>2. Amounts'
  <2>1. AmountTypes'
    <3>1. total' \in Nat /\ off' \in Nat /\ extras' \in Nat /\ payable' \in Nat
      BY <1>1, RecalcTyped DEF BookInv, Amounts
    <3> QED BY <1>1, <3>1 DEF BookInv, Amounts, AmountTypes
  <2>2. Untouched'
    BY <1>1 DEF BookInv, IInv, PaidMeansSettled, Untouched
  <2>3. AmountsNet'
    BY <1>1 DEF AmountsNet, Alone
  <2> QED BY <2>1, <2>2, <2>3 DEF Amounts
<1>3. ASSUME NEW p \in Procs PROVE AtBooks(p)'
  BY <1>1 DEF BookInv, AtBooks, Alone, Settled
<1>4. Cancelled' /\ ChargedRight'
  BY <1>1 DEF BookInv, Cancelled, ChargedRight, Alone, Calm
<1> QED BY <1>2, <1>3, <1>4 DEF BookInv

LEMMA EditStepsBooks ==
    ASSUME BookInv, IInv', ControlTypes',
           \/ \E l \in Lines, n \in 0..MaxQuantity : EditItem(l, n)
           \/ \E o \in NewOff \cup {off}, x \in NewExtras \cup {extras} : UpdateOrder(o, x)
    PROVE  BookInv'
<1>1. qty \in Quantities /\ off \in Nat /\ extras \in Nat
  BY DEF BookInv, Amounts, AmountTypes
<1>2. ASSUME NEW l \in Lines, NEW n \in 0..MaxQuantity, EditItem(l, n) PROVE BookInv'
  <2>1. [qty EXCEPT ![l] = n] \in Quantities
    BY <1>1 DEF Quantities
  <2> QED BY <1>1, <1>2, <2>1, EditBooks DEF EditItem
<1>3. ASSUME NEW o \in NewOff \cup {off}, NEW x \in NewExtras \cup {extras}, UpdateOrder(o, x) PROVE BookInv'
  <2>1. o \in Nat /\ x \in Nat
    BY <1>1, PriceAssumption
  <2> QED BY <1>1, <1>3, <2>1, EditBooks DEF UpdateOrder
<1> QED BY <1>2, <1>3

(* A request that neither cancels nor reduces.                             *)
LEMMA EndWalks ==
    ASSUME NEW p \in Procs, End(p), remote' = "CANCEL" => remote = "CANCEL" \/ (tx = "PAID" /\ ~Calm'),
           pc[p] = "reduceWrite" => ~Calm',
           pc[p] = "cancelWrite" => ~Calm' \/ status' = "CANCELED"
    PROVE  \E place \in {"done", "idle"} : Walks(p, place)
<1>1. Rest(p) \in {"done", "idle"} /\ Walks(p, Rest(p))
  BY DEF End, Rest, Walks
<1> QED BY <1>1

Elsewhere == {"idle", "ask", "verify", "verifyStatus", "settle", "settleStatus", "caught", "finalize",
              "fail", "done", "reconcile", "settleOnce", "view", "write"}

LEMMA TalkBooks ==
    ASSUME BookInv, IInv', ControlTypes', NEW p \in Procs,
           AmountsLeft, UNCHANGED <<charged, failures>>, lost' \in {lost, lost + 1},
           tx = "PAID" => tx' = "PAID" /\ StatusLeft,
           pc[p] \in Elsewhere \/ (pc[p] = "cancelWrite" /\ status' = "CANCELED"),
           remote' = remote \/ (remote \in {"PENDING", "VERIFY"} /\ remote' \in {"VERIFY", "SETTLE"}),
           \/ End(p) \/ Throw(p)
           \/ \E place \in Elsewhere \cup {"cancel"} :
                /\ pc' = [pc EXCEPT ![p] = place] /\ target' = target
                /\ place = "cancel" => tx = "PAID"
    PROVE  BookInv'
<1>1. CalmBefore
  BY CountsGrow
<1>2. BooksLeft
  BY DEF BooksLeft, RemoteLeft, Settled
<1>3. remote' = "CANCEL" => remote = "CANCEL"
  OBVIOUS
<1>4. CASE End(p)
  BY <1>1, <1>2, <1>3, <1>4, EndWalks, WalkBooks DEF Elsewhere
<1>5. ASSUME NEW place \in Elsewhere \cup {"cancel"}, pc' = [pc EXCEPT ![p] = place], target' = target,
             place = "cancel" => tx = "PAID"
      PROVE  BookInv'
  <2>1. Walks(p, place)
    BY <1>3, <1>5 DEF Walks, Elsewhere
  <2> QED BY <1>1, <1>2, <2>1, WalkBooks
<1>6. CASE Throw(p)
  BY <1>4, <1>5, <1>6 DEF Throw, Goto, Elsewhere
<1> QED BY <1>4, <1>5, <1>6

LEMMA CallbackBooks ==
    ASSUME BookInv, IInv', ControlTypes', NEW p \in Procs,
           \/ \E ok \in BOOLEAN : Post(p, ok)
           \/ AskState(p) \/ Caught(p) \/ FailAttempt(p) \/ Finalize(p)
    PROVE  BookInv'
<1> USE DEF order, amounts, payment, snapp, bounds
<1>0. AmountsLeft
  BY DEF Post, AskState, Caught, FailAttempt, Released, Finalize, AmountsLeft
<1>1. /\ UNCHANGED <<charged, failures, remote>> /\ lost' \in {lost, lost + 1}
      /\ tx = "PAID" => tx' = "PAID" /\ StatusLeft
      /\ pc[p] \in Elsewhere
  BY DEF Post, AskState, Caught, FailAttempt, Released, Finalize, Known, Answer, Answered, Unanswered, StatusLeft,
         Elsewhere
<1>2. \/ End(p) \/ Throw(p)
      \/ \E place \in Elsewhere : pc' = [pc EXCEPT ![p] = place] /\ target' = target
  <2>1. CASE \E ok \in BOOLEAN : Post(p, ok)
    BY <2>1 DEF Post, Goto, Elsewhere
  <2>2. CASE AskState(p) \/ Caught(p)
    BY <2>2 DEF AskState, Caught, Goto, Fails, Elsewhere
  <2>3. CASE FailAttempt(p) \/ Finalize(p)
    BY <2>3 DEF FailAttempt, Finalize
  <2> QED BY <2>1, <2>2, <2>3
<1> QED BY <1>0, <1>1, <1>2, TalkBooks DEF Elsewhere

LEMMA AtSnappBooks ==
    ASSUME BookInv, IInv', ControlTypes', NEW p \in Procs, AtSnapp(p)
    PROVE  BookInv'
<1> USE DEF order, amounts, payment, snapp, bounds
<1>0. AmountsLeft /\ StatusLeft
  BY DEF AtSnapp, Verify, VerifyStatus, Settle, SettleStatus, AmountsLeft, StatusLeft
<1>1. /\ UNCHANGED <<charged, failures, tx>> /\ lost' \in {lost, lost + 1}
      /\ remote' = remote \/ (remote \in {"PENDING", "VERIFY"} /\ remote' \in {"VERIFY", "SETTLE"})
      /\ pc[p] \in Elsewhere
  BY DEF AtSnapp, Verify, VerifyStatus, Settle, SettleStatus, Answer, Answered, Unanswered, Elsewhere
<1>2. Throw(p) \/ \E place \in Elsewhere : pc' = [pc EXCEPT ![p] = place] /\ target' = target
  <2>1. CASE Verify(p)
    BY <2>1 DEF Verify, Elsewhere
  <2>2. CASE Settle(p)
    BY <2>2 DEF Settle, Goto, Elsewhere
  <2>3. CASE VerifyStatus(p)
    BY <2>3 DEF VerifyStatus, Elsewhere
  <2>4. CASE SettleStatus(p)
    BY <2>4 DEF SettleStatus, Goto, Elsewhere
  <2> QED BY <2>1, <2>2, <2>3, <2>4 DEF AtSnapp
<1> QED BY <1>0, <1>1, <1>2, TalkBooks DEF Elsewhere

LEMMA AdminTalkBooks ==
    ASSUME BookInv, IInv', ControlTypes', NEW a \in Procs,
           \/ ReconcileStatus(a) \/ SettleOnce(a) \/ ViewStatus(a) \/ WriteStatus(a) \/ CancelWrite(a)
           \/ Reconcile(a) \/ View(a) \/ Cancel(a)
    PROVE  BookInv'
<1> USE DEF order, amounts, payment, snapp, bounds
<1>0. AmountsLeft /\ StatusLeft
  BY DEF ReconcileStatus, SettleOnce, ViewStatus, WriteStatus, CancelWrite, Reconcile, View, Cancel, Look, Act,
         AmountsLeft, StatusLeft
<1>1. /\ UNCHANGED <<charged, failures, tx>> /\ lost' \in {lost, lost + 1}
      /\ remote' = remote \/ (remote = "VERIFY" /\ remote' = "SETTLE")
      /\ pc[a] \in Elsewhere \/ (pc[a] = "cancelWrite" /\ status' = "CANCELED")
  BY DEF ReconcileStatus, SettleOnce, ViewStatus, WriteStatus, CancelWrite, Reconcile, View, Cancel, Look, Act,
         Answer, Answered, Unanswered, Elsewhere
<1>2. \/ End(a)
      \/ \E place \in Elsewhere \cup {"cancel"} :
            /\ pc' = [pc EXCEPT ![a] = place] /\ target' = target
            /\ place = "cancel" => tx = "PAID"
  <2>1. CASE ReconcileStatus(a)
    <3>1. PICK s \in Codes :
            CASE s = NoAnswer -> End(a)
              [] s # NoAnswer /\ seen[a] = "PAID" ->
                   /\ pc' = [pc EXCEPT ![a] = "write"]
                   /\ seen' = [seen EXCEPT ![a] = s] /\ UNCHANGED <<attempt, target>>
              [] s = "PENDING" /\ seen[a] # "PAID" -> Goto(a, "verify")
              [] s = "VERIFY" /\ seen[a] # "PAID" -> Goto(a, "settleOnce")
              [] s = "SETTLE" /\ seen[a] # "PAID" -> Goto(a, "finalize")
              [] OTHER -> Fails(a, s)
      BY <2>1 DEF ReconcileStatus
    <3> QED BY <3>1 DEF NoAnswer, Goto, Fails, Elsewhere
  <2>2. CASE SettleOnce(a)
    BY <2>2 DEF SettleOnce, Goto, Elsewhere
  <2>3. CASE ViewStatus(a)
    BY <2>3 DEF ViewStatus, Elsewhere
  <2>4. CASE WriteStatus(a) \/ CancelWrite(a)
    BY <2>4 DEF WriteStatus, CancelWrite
  <2>5. CASE Reconcile(a) \/ View(a) \/ Cancel(a)
    BY <2>5 DEF Reconcile, View, Cancel, Look, Act, Elsewhere
  <2> QED BY <2>1, <2>2, <2>3, <2>4, <2>5
<1> QED BY <1>0, <1>1, <1>2, TalkBooks

LEMMA RemoteCancelBooks ==
    ASSUME BookInv, IInv', ControlTypes', NEW a \in Procs, RemoteCancel(a)
    PROVE  BookInv'
<1> USE DEF order, amounts, payment, bounds
<1>1. /\ AmountsLeft /\ StatusLeft /\ UNCHANGED <<charged, failures, tx>>
      /\ tx = "PAID" /\ pc[a] = "cancel"
  BY DEF RemoteCancel, BookInv, AtBooks, AmountsLeft, StatusLeft
<1>2. CalmBefore
  BY <1>1, CountsGrow DEF RemoteCancel, Answered, Unanswered
<1>3. BooksLeft
  BY <1>1 DEF RemoteCancel, BooksLeft, RemoteLeft, Settled
<1>4. CASE remote = "SETTLE" /\ remote' = "CANCEL" /\ Goto(a, "cancelWrite")
  <2>1. Walks(a, "cancelWrite")
    BY <1>1, <1>4 DEF Walks, Goto
  <2> QED BY <1>2, <1>3, <2>1, WalkBooks
<1>5. CASE End(a) /\ (remote' = remote \/ Unanswered)
  <2>1. ~Calm' \/ remote' = remote
    BY <1>5, ProcsAssumption DEF Unanswered, Calm, BookInv, ControlTypes, CountTypes
  <2> QED BY <1>1, <1>2, <1>3, <1>5, <2>1, EndWalks, WalkBooks
<1> QED BY <1>4, <1>5 DEF RemoteCancel

LEMMA FailBooks ==
    ASSUME BookInv, IInv', ControlTypes', NEW p \in Procs, Fail(p)
    PROVE  BookInv'
<1>1. AmountsLeft /\ StatusLeft /\ UNCHANGED <<charged, lost, tx, remote>> /\ failures' = failures + 1
  BY DEF Fail, AmountsLeft, StatusLeft, order, amounts, payment, snapp
<1>2. CalmBefore /\ BooksLeft
  BY <1>1, CountsGrow DEF BooksLeft, RemoteLeft, Settled
<1>3. ~Calm'
  BY <1>1, ProcsAssumption DEF Calm, BookInv, ControlTypes, CountTypes
<1> QED BY <1>1, <1>2, <1>3, EndWalks, WalkBooks DEF Fail

--------------------------------------------------------------------------------
(* Reductions.  There is no second administrator whose plan could be based *)
(* on the quantities that this one replaces.                               *)

LEMMA ReduceBooks ==
    ASSUME BookInv, IInv', ControlTypes', NEW a \in Admins, NEW q \in Quantities, Reduce(a, q)
    PROVE  BookInv'
<1>0. AmountsLeft
  BY DEF Reduce, Act, order, amounts, AmountsLeft
<1>1. /\ UNCHANGED <<qty, payable, amended, charged, remote, tx, status, restated, lost, failures>>
      /\ pc[a] = "idle" /\ pc' = [pc EXCEPT ![a] = "reduce"]
      /\ target' = [target EXCEPT ![a] = Reduction(q)] /\ a \in Procs
  BY DEF Reduce, Act, order, amounts, payment, snapp, Procs
<1>2. /\ Reduction(q) \in Plans /\ Reduction(q).qty = q
      /\ Reduction(q).edited = {l \in Lines : q[l] # qty[l]}
      /\ Alone => Reduction(q).due = Net(q) /\ Reduction(q).asked = Reduction(q).due
  BY PlanIsNet DEF Reduce, BookInv
<1>3. /\ pc \in [Procs -> PCs] /\ target \in [Procs -> Plans]
      /\ pc'[a] = "reduce" /\ target'[a] = Reduction(q)
      /\ \A p \in Procs \ {a} : pc'[p] = pc[p] /\ target'[p] = target[p]
  BY <1>1 DEF BookInv, ControlTypes, ProcTypes, Amounts, AmountTypes
<1>4. Amounts'
  <2>1. target' \in [Procs -> Plans]
    BY <1>1, <1>2, <1>3
  <2>2. charged' \in Nat
    BY <1>1 DEF BookInv, Amounts, AmountTypes
  <2> QED BY <1>0, <1>1, <2>1, <2>2, AmountsStay DEF BookInv
<1>5. ASSUME NEW p \in Procs PROVE AtBooks(p)'
  <2>1. CASE p = a
    BY <1>1, <1>2, <1>3, <2>1 DEF AtBooks, Alone
  <2>2. CASE p # a
    BY <1>1, <1>3, <2>2 DEF BookInv, AtBooks, Alone, Calm, Settled
  <2> QED BY <2>1, <2>2
<1>6. Cancelled'
  BY <1>1, <1>3 DEF BookInv, Cancelled, Calm
<1>7. ChargedRight'
  BY <1>1, <1>3 DEF BookInv, ChargedRight, Alone, Calm
<1> QED BY <1>4, <1>5, <1>6, <1>7 DEF BookInv

LEMMA RemoteReduceBooks ==
    ASSUME BookInv, IInv', ControlTypes', NEW a \in Procs, RemoteReduce(a)
    PROVE  BookInv'
<1> USE DEF order, amounts, payment, bounds
<1>0. AmountsLeft /\ StatusLeft
  BY DEF RemoteReduce, AmountsLeft, StatusLeft
<1>1. /\ UNCHANGED <<remote, tx, status, restated, failures>> /\ lost' \in {lost, lost + 1}
      /\ pc[a] = "reduce" /\ a \in Admins
  BY DEF RemoteReduce, Answered, Unanswered, BookInv, AtBooks
<1>2. PICK asked : asked = target[a].asked
  OBVIOUS
<1>3. target[a] \in Plans /\ asked \in Int /\ charged \in Nat
  BY <1>2 DEF BookInv, Amounts, AmountTypes, Plans
<1>4. charged' \in Nat
  BY <1>2, <1>3 DEF RemoteReduce
<1>5. CalmBefore
  BY <1>1, CountsGrow
<1>6. CASE End(a) /\ (UNCHANGED charged \/ Unanswered)
  <2>1. UNCHANGED charged \/ ~Calm'
    BY <1>6, ProcsAssumption DEF Unanswered, Calm, BookInv, ControlTypes, CountTypes
  <2>2. BooksLeft
    BY <1>0, <1>1, <1>4, <1>6, <2>1 DEF BooksLeft, RemoteLeft, Settled
  <2> QED BY <1>1, <1>5, <1>6, <2>2, EndWalks, WalkBooks
<1>7. CASE remote = "SETTLE" /\ Goto(a, "reduceWrite") /\ Answered /\ charged' = asked
  <2>1. /\ UNCHANGED <<target, lost>> /\ pc'[a] = "reduceWrite" /\ \A p \in Procs \ {a} : pc'[p] = pc[p]
    BY <1>7 DEF Goto, Answered, BookInv, ControlTypes, ProcTypes
  <2>2. Amounts'
    <3>1. target' \in [Procs -> Plans]
      BY <2>1 DEF BookInv, Amounts, AmountTypes
    <3> QED BY <1>0, <1>1, <1>4, <3>1, AmountsStay DEF BookInv
  <2>3. ASSUME NEW p \in Procs PROVE AtBooks(p)'
    <3>1. AtBooks(p) /\ AtBooks(a)
      BY DEF BookInv
    <3>2. CASE p = a
      BY <1>0, <1>1, <1>2, <1>7, <2>1, <3>1, <3>2 DEF AtBooks, AmountsLeft, Alone, Settled
    <3>3. CASE p # a
      <4>1. Alone => pc[p] \notin {"reduce", "reduceWrite"}
        BY <1>1, <3>1, <3>3 DEF AtBooks, Alone, OneAdmin
      <4> QED BY <1>0, <1>1, <2>1, <3>1, <3>3, <4>1 DEF AtBooks, AmountsLeft, Alone, Settled
    <3> QED BY <3>2, <3>3
  <2>4. Cancelled' /\ ChargedRight'
    BY <1>1, <1>7, <2>1 DEF BookInv, Cancelled, ChargedRight, Calm
  <2> QED BY <2>2, <2>3, <2>4 DEF BookInv
<1> QED BY <1>2, <1>6, <1>7 DEF RemoteReduce

LEMMA ReduceWriteBooks ==
    ASSUME BookInv, IInv', ControlTypes', NEW a \in Procs, ReduceWrite(a)
    PROVE  BookInv'
<1> USE DEF payment, snapp, bounds
<1>1. /\ UNCHANGED <<charged, remote, tx, status, restated, amended, off, extras, lost, failures>>
      /\ pc[a] = "reduceWrite"
      /\ qty' = [l \in Lines |-> IF l \in target[a].edited THEN target[a].qty[l] ELSE qty[l]]
      /\ total' = Subtotal(target[a].qty) /\ payable' = target[a].due /\ End(a)
  BY DEF ReduceWrite
<1>2. AtBooks(a) /\ target[a] \in Plans /\ target[a].qty \in Quantities /\ qty \in Quantities
  BY DEF BookInv, Amounts, AmountTypes, Plans
<1>3. Settled /\ a \in Admins
  BY <1>1, <1>2 DEF AtBooks
<1>4. Alone => qty' = target[a].qty
  BY <1>1, <1>2 DEF AtBooks, Quantities
<1>5. /\ pc'[a] \in {"done", "idle"} /\ target'[a] = Whole /\ target' \in [Procs -> Plans]
      /\ \A p \in Procs \ {a} : pc'[p] = pc[p] /\ target'[p] = target[p]
  BY <1>1, WholePlan DEF End, Rest, BookInv, ControlTypes, ProcTypes, Amounts, AmountTypes
<1>6. Amounts'
  <2>1. AmountTypes'
    <3>1. qty' \in Quantities
      BY <1>1, <1>2 DEF Quantities
    <3>2. total' \in Nat /\ payable' \in Nat
      BY <1>1, <1>2, SubtotalType DEF Plans
    <3> QED BY <1>1, <1>5, <3>1, <3>2 DEF BookInv, Amounts, AmountTypes
  <2>2. Untouched'
    BY <1>1, <1>3 DEF Untouched, Settled
  <2>3. AmountsNet'
    <3>1. ASSUME Alone PROVE payable' = Net(target[a].qty) /\ off' = Off /\ extras' = Extras
      BY <1>1, <1>2, <3>1 DEF AtBooks, BookInv, Amounts, AmountsNet
    <3> QED BY <1>1, <1>4, <3>1 DEF AmountsNet, Alone, Net, Subtotal
  <2> QED BY <2>1, <2>2, <2>3 DEF Amounts
<1>7. ASSUME NEW p \in Procs PROVE AtBooks(p)'
  <2>1. AtBooks(p)
    BY DEF BookInv
  <2>2. CASE p = a
    BY <1>5, <2>2, WholePlan DEF AtBooks
  <2>3. CASE p # a
    <3>1. Alone => pc[p] \notin {"reduce", "reduceWrite"}
      BY <1>3, <2>1, <2>3 DEF AtBooks, Alone, OneAdmin
    <3> QED BY <1>1, <1>5, <2>1, <2>3, <3>1 DEF AtBooks, Alone, Settled
  <2> QED BY <2>2, <2>3
<1>8. Cancelled'
  BY <1>1, <1>5 DEF BookInv, Cancelled, Calm
<1>9. ChargedRight'
  BY <1>1, <1>2 DEF AtBooks, ChargedRight, Alone, Calm
<1> QED BY <1>6, <1>7, <1>8, <1>9 DEF BookInv

--------------------------------------------------------------------------------
LEMMA BookInductive ==
    ASSUME BookInv, [Next]_vars
    PROVE  BookInv'
<1>1. IInv'
  BY StepSound DEF BookInv
<1>2. CASE UNCHANGED vars
  <2>1. ControlTypes'
    BY <1>2 DEF vars, order, amounts, payment, snapp, procs, bounds, BookInv, ControlTypes,
                StateTypes, FlagTypes, ProcTypes, CountTypes
  <2>2. UNCHANGED <<charged, pc, target, lost, failures, tx, remote>> /\ AmountsLeft /\ StatusLeft
    BY <1>2 DEF vars, order, amounts, payment, snapp, procs, bounds, AmountsLeft, StatusLeft
  <2>3. CalmBefore /\ BooksLeft
    BY <2>2, CountsGrow DEF BooksLeft, RemoteLeft, Settled
  <2> QED BY <1>1, <2>1, <2>2, <2>3, WorldBooks
<1>3. CASE \/ RequestToken \/ TokenRefused \/ StoreAuthority \/ CheckoutDies
           \/ Authorise \/ Revert \/ Sweep \/ Expire \/ OrderStep
  <2>1. ControlTypes'
    BY <1>3, WorldTyped DEF BookInv
  <2> QED BY <1>1, <1>3, <2>1, RequestTokenBooks, WorldStepsBooks, EditStepsBooks DEF OrderStep
<1>4. ASSUME NEW c \in Callbacks, CallbackStep(c) \/ \E ok \in BOOLEAN : Post(c, ok)
      PROVE  BookInv'
  <2>1. c \in Procs /\ ControlTypes
    BY DEF Procs, BookInv
  <2>2. ControlTypes'
    BY <1>1, <1>4, <2>1, CallbackTyped, AtSnappTyped, EndsTyped DEF CallbackStep, BookInv
  <2> QED BY <1>1, <1>4, <2>1, <2>2, CallbackBooks, AtSnappBooks DEF CallbackStep
<1>5. ASSUME NEW a \in Admins, AdminStep(a) PROVE BookInv'
  <2>1. a \in Procs /\ ControlTypes
    BY DEF Procs, BookInv
  <2>2. ControlTypes'
    BY <1>1, <1>5, <2>1, AdminTyped, AtSnappTyped, EndsTyped DEF AdminStep, BookInv
  <2>3. CASE ReconcileStatus(a) \/ SettleOnce(a) \/ AtSnapp(a) \/ FailAttempt(a) \/ Finalize(a)
    BY <1>1, <2>1, <2>2, <2>3, CallbackBooks, AtSnappBooks, AdminTalkBooks
  <2>4. CASE \/ ViewStatus(a) \/ WriteStatus(a)
             \/ RemoteCancel(a) \/ CancelWrite(a) \/ RemoteReduce(a) \/ ReduceWrite(a)
    BY <1>1, <2>1, <2>2, <2>4, AdminTalkBooks, RemoteCancelBooks, RemoteReduceBooks, ReduceWriteBooks
  <2> QED BY <1>5, <2>3, <2>4 DEF AdminStep
<1>6. ASSUME NEW a \in Admins,
             \/ Reconcile(a) \/ View(a) \/ Cancel(a)
             \/ \E q \in [Lines -> 0..MaxQuantity] : Reduce(a, q)
      PROVE  BookInv'
  <2>1. a \in Procs /\ ControlTypes
    BY DEF Procs, BookInv
  <2>2. ControlTypes'
    BY <1>6, <2>1, AdminTyped DEF Quantities
  <2> QED BY <1>1, <1>6, <2>1, <2>2, AdminTalkBooks, ReduceBooks DEF Quantities
<1>7. ASSUME NEW p \in Procs, Fail(p) PROVE BookInv'
  <2>1. ControlTypes'
    BY <1>7, EndsTyped DEF BookInv
  <2> QED BY <1>1, <1>7, <2>1, FailBooks
<1> QED BY <1>2, <1>3, <1>4, <1>5, <1>6, <1>7 DEF Next

LEMMA BooksHold == Spec => []BookInv
<1>1. Init => BookInv
  BY BooksInitially
<1>2. BookInv /\ [Next]_vars => BookInv'
  BY BookInductive
<1> QED BY <1>1, <1>2, PTL DEF Spec

(* The amounts stay in range, whatever is edited beside whatever is        *)
(* reduced: nobody owes less than nothing, and Snapp is never asked for it.*)
THEOREM TypeCorrect == Spec => []TypeOK
<1>1. BookInv => TypeOK
  BY DEF BookInv, ControlTypes, StateTypes, FlagTypes, ProcTypes, CountTypes, Amounts, AmountTypes, Plans,
         Quantities, TypeOK
<1> QED BY <1>1, BooksHold, PTL

(* With one administrator at work at Snapp, every answer received and      *)
(* nobody dying, Snapp's own endpoints leave both sides in agreement: on   *)
(* the amount unless the order's endpoints edited the order, and on the    *)
(* cancellation unless its status was set again since (update, cancel).    *)
(* For all orders, prices, callbacks and edits.                            *)
THEOREM BooksAlwaysAgree == ASSUME OneAdmin PROVE Spec => []BooksAgree
<1>1. ASSUME BookInv, Quiet, failures = 0, lost = 0, pay = "PAID"
      PROVE  /\ ~amended => /\ payable = charged
                            /\ payable = Subtotal(qty) + Extras - Off - FromWallet
             /\ remote = "CANCEL" => status = "CANCELED" \/ restated
  <2>1. Calm /\ remote # "none"
    BY <1>1 DEF Calm, BookInv, IInv, PaidMeansSettled
  <2>2. \A p \in Procs : pc[p] \notin {"reduceWrite", "cancelWrite"}
    BY <1>1 DEF Quiet
  <2>3. ASSUME ~amended PROVE payable = charged /\ payable = Net(qty)
    <3>1. Alone
      BY <2>3 DEF Alone
    <3> QED BY <1>1, <2>1, <2>2, <3>1 DEF BookInv, Amounts, AmountsNet, ChargedRight
  <2> QED BY <1>1, <2>1, <2>2, <2>3 DEF BookInv, Net, Cancelled
<1>2. BookInv => BooksAgree
  BY <1>1 DEF BooksAgree
<1> QED BY <1>2, BooksHold, PTL

================================================================================
