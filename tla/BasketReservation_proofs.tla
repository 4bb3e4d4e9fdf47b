------------------------ MODULE BasketReservation_proofs -----------------------
(***************************************************************************)
(* Proofs about BasketReservation, for any number of users, requests,      *)
(* sweeps, baskets and orders, and any quantities.                         *)
(***************************************************************************)
EXTENDS BasketReservation, FiniteSetTheorems, TLAPS

(* Max and Min choose what they say.                                       *)
LEMMA LeastElement ==
    ASSUME NEW S, S \subseteq Nat, S # {}
    PROVE  \E x \in S : \A y \in S : x =< y
<1>1. PICK R : R = {ss \in Nat \X Nat : ss[1] < ss[2]}
  OBVIOUS
<1>2. OpToRel(<, Nat) = R
  BY <1>1, Zenon DEF OpToRel
<1>3. IsWellFoundedOn(R, Nat)
  BY <1>2, NatLessThanWellFounded, Zenon
<1>4. PICK x \in S : \A y \in S : ~(<<y, x>> \in R)
  BY <1>3, WFMin, Zenon
<1>5. ASSUME NEW y \in S PROVE x =< y
  <2>1. x \in Nat /\ y \in Nat /\ <<y, x>> \notin R
    BY <1>4
  <2>2. ~(y < x)
    BY <1>1, <2>1
  <2> QED BY <2>1, <2>2
<1> QED BY <1>5

LEMMA MinIsMember ==
    ASSUME NEW S \in SUBSET Nat, S # {}
    PROVE  Min(S) \in S
BY LeastElement DEF Min

LEMMA MaxIsMember ==
    ASSUME NEW n \in Nat, NEW S \in SUBSET (1..n), S # {}
    PROVE  Max(S) \in S
<1>1. PICK D : D = {d \in Nat : \E x \in S : d = n - x}
  OBVIOUS
<1>2. PICK s : s \in S
  OBVIOUS
<1>3. n - s \in D
  BY <1>1, <1>2
<1>4. PICK d \in D : \A y \in D : d =< y
  BY <1>1, <1>3, LeastElement
<1>5. PICK x \in S : d = n - x
  BY <1>1, <1>4
<1>6. ASSUME NEW y \in S PROVE x >= y
  <2>1. x \in 1..n /\ y \in 1..n
    BY <1>5
  <2>2. n - y \in D
    BY <1>1, <2>1
  <2>3. n - x =< n - y
    BY <1>4, <1>5, <2>2
  <2> QED BY <2>1, <2>3
<1> QED BY <1>6 DEF Max

(* Counting units: one entry of the count changes.                         *)
LEMMA UnitsOfOne ==
    ASSUME NEW x, NEW n \in Nat
    PROVE  IsFiniteSet({x} \X (1..n)) /\ Cardinality({x} \X (1..n)) = n
<1>1. IsFiniteSet({x}) /\ Cardinality({x}) = 1
  BY FS_Singleton
<1>2. IsFiniteSet(1..n) /\ Cardinality(1..n) = n
  BY FS_Interval
<1>3. /\ IsFiniteSet({x} \X (1..n))
      /\ Cardinality({x} \X (1..n)) = Cardinality({x}) * Cardinality(1..n)
  BY <1>1, <1>2, FS_Product
<1> QED BY <1>1, <1>2, <1>3

LEMMA UnitsFinite ==
    ASSUME NEW S, IsFiniteSet(S), NEW f \in [S -> Nat]
    PROVE  IsFiniteSet(UnitsIn(f)) /\ Cardinality(UnitsIn(f)) \in Nat
<1>1. PICK T : T = {{x} \X (1..f[x]) : x \in S}
  OBVIOUS
<1>2. PICK g : g = [x \in S |-> {x} \X (1..f[x])]
  OBVIOUS
<1>3. g \in Surjection(S, T)
  BY <1>1, <1>2 DEF Surjection
<1>4. IsFiniteSet(T)
  BY <1>3, FS_Surjection
<1>5. \A u \in T : IsFiniteSet(u)
  <2> SUFFICES ASSUME NEW x \in S PROVE IsFiniteSet({x} \X (1..f[x]))
    BY <1>1
  <2> QED BY UnitsOfOne
<1>6. UnitsIn(f) = UNION T
  BY <1>1 DEF UnitsIn
<1> QED BY <1>4, <1>5, <1>6, FS_UNION, FS_CardinalityType

LEMMA UnitsChange ==
    ASSUME NEW S, IsFiniteSet(S), NEW f \in [S -> Nat], NEW x \in S, NEW n \in Nat,
           NEW g, g = [f EXCEPT ![x] = n]
    PROVE  /\ Cardinality(UnitsIn(g)) = Cardinality(UnitsIn(f)) - f[x] + n
           /\ Cardinality(UnitsIn(f)) \in Nat /\ Cardinality(UnitsIn(g)) \in Nat
<1>1. g \in [S -> Nat] /\ g[x] = n /\ \A y \in S \ {x} : g[y] = f[y]
  OBVIOUS
<1>2. /\ IsFiniteSet(UnitsIn(f)) /\ Cardinality(UnitsIn(f)) \in Nat
      /\ IsFiniteSet(UnitsIn(g)) /\ Cardinality(UnitsIn(g)) \in Nat
  BY <1>1, UnitsFinite
<1>3. PICK R : R = UNION {{y} \X (1..f[y]) : y \in S \ {x}}
  OBVIOUS
<1>4. UnitsIn(f) = R \cup ({x} \X (1..f[x])) /\ R \cap ({x} \X (1..f[x])) = {}
  BY <1>3 DEF UnitsIn
<1>5. UnitsIn(g) = R \cup ({x} \X (1..n)) /\ R \cap ({x} \X (1..n)) = {}
  BY <1>1, <1>3 DEF UnitsIn
<1>6. IsFiniteSet(R) /\ Cardinality(R) \in Nat
  BY <1>2, <1>4, FS_Subset, FS_CardinalityType
<1>7. Cardinality(UnitsIn(f)) = Cardinality(R) + f[x]
  <2>1. f[x] \in Nat
    OBVIOUS
  <2>2. IsFiniteSet({x} \X (1..f[x])) /\ Cardinality({x} \X (1..f[x])) = f[x]
    BY <2>1, UnitsOfOne
  <2>3. Cardinality(R \cap ({x} \X (1..f[x]))) = 0
    BY <1>4, FS_EmptySet
  <2>4. Cardinality(R \cup ({x} \X (1..f[x])))
          = Cardinality(R) + Cardinality({x} \X (1..f[x])) - Cardinality(R \cap ({x} \X (1..f[x])))
    BY <1>6, <2>2, FS_Union
  <2> QED BY <1>4, <1>6, <2>1, <2>2, <2>3, <2>4
<1>8. Cardinality(UnitsIn(g)) = Cardinality(R) + n
  <2>1. IsFiniteSet({x} \X (1..n)) /\ Cardinality({x} \X (1..n)) = n
    BY UnitsOfOne
  <2>2. Cardinality(R \cap ({x} \X (1..n))) = 0
    BY <1>5, FS_EmptySet
  <2>3. Cardinality(R \cup ({x} \X (1..n)))
          = Cardinality(R) + Cardinality({x} \X (1..n)) - Cardinality(R \cap ({x} \X (1..n)))
    BY <1>6, <2>1, FS_Union
  <2>4. Cardinality(UnitsIn(g)) = Cardinality(R \cup ({x} \X (1..n)))
    BY <1>5
  <2> QED BY <1>6, <2>1, <2>2, <2>3, <2>4
<1> QED BY <1>2, <1>6, <1>7, <1>8

--------------------------------------------------------------------------------
(* The inductive invariant.                                                *)

Rows == [live : BOOLEAN, qty : Nat, until : Nat]
Works == [op : Ops, user : Users \cup {NoUser}, wanted : Nat,
          now : Nat, basket : Baskets \cup {0}, seen : Nat]
Sweeps == [now : Nat, listed : SUBSET Baskets, qty : [Baskets -> Nat]]
OrderRows == [status : {"absent", "PENDING", "PAID", "FAILED"},
              buyer : Users \cup {NoUser}, qty : Nat,
              gateway : {"none", "asked", "accepted", "refused"}]

(* Past its first query a request works for a user on a basket of theirs.  *)
WorksOnOwn(t) ==
    /\ pc[t] # "idle" => req[t].user \in Users
    /\ pc[t] = "write" \/ (pc[t] = "read" /\ req[t].op \in {"update", "remove"}) =>
        /\ req[t].basket \in Baskets
        /\ owner[req[t].basket] = req[t].user

(* The lock checkout:userId.                                               *)
LockedApart ==
    \A t, u \in Requests :
        t # u /\ At(t, "checkout", "write") /\ At(u, "checkout", "write")
            => req[t].user # req[u].user

(* Who has ordered has a basket to restore the items to.                   *)
BuyersKnown ==
    \A o \in OrderIds : order[o].gateway # "none" =>
        order[o].buyer \in Users /\ BasketsOf(order[o].buyer) # {}

SweptBefore == \A s \in Sweepers : sweep[s].now <= clock

IInv ==
    /\ TypeOK
    /\ \A t \in Requests : WorksOnOwn(t)
    /\ LockedApart
    /\ BuyersKnown
    /\ SweptBefore
    /\ SweepReleasesHeld
    /\ CheckoutOwnsBasket

LEMMA BasketTypes ==
    /\ Baskets \subseteq Nat /\ 0 \notin Baskets /\ OrderIds \subseteq Nat
    /\ MaxBaskets \in Nat /\ TTL \in Nat /\ MaxTime \in Nat /\ TTL > 0
    /\ IsFiniteSet(Baskets) /\ IsFiniteSet(OrderIds)
<1>1. MaxBaskets \in Nat /\ MaxOrders \in Nat /\ TTL \in Nat /\ MaxTime \in Nat /\ TTL > 0
  BY ConstantsAssumption
<1> QED BY <1>1, FS_Interval DEF Baskets, OrderIds

LEMMA LatestIsMember ==
    ASSUME NEW S \in SUBSET Baskets, S # {}
    PROVE  Latest(S) \in S
BY BasketTypes, MaxIsMember DEF Baskets, Latest

LEMMA HoldTyped ==
    ASSUME TypeOK, NEW q \in Nat
    PROVE  /\ Hold(q) \in Rows /\ Hold(q).live /\ Hold(q).qty = q
           /\ Hold(q).until > clock
<1>1. clock \in Nat
  BY BasketTypes DEF TypeOK
<1> QED BY <1>1, BasketTypes DEF Rows, Hold, Deadline

LEMMA DeadTyped ==
    ASSUME NEW r \in Rows
    PROVE  Dead(r) \in Rows /\ ~Dead(r).live
BY DEF Rows, Dead

(* A row is written: it is a new hold or none.                             *)
LEMMA RowWrite ==
    ASSUME TypeOK, NEW b \in Baskets, NEW r \in Rows, row' = [row EXCEPT ![b] = r]
    PROVE  /\ row' \in [Baskets -> Rows]
           /\ row'[b] = r /\ \A c \in Baskets \ {b} : row'[c] = row[c]
BY DEF TypeOK, Rows

(* What every step keeps.                                                  *)
HoldsRenewed == \A b \in Baskets : row'[b] = row[b] \/ ~row'[b].live \/ row'[b].until > clock
OwnersKept == \A b \in Baskets : owner[b] # NoUser => owner'[b] = owner[b]
Others(t) == \A u \in Requests \ {t} : pc'[u] = pc[u] /\ req'[u] = req[u]

(* What a sweep has read stays true of the rows it may still release.      *)
LEMMA SweepFrame ==
    ASSUME IInv, TypeOK', HoldsRenewed, clock' >= clock,
           \A s \in Sweepers : sweep'[s].now = sweep[s].now /\ sweep'[s].qty = sweep[s].qty
                                 /\ sweep'[s].listed \subseteq sweep[s].listed
    PROVE  SweptBefore' /\ SweepReleasesHeld'
<1>1. clock \in Nat /\ clock' \in Nat /\ row \in [Baskets -> Rows]
      /\ row' \in [Baskets -> Rows] /\ sweep \in [Sweepers -> Sweeps]
  BY BasketTypes DEF IInv, TypeOK, Rows, Sweeps
<1>2. SweptBefore'
  <2> SUFFICES ASSUME NEW s \in Sweepers PROVE sweep'[s].now <= clock'
    BY DEF SweptBefore
  <2>1. sweep[s].now <= clock /\ sweep[s].now \in Nat
    BY <1>1 DEF IInv, SweptBefore, Sweeps
  <2> QED BY <1>1, <2>1
<1>3. SweepReleasesHeld'
  <2> SUFFICES ASSUME NEW s \in Sweepers, NEW b \in sweep'[s].listed,
                      row'[b].live, row'[b].until <= sweep'[s].now
               PROVE  row'[b].qty = sweep'[s].qty[b]
    BY DEF SweepReleasesHeld, Lapsed
  <2>1. b \in sweep[s].listed /\ b \in Baskets /\ sweep[s].now \in Nat /\ sweep[s].now <= clock
    BY <1>1 DEF Sweeps, IInv, SweptBefore
  <2>2. row'[b].until \in Nat
    BY <1>1, <2>1 DEF Rows
  <2>3. row'[b] = row[b]
    BY <1>1, <2>1, <2>2 DEF HoldsRenewed
  <2> QED BY <2>1, <2>3 DEF IInv, SweepReleasesHeld, Lapsed
<1> QED BY <1>2, <1>3

(* A step of request t.                                                    *)
LEMMA RequestFrame ==
    ASSUME IInv, TypeOK', NEW t \in Requests, Others(t), clock' = clock, sweep' = sweep,
           HoldsRenewed, OwnersKept, WorksOnOwn(t)', BuyersKnown',
           \/ deleted' \subseteq deleted
           \/ At(t, "checkout", "write") /\ deleted' \subseteq deleted \cup {req[t].basket},
           At(t, "checkout", "write")' =>
               LockFree(req'[t].user) /\ req'[t].basket \notin deleted'
    PROVE  IInv'
<1>1. SweptBefore' /\ SweepReleasesHeld'
  <2>1. clock \in Nat
    BY BasketTypes DEF IInv, TypeOK
  <2> QED BY <2>1, SweepFrame
<1>2. \A u \in Requests \ {t} : WorksOnOwn(u)'
  BY ConstantsAssumption DEF IInv, WorksOnOwn, Others, OwnersKept
<1>3. LockedApart'
  BY DEF IInv, LockedApart, At, Others, LockFree
<1>4. CheckoutOwnsBasket'
  <2> SUFFICES ASSUME NEW u \in Requests, At(u, "checkout", "write")'
               PROVE  req'[u].basket \notin deleted'
    BY DEF CheckoutOwnsBasket
  <2>1. CASE u = t
    BY <2>1
  <2>2. CASE u # t
    <3>1. At(u, "checkout", "write") /\ req'[u] = req[u] /\ req[u].basket \notin deleted
      BY <2>2 DEF IInv, CheckoutOwnsBasket, At, Others
    <3>2. At(t, "checkout", "write") => req[t].basket # req[u].basket
      BY <2>2, <3>1 DEF IInv, LockedApart, WorksOnOwn, At
    <3> QED BY <3>1, <3>2
  <2> QED BY <2>1, <2>2
<1> QED BY <1>1, <1>2, <1>3, <1>4 DEF IInv

(* A step of a sweep, of settlement or of the clock.                       *)
LEMMA OtherFrame ==
    ASSUME IInv, TypeOK', \A u \in Requests : pc'[u] = pc[u] /\ req'[u] = req[u],
           UNCHANGED owner, deleted' \subseteq deleted, BuyersKnown',
           SweptBefore', SweepReleasesHeld'
    PROVE  IInv'
<1>1. \A u \in Requests : WorksOnOwn(u)'
  BY DEF IInv, WorksOnOwn
<1>2. LockedApart' /\ CheckoutOwnsBasket'
  BY DEF IInv, LockedApart, CheckoutOwnsBasket, At
<1> QED BY <1>1, <1>2 DEF IInv

--------------------------------------------------------------------------------
(* The steps of the requests.                                              *)

LEMMA WorkWrite ==
    ASSUME TypeOK, NEW t \in Requests, NEW label \in PCs, NEW w \in Works,
           pc' = [pc EXCEPT ![t] = label], req' = [req EXCEPT ![t] = w]
    PROVE  /\ pc' \in [Procs -> PCs] /\ req' \in [Requests -> Works]
           /\ pc'[t] = label /\ req'[t] = w /\ Others(t)
           /\ \A s \in Sweepers : pc'[s] = pc[s]
<1>1. t \in Procs /\ t \notin Sweepers
  BY ConstantsAssumption DEF Procs
<1> QED BY <1>1 DEF TypeOK, Works, Others, Procs

LEMMA Finished ==
    ASSUME TypeOK, NEW t \in Requests, Finish(t)
    PROVE  /\ pc' \in [Procs -> PCs] /\ req' \in [Requests -> Works]
           /\ pc'[t] = "idle" /\ Others(t)
<1>1. "idle" \in PCs /\ NoReq \in Works
  BY DEF PCs, NoReq, Works, Ops
<1> QED BY <1>1, WorkWrite DEF Finish, Goto

LEMMA BeginStep ==
    ASSUME IInv, NEW t \in Requests, NEW op \in Ops, NEW user \in Users, NEW wanted \in Nat,
           NEW basket \in Baskets \cup {0}, NEW label \in {"create", "read", "write"},
           Begin(t, op, user, wanted, basket, label),
           label = "write" \/ op \in {"update", "remove"} =>
               basket \in Baskets /\ owner[basket] = user,
           op = "checkout" => label = "read"
    PROVE  IInv'
<1>1. TypeOK /\ clock \in Nat /\ label \in PCs
  BY BasketTypes DEF IInv, TypeOK, PCs
<1>2. PICK w : w = [op |-> op, user |-> user, wanted |-> wanted,
                    now |-> clock, basket |-> basket, seen |-> 0]
  OBVIOUS
<1>3. w \in Works /\ w.op = op /\ w.user = user /\ w.basket = basket
  BY <1>1, <1>2 DEF Works
<1>4. /\ pc' \in [Procs -> PCs] /\ req' \in [Requests -> Works]
      /\ pc'[t] = label /\ req'[t] = w /\ Others(t)
  BY <1>1, <1>2, <1>3, WorkWrite DEF Begin, Goto
<1>5. UNCHANGED <<clock, stock, owner, deleted, row, order, unbacked, sweep, failures>>
  BY DEF Begin, rows
<1>6. received' \in 0..MaxRequests
  BY <1>1, ConstantsAssumption DEF Begin, TypeOK
<1>7. TypeOK'
  BY <1>1, <1>4, <1>5, <1>6 DEF TypeOK, Works
<1>8. HoldsRenewed /\ OwnersKept /\ BuyersKnown'
  BY <1>5 DEF HoldsRenewed, OwnersKept, IInv, BuyersKnown, BasketsOf
<1>9. WorksOnOwn(t)' /\ ~At(t, "checkout", "write")'
  BY <1>3, <1>4, <1>5 DEF WorksOnOwn, At
<1> QED BY <1>4, <1>5, <1>7, <1>8, <1>9, RequestFrame

LEMMA ArriveStep ==
    ASSUME IInv, NEW t \in Requests, Arrive(t)
    PROVE  IInv'
<1>1. PICK user \in Users :
        \/ \E q \in Quantities :
            AddBegin(t, user, q) \/ EditBegin(t, "update", user, q)
        \/ EditBegin(t, "remove", user, 0)
        \/ CheckoutBegin(t, user)
  BY DEF Arrive
<1>2. Active(user) \subseteq Baskets /\ \A b \in Active(user) : owner[b] = user
  BY DEF Active, BasketsOf
<1>3. Active(user) # {} => Latest(Active(user)) \in Baskets /\ owner[Latest(Active(user))] = user
  BY <1>2, LatestIsMember
<1>4. Quantities \subseteq Nat /\ {"add", "update", "remove", "checkout"} \subseteq Ops
  BY ConstantsAssumption DEF Ops
<1>5. ASSUME NEW q \in Quantities, AddBegin(t, user, q) PROVE IInv'
  <2>1. CASE Active(user) # {}
    BY <1>3, <1>4, <1>5, <2>1, BeginStep DEF AddBegin
  <2>2. CASE Active(user) = {}
    BY <1>4, <1>5, <2>2, BeginStep DEF AddBegin
  <2> QED BY <2>1, <2>2
<1>6. ASSUME NEW op \in {"update", "remove"}, NEW q \in Nat, EditBegin(t, op, user, q) PROVE IInv'
  BY <1>3, <1>4, <1>6, BeginStep DEF EditBegin
<1>7. ASSUME CheckoutBegin(t, user) PROVE IInv'
  BY <1>4, <1>7, BeginStep DEF CheckoutBegin
<1> QED BY <1>1, <1>4, <1>5, <1>6, <1>7

LEMMA CreateBasketStep ==
    ASSUME IInv, NEW t \in Requests, CreateBasket(t)
    PROVE  IInv'
<1>1. TypeOK /\ WorksOnOwn(t) /\ pc[t] = "create" /\ req[t].op = "add" /\ req[t].user \in Users
      /\ req[t] \in Works
  BY DEF IInv, TypeOK, WorksOnOwn, CreateBasket, At, Works
<1>2. PICK b : b = Min({c \in Baskets : owner[c] = NoUser})
  OBVIOUS
<1>3. b \in Baskets /\ owner[b] = NoUser
  <2>1. {c \in Baskets : owner[c] = NoUser} # {}
    BY DEF CreateBasket
  <2> QED BY <1>2, <2>1, BasketTypes, MinIsMember
<1>4. /\ owner' = [owner EXCEPT ![b] = req[t].user]
      /\ req' = [req EXCEPT ![t].basket = b]
      /\ UNCHANGED <<clock, stock, deleted, row, order, unbacked, sweep, received, failures>>
  BY <1>2 DEF CreateBasket
<1>5. PICK w : w = [req[t] EXCEPT !.basket = b]
  OBVIOUS
<1>6. w \in Works /\ w.op = "add" /\ w.user = req[t].user /\ w.basket = b
  BY <1>1, <1>3, <1>5 DEF Works
<1>7. /\ pc' \in [Procs -> PCs] /\ req' \in [Requests -> Works]
      /\ pc'[t] = "write" /\ req'[t] = w /\ Others(t)
  <2>1. req' = [req EXCEPT ![t] = w] /\ "write" \in PCs
    BY <1>4, <1>5 DEF PCs
  <2>2. pc' = [pc EXCEPT ![t] = "write"]
    BY DEF CreateBasket, Goto
  <2> QED BY <1>1, <1>6, <2>1, <2>2, WorkWrite
<1>8. owner' \in [Baskets -> Users \cup {NoUser}] /\ owner'[b] = req[t].user
      /\ \A c \in Baskets \ {b} : owner'[c] = owner[c]
  BY <1>1, <1>3, <1>4 DEF TypeOK
<1>9. TypeOK'
  BY <1>1, <1>4, <1>7, <1>8 DEF TypeOK, Works
<1>10. OwnersKept /\ HoldsRenewed
  BY <1>3, <1>4, <1>8 DEF OwnersKept, HoldsRenewed
<1>11. BuyersKnown'
  <2> SUFFICES ASSUME NEW o \in OrderIds, order[o].gateway # "none"
               PROVE  order[o].buyer \in Users /\ BasketsOf(order[o].buyer)' # {}
    BY <1>4 DEF BuyersKnown, BasketsOf
  <2>1. PICK c \in Baskets : owner[c] = order[o].buyer /\ order[o].buyer \in Users
    BY DEF IInv, BuyersKnown, BasketsOf
  <2>2. owner'[c] = order[o].buyer
    BY <1>10, <2>1, ConstantsAssumption DEF OwnersKept
  <2> QED BY <1>4, <2>1, <2>2 DEF BasketsOf
<1>12. WorksOnOwn(t)' /\ ~At(t, "checkout", "write")'
  BY <1>1, <1>3, <1>6, <1>7, <1>8 DEF WorksOnOwn, At
<1> QED BY <1>4, <1>7, <1>9, <1>10, <1>11, <1>12, RequestFrame

(* The last step of a request.                                             *)
LEMMA FinishFrame ==
    ASSUME IInv, NEW t \in Requests, Finish(t),
           UNCHANGED <<clock, owner, sweep, received, failures>>,
           stock' \in Nat, unbacked' \in Int, row' \in [Baskets -> Rows], HoldsRenewed,
           order' \in [OrderIds -> OrderRows], BuyersKnown',
           \/ deleted' = deleted
           \/ /\ At(t, "checkout", "write")
              /\ deleted' = deleted \cup {req[t].basket}
    PROVE  IInv'
<1>1. /\ pc' \in [Procs -> PCs] /\ req' \in [Requests -> Works]
      /\ pc'[t] = "idle" /\ Others(t)
  BY Finished DEF IInv
<1>2. deleted' \subseteq Baskets
  BY DEF IInv, TypeOK, WorksOnOwn, At
<1>3. TypeOK'
  BY <1>1, <1>2 DEF IInv, TypeOK, Works, Rows, OrderRows
<1>4. WorksOnOwn(t)' /\ ~At(t, "checkout", "write")' /\ OwnersKept
  BY <1>1 DEF WorksOnOwn, At, OwnersKept
<1> QED BY <1>1, <1>3, <1>4, RequestFrame

LEMMA FramesAgree ==
    ASSUME TypeOK
    PROVE  /\ row \in [Baskets -> Rows] /\ order \in [OrderIds -> OrderRows]
           /\ req \in [Requests -> Works] /\ sweep \in [Sweepers -> Sweeps]
           /\ stock \in Nat /\ unbacked \in Int /\ clock \in Nat
BY BasketTypes DEF TypeOK, Rows, OrderRows, Works, Sweeps

(* An order can only be restored to a basket while its buyer has one.      *)
LEMMA BuyersStay ==
    ASSUME IInv, owner' = owner,
           \A o \in OrderIds : \/ order'[o] = order[o]
                               \/ /\ order'[o].buyer = order[o].buyer
                                  /\ order[o].gateway # "none"
                               \/ /\ order'[o].buyer \in Users
                                  /\ BasketsOf(order'[o].buyer) # {}
    PROVE  BuyersKnown'
BY DEF IInv, BuyersKnown, BasketsOf

Renewed(b, r) == ~r.live \/ r.until > clock \/ r = row[b]

LEMMA WriteItemSteps ==
    ASSUME IInv, NEW t \in Requests, AddItem(t) \/ UpdateItem(t) \/ RemoveItem(t)
    PROVE  IInv'
<1>0. PICK b : b = req[t].basket
  OBVIOUS
<1>1. /\ TypeOK /\ b \in Baskets /\ row[b] \in Rows
      /\ req[t].wanted \in Nat /\ req[t].seen \in Nat
  BY <1>0, FramesAgree DEF IInv, WorksOnOwn, AddItem, UpdateItem, RemoveItem, At, Works
<1>2. /\ Finish(t) /\ UNCHANGED <<clock, owner, deleted, order, sweep, received, failures>>
  BY DEF AddItem, UpdateItem, RemoveItem
<1>3. /\ stock' \in Nat /\ unbacked' \in Int
      /\ \/ row' = row
         \/ \E r \in Rows : row' = [row EXCEPT ![b] = r] /\ Renewed(b, r)
  <2>1. CASE AddItem(t)
    <3>1. row[b].qty + req[t].wanted \in Nat /\ row[b].qty \in Nat
      BY <1>1 DEF Rows
    <3>2. CASE stock >= req[t].wanted
      BY <1>0, <1>1, <2>1, <3>1, <3>2, HoldTyped, FramesAgree DEF AddItem, Renewed
    <3>3. CASE ~(stock >= req[t].wanted)
      BY <1>1, <2>1, <3>3, FramesAgree DEF AddItem
    <3> QED BY <3>2, <3>3
  <2>2. CASE UpdateItem(t)
    <3>1. CASE stock >= req[t].wanted - req[t].seen
      <4>1. stock' \in Nat /\ unbacked' = unbacked
        BY <1>1, <2>2, <3>1, FramesAgree DEF UpdateItem
      <4>2. row' = [row EXCEPT ![b] = IF row[b].live THEN Hold(req[t].wanted) ELSE row[b]]
        BY <1>0, <2>2, <3>1 DEF UpdateItem
      <4>3. PICK r : r = IF row[b].live THEN Hold(req[t].wanted) ELSE row[b]
        OBVIOUS
      <4>4. r \in Rows /\ Renewed(b, r)
        BY <1>1, <4>3, HoldTyped DEF Renewed
      <4> QED BY <1>1, <4>1, <4>2, <4>3, <4>4, FramesAgree
    <3>2. CASE ~(stock >= req[t].wanted - req[t].seen)
      BY <1>1, <2>2, <3>2, FramesAgree DEF UpdateItem
    <3> QED BY <3>1, <3>2
  <2>3. CASE RemoveItem(t)
    <3>1. Dead(row[b]) \in Rows /\ Renewed(b, Dead(row[b]))
      BY <1>1, DeadTyped DEF Renewed
    <3>2. row' = [row EXCEPT ![b] = Dead(row[b])]
      BY <1>0, <2>3 DEF RemoveItem
    <3>3. stock' \in Nat /\ unbacked' \in Int
      BY <1>1, <2>3, FramesAgree DEF RemoveItem
    <3> QED BY <3>1, <3>2, <3>3
  <2> QED BY <2>1, <2>2, <2>3
<1>4. row' \in [Baskets -> Rows] /\ HoldsRenewed
  <2>1. CASE row' = row
    BY <1>1, <2>1, FramesAgree DEF HoldsRenewed
  <2>2. ASSUME NEW r \in Rows, row' = [row EXCEPT ![b] = r], Renewed(b, r)
        PROVE  row' \in [Baskets -> Rows] /\ HoldsRenewed
    BY <1>1, <2>2, RowWrite DEF HoldsRenewed, Renewed
  <2> QED BY <1>3, <2>1, <2>2
<1>5. BuyersKnown' /\ order' \in [OrderIds -> OrderRows]
  BY <1>1, <1>2, BuyersStay, FramesAgree
<1> QED BY <1>2, <1>3, <1>4, <1>5, FinishFrame

LEMMA ReadSteps ==
    ASSUME IInv, NEW t \in Requests, ReadItem(t) \/ CheckoutRead(t)
    PROVE  IInv'
<1>1. /\ TypeOK /\ req[t] \in Works /\ WorksOnOwn(t) /\ pc[t] = "read"
      /\ UNCHANGED <<clock, stock, owner, deleted, row, order, unbacked, sweep, received, failures>>
  BY FramesAgree DEF IInv, ReadItem, CheckoutRead, At, rows
<1>2. BuyersKnown' /\ order' \in [OrderIds -> OrderRows] /\ HoldsRenewed /\ OwnersKept
      /\ row' \in [Baskets -> Rows] /\ stock' \in Nat /\ unbacked' \in Int
  BY <1>1, BuyersStay, FramesAgree DEF HoldsRenewed, OwnersKept
<1>3. CASE Finish(t)
  BY <1>1, <1>2, <1>3, FinishFrame
<1>4. ASSUME NEW w \in Works, req' = [req EXCEPT ![t] = w], pc' = [pc EXCEPT ![t] = "write"],
             w.user = req[t].user, w.basket \in Baskets, owner[w.basket] = req[t].user,
             w.op = "checkout" => LockFree(w.user) /\ w.basket \notin deleted
      PROVE  IInv'
  <2>1. /\ pc' \in [Procs -> PCs] /\ req' \in [Requests -> Works]
        /\ pc'[t] = "write" /\ req'[t] = w /\ Others(t)
    BY <1>1, <1>4, WorkWrite DEF PCs
  <2>2. TypeOK'
    BY <1>1, <2>1 DEF TypeOK, Works
  <2>3. WorksOnOwn(t)'
    BY <1>1, <1>4, <2>1 DEF WorksOnOwn
  <2>4. At(t, "checkout", "write")' => LockFree(req'[t].user) /\ req'[t].basket \notin deleted'
    BY <1>1, <1>4, <2>1 DEF At
  <2> QED BY <1>1, <1>2, <2>1, <2>2, <2>3, <2>4, RequestFrame
<1>5. CASE ReadItem(t) /\ ~Finish(t)
  <2>1. PICK w : w = [req[t] EXCEPT !.seen = row[req[t].basket].qty]
    OBVIOUS
  <2>2. req[t].basket \in Baskets /\ owner[req[t].basket] = req[t].user
        /\ row[req[t].basket].qty \in Nat /\ req[t].op \in {"update", "remove"}
    BY <1>1, <1>5, FramesAgree DEF ReadItem, WorksOnOwn, Rows
  <2>3. w \in Works /\ w.user = req[t].user /\ w.basket = req[t].basket /\ w.op = req[t].op
    BY <1>1, <2>1, <2>2 DEF Works
  <2>4. req' = [req EXCEPT ![t] = w] /\ pc' = [pc EXCEPT ![t] = "write"]
    BY <1>5, <2>1 DEF ReadItem, Goto
  <2> QED BY <1>4, <2>2, <2>3, <2>4
<1>6. CASE CheckoutRead(t) /\ ~Finish(t)
  <2>1. PICK b : b = Latest(Active(req[t].user))
    OBVIOUS
  <2>2. Active(req[t].user) # {} /\ LockFree(req[t].user)
        /\ req' = [req EXCEPT ![t].basket = b, ![t].seen = row[b].qty]
        /\ pc' = [pc EXCEPT ![t] = "write"]
    BY <1>6, <2>1 DEF CheckoutRead, Goto
  <2>3. b \in Baskets /\ owner[b] = req[t].user /\ b \notin deleted /\ row[b].qty \in Nat
    <3>1. Active(req[t].user) \subseteq Baskets
      BY DEF Active, BasketsOf
    <3>2. b \in Active(req[t].user)
      BY <2>1, <2>2, <3>1, LatestIsMember
    <3> QED BY <1>1, <3>1, <3>2, FramesAgree DEF Active, BasketsOf, Rows
  <2>4. PICK w : w = [req[t] EXCEPT !.basket = b, !.seen = row[b].qty]
    OBVIOUS
  <2>5. w \in Works /\ w.user = req[t].user /\ w.basket = b
    BY <1>1, <2>3, <2>4 DEF Works
  <2>6. req' = [req EXCEPT ![t] = w]
    BY <1>1, <2>2, <2>4, FramesAgree
  <2> QED BY <1>4, <2>2, <2>3, <2>5, <2>6
<1> QED BY <1>3, <1>5, <1>6

LEMMA CheckoutStep ==
    ASSUME IInv, NEW t \in Requests, Checkout(t)
    PROVE  IInv'
<1>0. PICK b : b = req[t].basket
  OBVIOUS
<1>1. /\ TypeOK /\ req[t] \in Works /\ b \in Baskets /\ row[b] \in Rows
      /\ At(t, "checkout", "write") /\ req[t].user \in Users /\ owner[b] = req[t].user
  BY <1>0, FramesAgree DEF IInv, Checkout, At, WorksOnOwn
<1>2. PICK f : f = Min({o \in OrderIds : order[o] = NoOrder})
  OBVIOUS
<1>3. f \in OrderIds
  <2>1. {o \in OrderIds : order[o] = NoOrder} # {}
    BY DEF Checkout
  <2> QED BY <1>2, <2>1, BasketTypes, MinIsMember
<1>4. PICK r : r = [status |-> "PENDING", buyer |-> req[t].user, qty |-> req[t].seen,
                    gateway |-> "asked"]
  OBVIOUS
<1>5. r \in OrderRows /\ r.buyer \in Users /\ b \in BasketsOf(r.buyer)
  BY <1>1, <1>4 DEF OrderRows, Works, BasketsOf
<1>6. /\ order' = [order EXCEPT ![f] = r] /\ row' = [row EXCEPT ![b] = Dead(row[b])]
      /\ deleted' = deleted \cup {b} /\ Finish(t)
      /\ UNCHANGED <<clock, stock, owner, unbacked, sweep, received, failures>>
  BY <1>0, <1>2, <1>4 DEF Checkout
<1>7. row' \in [Baskets -> Rows] /\ HoldsRenewed
  BY <1>1, <1>6, DeadTyped, RowWrite DEF HoldsRenewed
<1>8. order' \in [OrderIds -> OrderRows] /\ order'[f] = r
      /\ \A o \in OrderIds \ {f} : order'[o] = order[o]
  BY <1>1, <1>3, <1>5, <1>6, FramesAgree
<1>9. BuyersKnown'
  BY <1>5, <1>6, <1>8, BuyersStay
<1>10. stock' \in Nat /\ unbacked' \in Int
  BY <1>1, <1>6, FramesAgree
<1> QED BY <1>0, <1>1, <1>6, <1>7, <1>8, <1>9, <1>10, FinishFrame

--------------------------------------------------------------------------------
(* Settlement, the sweeper and the clock.                                  *)

LEMMA RestoreStep ==
    ASSUME IInv, NEW o \in OrderIds, order[o].gateway # "none",
           RestoreToBasket(order[o].buyer, order[o].qty)
    PROVE  /\ row' \in [Baskets -> Rows] /\ HoldsRenewed
           /\ deleted' \subseteq deleted /\ unbacked' \in Int
<1>1. /\ TypeOK /\ order[o].qty \in Nat /\ BasketsOf(order[o].buyer) # {}
      /\ BasketsOf(order[o].buyer) \subseteq Baskets
  BY FramesAgree DEF IInv, BuyersKnown, OrderRows, BasketsOf
<1>2. PICK b : b = Latest(BasketsOf(order[o].buyer))
  OBVIOUS
<1>3. b \in Baskets
  BY <1>1, <1>2, LatestIsMember
<1>4. /\ deleted' = deleted \ {b} /\ row' = [row EXCEPT ![b] = Hold(order[o].qty)]
      /\ unbacked' = unbacked + order[o].qty - IF row[b].live THEN row[b].qty ELSE 0
  BY <1>2 DEF RestoreToBasket
<1>5. row' \in [Baskets -> Rows] /\ HoldsRenewed
  BY <1>1, <1>3, <1>4, HoldTyped, RowWrite DEF HoldsRenewed
<1>6. unbacked' \in Int
  BY <1>1, <1>3, <1>4, FramesAgree DEF Rows
<1> QED BY <1>4, <1>5, <1>6

LEMMA SettleStep ==
    ASSUME IInv, NEW o \in OrderIds, Settle(o)
    PROVE  IInv'
<1>1. /\ TypeOK /\ order[o] \in OrderRows
      /\ UNCHANGED <<clock, owner, pc, req, sweep, received, failures>>
  BY FramesAgree DEF IInv, Settle, Release, GatewayAccepts, GatewayRefuses, PaymentFails,
                     Pay, PayLate, Settling
<1>2. PICK r \in OrderRows : order' = [order EXCEPT ![o] = r] /\ r.buyer = order[o].buyer
        /\ (r.gateway # "none" => order[o].gateway # "none")
  <2>1. CASE \E status \in {"PAID", "FAILED"} : Mark(o, status)
    <3>1. PICK status \in {"PAID", "FAILED"} : Mark(o, status)
      BY <2>1
    <3>2. PICK r : r = [order[o] EXCEPT !.status = status]
      OBVIOUS
    <3>3. r \in OrderRows /\ r.buyer = order[o].buyer /\ r.gateway = order[o].gateway
      BY <1>1, <3>1, <3>2 DEF OrderRows
    <3> QED BY <3>1, <3>2, <3>3 DEF Mark
  <2>2. CASE GatewayAccepts(o)
    <3>1. PICK r : r = [order[o] EXCEPT !.gateway = "accepted"]
      OBVIOUS
    <3>2. r \in OrderRows /\ r.buyer = order[o].buyer
      BY <1>1, <3>1 DEF OrderRows
    <3> QED BY <2>2, <3>1, <3>2 DEF GatewayAccepts
  <2>3. CASE GatewayRefuses(o)
    <3>1. PICK r : r = [order[o] EXCEPT !.gateway = "refused", !.status = ReleasedStatus(o)]
      OBVIOUS
    <3>2. r \in OrderRows /\ r.buyer = order[o].buyer
      BY <1>1, <3>1 DEF OrderRows, ReleasedStatus
    <3>3. order' = [order EXCEPT ![o] = r]
      BY <1>1, <2>3, <3>1, FramesAgree DEF GatewayRefuses
    <3> QED BY <2>3, <3>2, <3>3 DEF GatewayRefuses
  <2> QED BY <2>1, <2>2, <2>3 DEF Settle, Release, PaymentFails, Pay, PayLate
<1>3. /\ row' \in [Baskets -> Rows] /\ HoldsRenewed
      /\ deleted' \subseteq deleted /\ unbacked' \in Int /\ stock' \in Nat
  <2>1. order[o].qty \in Nat /\ ReleasedStock(o) \in Nat
    BY <1>1 DEF OrderRows, ReleasedStock
  <2>2. CASE GatewayRefuses(o) \/ PaymentFails(o)
    BY <1>1, <2>1, <2>2, RestoreStep, FramesAgree DEF GatewayRefuses, PaymentFails
  <2>3. CASE Release(o) \/ GatewayAccepts(o) \/ Pay(o) \/ PayLate(o)
    BY <1>1, <2>1, <2>3, FramesAgree DEF Release, GatewayAccepts, Pay, PayLate, HoldsRenewed
  <2> QED BY <2>2, <2>3 DEF Settle
<1>4. order' \in [OrderIds -> OrderRows] /\ order'[o] = r
      /\ \A x \in OrderIds \ {o} : order'[x] = order[x]
  BY <1>1, <1>2, FramesAgree
<1>5. BuyersKnown'
  BY <1>1, <1>2, <1>4 DEF IInv, BuyersKnown, BasketsOf
<1>6. TypeOK'
  BY <1>1, <1>3, <1>4 DEF TypeOK, Rows, OrderRows
<1>7. SweptBefore' /\ SweepReleasesHeld'
  BY <1>1, <1>3, <1>6, FramesAgree, SweepFrame
<1> QED BY <1>1, <1>3, <1>5, <1>6, <1>7, OtherFrame

LEMMA SweepWrite ==
    ASSUME TypeOK, NEW s \in Sweepers, NEW label \in PCs, NEW w \in Sweeps,
           pc' = [pc EXCEPT ![s] = label], sweep' = [sweep EXCEPT ![s] = w]
    PROVE  /\ pc' \in [Procs -> PCs] /\ sweep' \in [Sweepers -> Sweeps]
           /\ sweep'[s] = w /\ \A z \in Sweepers \ {s} : sweep'[z] = sweep[z]
           /\ \A t \in Requests : pc'[t] = pc[t]
<1>1. s \in Procs /\ s \notin Requests /\ Requests \subseteq Procs
  BY ConstantsAssumption DEF Procs
<1> QED BY <1>1 DEF TypeOK, Sweeps

LEMMA SweepStep ==
    ASSUME IInv, NEW s \in Sweepers, Sweep(s) \/ SweepFails(s)
    PROVE  IInv'
<1>1. /\ TypeOK /\ clock \in Nat /\ sweep[s] \in Sweeps /\ row \in [Baskets -> Rows]
      /\ NoSweep \in Sweeps
      /\ UNCHANGED <<clock, owner, deleted, order, unbacked, req, received>>
  BY FramesAgree DEF IInv, Sweep, SweepList, SweepClaim, SweepEnd, SweepFails, rows, NoSweep, Sweeps
<1>2. failures' \in 0..MaxFailures
  <2>1. CASE SweepFails(s)
    BY <1>1, <2>1, ConstantsAssumption DEF SweepFails, TypeOK
  <2>2. CASE Sweep(s)
    BY <1>1, <2>2 DEF Sweep, SweepList, SweepClaim, SweepEnd, TypeOK
  <2> QED BY <2>1, <2>2
<1>3. BuyersKnown'
  BY <1>1, BuyersStay
<1>4. CASE SweepList(s)
  <2>1. PICK L : L = {b \in Baskets : Lapsed(b, clock)}
    OBVIOUS
  <2>2. PICK w : w = [now |-> clock, listed |-> L,
                      qty |-> [b \in Baskets |-> IF b \in L THEN row[b].qty ELSE 0]]
    OBVIOUS
  <2>3. /\ w \in Sweeps /\ w.now = clock /\ w.listed = L
        /\ \A b \in L : b \in Baskets /\ w.qty[b] = row[b].qty
    BY <1>1, <2>1, <2>2 DEF Sweeps, Rows
  <2>4. pc' = [pc EXCEPT ![s] = "sweeping"] /\ sweep' = [sweep EXCEPT ![s] = w]
        /\ UNCHANGED <<stock, row>>
    BY <1>4, <2>1, <2>2 DEF SweepList, Goto, rows
  <2>5. /\ pc' \in [Procs -> PCs] /\ sweep' \in [Sweepers -> Sweeps]
        /\ sweep'[s] = w /\ \A z \in Sweepers \ {s} : sweep'[z] = sweep[z]
        /\ \A t \in Requests : pc'[t] = pc[t]
    BY <1>1, <2>3, <2>4, SweepWrite DEF PCs
  <2>6. TypeOK'
    BY <1>1, <1>2, <2>4, <2>5 DEF TypeOK, Sweeps
  <2>7. SweptBefore'
    BY <1>1, <2>3, <2>5 DEF IInv, SweptBefore
  <2>8. SweepReleasesHeld'
    BY <1>1, <2>3, <2>4, <2>5 DEF IInv, SweepReleasesHeld, Lapsed
  <2> QED BY <1>1, <1>3, <2>5, <2>6, <2>7, <2>8, OtherFrame
<1>5. ASSUME NEW b \in Baskets, SweepClaim(s, b) PROVE IInv'
  <2>1. PICK w : w = [sweep[s] EXCEPT !.listed = @ \ {b}]
    OBVIOUS
  <2>2. /\ w \in Sweeps /\ w.now = sweep[s].now /\ w.qty = sweep[s].qty
        /\ w.listed \subseteq sweep[s].listed /\ sweep[s].qty[b] \in Nat
    BY <1>1, <2>1 DEF Sweeps
  <2>3. sweep' = [sweep EXCEPT ![s] = w] /\ pc' = pc
    BY <1>5, <2>1 DEF SweepClaim
  <2>4. /\ sweep' \in [Sweepers -> Sweeps] /\ sweep'[s] = w
        /\ \A z \in Sweepers \ {s} : sweep'[z] = sweep[z]
    BY <1>1, <2>2, <2>3, FramesAgree
  <2>5. row' \in [Baskets -> Rows] /\ HoldsRenewed /\ stock' \in Nat
    <3>1. CASE Lapsed(b, sweep[s].now)
      BY <1>1, <1>5, <2>2, <3>1, DeadTyped, RowWrite, FramesAgree DEF SweepClaim, HoldsRenewed
    <3>2. CASE ~Lapsed(b, sweep[s].now)
      BY <1>1, <1>5, <3>2, FramesAgree DEF SweepClaim, HoldsRenewed
    <3> QED BY <3>1, <3>2
  <2>6. TypeOK'
    BY <1>1, <1>2, <2>3, <2>4, <2>5 DEF TypeOK, Sweeps, Rows
  <2>7. SweptBefore' /\ SweepReleasesHeld'
    BY <1>1, <2>2, <2>4, <2>5, <2>6, SweepFrame
  <2> QED BY <1>1, <1>3, <2>3, <2>6, <2>7, OtherFrame
<1>6. CASE SweepEnd(s) \/ SweepFails(s)
  <2>1. pc' = [pc EXCEPT ![s] = "idle"] /\ sweep' = [sweep EXCEPT ![s] = NoSweep]
        /\ UNCHANGED <<stock, row>>
    BY <1>6 DEF SweepEnd, SweepFails, Goto, rows
  <2>2. /\ pc' \in [Procs -> PCs] /\ sweep' \in [Sweepers -> Sweeps]
        /\ sweep'[s] = NoSweep /\ \A z \in Sweepers \ {s} : sweep'[z] = sweep[z]
        /\ \A t \in Requests : pc'[t] = pc[t]
    BY <1>1, <2>1, SweepWrite DEF PCs
  <2>3. TypeOK'
    BY <1>1, <1>2, <2>1, <2>2 DEF TypeOK, Sweeps
  <2>4. SweptBefore'
    BY <1>1, <2>2 DEF IInv, SweptBefore, NoSweep
  <2>5. SweepReleasesHeld'
    BY <1>1, <2>1, <2>2 DEF IInv, SweepReleasesHeld, Lapsed, NoSweep
  <2> QED BY <1>1, <1>3, <2>2, <2>3, <2>4, <2>5, OtherFrame
<1> QED BY <1>4, <1>5, <1>6 DEF Sweep

LEMMA TickStep ==
    ASSUME IInv, Tick \/ UNCHANGED vars
    PROVE  IInv'
<1>1. /\ UNCHANGED <<stock, owner, deleted, row, order, unbacked, pc, req, sweep, received, failures>>
      /\ TypeOK /\ clock \in Nat
  BY FramesAgree DEF IInv, Tick, vars, rows
<1>2. clock' \in 0..MaxTime /\ clock' >= clock
  BY <1>1, BasketTypes DEF Tick, vars, TypeOK
<1>3. TypeOK'
  BY <1>1, <1>2 DEF TypeOK
<1>4. BuyersKnown' /\ HoldsRenewed
  BY <1>1, BuyersStay DEF HoldsRenewed
<1>5. SweptBefore' /\ SweepReleasesHeld'
  BY <1>1, <1>2, <1>3, <1>4, SweepFrame
<1> QED BY <1>1, <1>3, <1>4, <1>5, OtherFrame

LEMMA Initially == Init => IInv
<1> SUFFICES ASSUME Init PROVE IInv
  OBVIOUS
<1>1. TypeOK
  BY ConstantsAssumption
  DEF Init, TypeOK, NoRow, NoOrder, NoReq, NoSweep, Procs, PCs, Ops
<1>2. LockedApart /\ CheckoutOwnsBasket /\ \A t \in Requests : WorksOnOwn(t)
  BY DEF Init, LockedApart, CheckoutOwnsBasket, WorksOnOwn, At, Procs
<1>3. BuyersKnown
  BY DEF Init, BuyersKnown, NoOrder
<1>4. SweptBefore /\ SweepReleasesHeld
  BY DEF Init, SweptBefore, SweepReleasesHeld, NoSweep
<1> QED BY <1>1, <1>2, <1>3, <1>4 DEF IInv

LEMMA Inductive == IInv /\ [Next]_vars => IInv'
<1> SUFFICES ASSUME IInv, [Next]_vars PROVE IInv'
  OBVIOUS
<1>1. ASSUME NEW t \in Requests, Arrive(t) \/ Handle(t) PROVE IInv'
  BY <1>1, ArriveStep, CreateBasketStep, WriteItemSteps, ReadSteps, CheckoutStep DEF Handle
<1>2. ASSUME NEW o \in OrderIds, Settle(o) PROVE IInv'
  BY <1>2, SettleStep
<1>3. ASSUME NEW s \in Sweepers, Sweep(s) \/ SweepFails(s) PROVE IInv'
  BY <1>3, SweepStep
<1>4. CASE Tick \/ UNCHANGED vars
  BY <1>4, TickStep
<1> QED BY <1>1, <1>2, <1>3, <1>4 DEF Next

LEMMA Invariant == Spec => []IInv
BY Initially, Inductive, PTL DEF Spec

(* Every variable has its type: no step makes the shelf negative, and a    *)
(* basket that is written is one the database has.                         *)
THEOREM TypeCorrect == Spec => []TypeOK
<1>1. IInv => TypeOK
  BY DEF IInv
<1> QED BY <1>1, Invariant, PTL

(* A sweep never puts another quantity on the shelf than the lapsed row    *)
(* holds when it is deleted, however long ago the sweep read it.           *)
THEOREM SweepAlwaysReleasesHeld == Spec => []SweepReleasesHeld
<1>1. IInv => SweepReleasesHeld
  BY DEF IInv
<1> QED BY <1>1, Invariant, PTL

(* No two checkouts order the same basket.                                 *)
THEOREM CheckoutAlwaysOwnsBasket == Spec => []CheckoutOwnsBasket
<1>1. IInv => CheckoutOwnsBasket
  BY DEF IInv
<1> QED BY <1>1, Invariant, PTL

--------------------------------------------------------------------------------
(* With one request at a time, what a request has read is still so when it *)
(* writes: neither settlement nor the sweeper comes between.               *)

InBaskets == Cardinality(UnitsIn([b \in Baskets |-> HeldBy(b)]))
InOrders == Cardinality(UnitsIn([o \in OrderIds |-> OrderedBy(o)]))

Holds(r) == IF r.live THEN r.qty ELSE 0
Takes(r) == IF r.status \in {"PENDING", "PAID"} THEN r.qty ELSE 0

LEMMA UnitsTyped ==
    ASSUME TypeOK
    PROVE  InBaskets \in Nat /\ InOrders \in Nat
<1>1. [b \in Baskets |-> HeldBy(b)] \in [Baskets -> Nat]
  BY DEF TypeOK, HeldBy
<1>2. [o \in OrderIds |-> OrderedBy(o)] \in [OrderIds -> Nat]
  BY DEF TypeOK, OrderedBy
<1> QED BY <1>1, <1>2, BasketTypes, UnitsFinite DEF InBaskets, InOrders

LEMMA UnitsTypedNext ==
    ASSUME TypeOK'
    PROVE  InBaskets' \in Nat /\ InOrders' \in Nat
<1>1. [b \in Baskets |-> HeldBy(b)'] \in [Baskets -> Nat]
  BY DEF TypeOK, HeldBy
<1>2. [o \in OrderIds |-> OrderedBy(o)'] \in [OrderIds -> Nat]
  BY DEF TypeOK, OrderedBy
<1> QED BY <1>1, <1>2, BasketTypes, UnitsFinite DEF InBaskets, InOrders

LEMMA HeldChange ==
    ASSUME TypeOK, NEW b \in Baskets, NEW r \in Rows, row' = [row EXCEPT ![b] = r]
    PROVE  InBaskets' = InBaskets - Holds(row[b]) + Holds(r)
<1>1. PICK f : f = [c \in Baskets |-> HeldBy(c)]
  OBVIOUS
<1>2. PICK g : g = [c \in Baskets |-> HeldBy(c)']
  OBVIOUS
<1>3. row'[b] = r /\ \A c \in Baskets \ {b} : row'[c] = row[c]
  BY RowWrite
<1>4. f \in [Baskets -> Nat] /\ f[b] = Holds(row[b])
  BY <1>1 DEF TypeOK, HeldBy, Holds
<1>5. PICK n \in Nat : n = Holds(r)
  BY DEF Holds, Rows
<1>6. g = [f EXCEPT ![b] = n]
  <2>1. HeldBy(b)' = n
    BY <1>3, <1>5 DEF HeldBy, Holds
  <2>2. \A c \in Baskets \ {b} : HeldBy(c)' = HeldBy(c)
    BY <1>3 DEF HeldBy
  <2> QED BY <1>1, <1>2, <2>1, <2>2
<1>7. IsFiniteSet(Baskets) /\ f \in [Baskets -> Nat]
  BY <1>4, BasketTypes
<1>8. Cardinality(UnitsIn(g)) = Cardinality(UnitsIn(f)) - f[b] + n
  BY <1>6, <1>7, UnitsChange, ZenonT(60)
<1> QED BY <1>1, <1>2, <1>4, <1>5, <1>8 DEF InBaskets

LEMMA OrderedChange ==
    ASSUME TypeOK, NEW o \in OrderIds, NEW r \in OrderRows, order' = [order EXCEPT ![o] = r]
    PROVE  InOrders' = InOrders - Takes(order[o]) + Takes(r)
<1>1. PICK f : f = [c \in OrderIds |-> OrderedBy(c)]
  OBVIOUS
<1>2. PICK g : g = [c \in OrderIds |-> OrderedBy(c)']
  OBVIOUS
<1>3. order'[o] = r /\ \A c \in OrderIds \ {o} : order'[c] = order[c]
  BY DEF TypeOK
<1>4. f \in [OrderIds -> Nat] /\ f[o] = Takes(order[o])
  BY <1>1 DEF TypeOK, OrderedBy, Takes
<1>5. PICK n \in Nat : n = Takes(r)
  BY DEF Takes, OrderRows
<1>6. g = [f EXCEPT ![o] = n]
  BY <1>1, <1>2, <1>3, <1>5 DEF OrderedBy, Takes
<1>7. IsFiniteSet(OrderIds) /\ f \in [OrderIds -> Nat]
  BY <1>4, BasketTypes
<1>8. Cardinality(UnitsIn(g)) = Cardinality(UnitsIn(f)) - f[o] + n
  BY <1>6, <1>7, UnitsChange, ZenonT(60)
<1> QED BY <1>1, <1>2, <1>4, <1>5, <1>8 DEF InOrders

LEMMA UnitsAre == Units = stock + InBaskets + InOrders
BY DEF Units, InBaskets, InOrders

LEMMA UnitsKept ==
    /\ row' = row => InBaskets' = InBaskets
    /\ order' = order => InOrders' = InOrders
BY DEF InBaskets, InOrders, HeldBy, OrderedBy

OneAtATime == \A t, u \in Requests : t # u => pc[t] = "idle" \/ pc[u] = "idle"

ReadTrue(t) ==
    pc[t] = "write" /\ req[t].op \in {"update", "remove", "checkout"} =>
        row[req[t].basket].live /\ row[req[t].basket].qty = req[t].seen

Balanced == stock + InBaskets + InOrders = ShelfStock + unbacked

SerialInv ==
    /\ IInv
    /\ OneAtATime
    /\ \A t \in Requests : ReadTrue(t)
    /\ Balanced

Balances ==
    stock' + InBaskets' + InOrders' - unbacked' = stock + InBaskets + InOrders - unbacked

LEMMA BalancedStep ==
    ASSUME TypeOK, TypeOK', Balanced, Balances
    PROVE  Balanced'
<1>1. PICK a, b, c, u : a = stock /\ b = InBaskets /\ c = InOrders /\ u = unbacked
  OBVIOUS
<1>2. PICK x, y, z, v : x = stock' /\ y = InBaskets' /\ z = InOrders' /\ v = unbacked'
  OBVIOUS
<1>3. /\ a \in Nat /\ b \in Nat /\ c \in Nat /\ u \in Int /\ ShelfStock \in Nat
  BY <1>1, UnitsTyped, ConstantsAssumption DEF TypeOK
<1>4. x \in Nat /\ y \in Nat /\ z \in Nat /\ v \in Int
  BY <1>2, UnitsTypedNext DEF TypeOK
<1>5. a + b + c = ShelfStock + u
  BY <1>1 DEF Balanced
<1>6. x + y + z - v = a + b + c - u
  BY <1>1, <1>2 DEF Balances
<1>7. x + y + z = ShelfStock + v
  BY <1>3, <1>4, <1>5, <1>6
<1> QED BY <1>2, <1>7 DEF Balanced

(* The request that works does so alone.                                   *)
LEMMA AloneFrame ==
    ASSUME SerialInv, IInv', NEW t \in Requests, Others(t), ReadTrue(t)', Balances,
           \A u \in Requests \ {t} : pc[u] = "idle"
    PROVE  SerialInv'
<1>1. OneAtATime' /\ \A u \in Requests \ {t} : ReadTrue(u)'
  BY DEF OneAtATime, Others, ReadTrue
<1>2. Balanced'
  BY BalancedStep DEF SerialInv, IInv
<1> QED BY <1>1, <1>2 DEF SerialInv

LEMMA AloneWrite ==
    ASSUME SerialInv, IInv', NEW t \in Requests, Finish(t), Balances,
           \A u \in Requests \ {t} : pc[u] = "idle"
    PROVE  SerialInv'
<1>1. pc'[t] = "idle" /\ Others(t)
  BY Finished DEF SerialInv, IInv
<1> QED BY <1>1, AloneFrame DEF ReadTrue

(* Steps that read no more than they need.                                 *)
LEMMA SerialReads ==
    ASSUME SerialInv, IInv', NEW t \in Requests,
           \/ Arrive(t) /\ Serial
           \/ CreateBasket(t) \/ ReadItem(t) \/ CheckoutRead(t)
    PROVE  SerialInv'
<1>0. /\ TypeOK /\ t \in Procs /\ "write" # "idle"
      /\ \A u \in Requests \ {t} : u \in Procs
  BY DEF SerialInv, IInv, Procs
<1>1. UNCHANGED <<stock, row, order, unbacked>>
  BY DEF Arrive, AddBegin, EditBegin, CheckoutBegin, Begin, CreateBasket, ReadItem,
         CheckoutRead, rows
<1>2. Balances
  BY <1>1, UnitsKept DEF Balances
<1>3. \A u \in Requests \ {t} : pc[u] = "idle"
  <2>1. CASE Arrive(t) /\ Serial
    BY <2>1 DEF Arrive, AddBegin, EditBegin, CheckoutBegin, Begin, Quiet
  <2>2. CASE CreateBasket(t) \/ ReadItem(t) \/ CheckoutRead(t)
    <3>1. pc[t] # "idle"
      BY <2>2 DEF CreateBasket, ReadItem, CheckoutRead, At
    <3> QED BY <3>1 DEF SerialInv, OneAtATime
  <2> QED BY <2>1, <2>2
<1>4. CASE Finish(t)
  BY <1>2, <1>3, <1>4, AloneWrite
<1>5. ASSUME NEW label \in PCs, NEW w \in Works,
             pc' = [pc EXCEPT ![t] = label], req' = [req EXCEPT ![t] = w],
             label = "write" => \/ w.op = "add"
                                \/ row[w.basket].live /\ row[w.basket].qty = w.seen
      PROVE  SerialInv'
  <2>1. pc'[t] = label /\ req'[t] = w /\ Others(t)
    BY <1>0, <1>5, WorkWrite
  <2>2. ReadTrue(t)'
    BY <1>1, <1>5, <2>1 DEF ReadTrue
  <2> QED BY <1>2, <1>3, <2>1, <2>2, AloneFrame
<1>6. ASSUME NEW op \in {"add", "update", "remove", "checkout"}, NEW user \in Users,
             NEW wanted \in Nat, NEW basket \in Baskets \cup {0},
             NEW label \in {"create", "read", "write"},
             Begin(t, op, user, wanted, basket, label), label = "write" => op = "add"
      PROVE  SerialInv'
  <2>1. PICK w : w = [op |-> op, user |-> user, wanted |-> wanted,
                      now |-> clock, basket |-> basket, seen |-> 0]
    OBVIOUS
  <2>2. w \in Works /\ w.op = op /\ label \in PCs
    BY <1>0, <2>1, FramesAgree DEF Works, Ops, PCs
  <2> QED BY <1>5, <1>6, <2>1, <2>2 DEF Begin, Goto
<1>7. CASE Arrive(t)
  <2>1. PICK user \in Users :
        \/ \E q \in Quantities :
            AddBegin(t, user, q) \/ EditBegin(t, "update", user, q)
        \/ EditBegin(t, "remove", user, 0)
        \/ CheckoutBegin(t, user)
    BY <1>7 DEF Arrive
  <2>2. Active(user) # {} => Latest(Active(user)) \in Baskets
    <3>1. Active(user) \subseteq Baskets
      BY DEF Active, BasketsOf
    <3> QED BY <3>1, LatestIsMember
  <2>3. Quantities \subseteq Nat
    BY ConstantsAssumption
  <2>4. ASSUME NEW q \in Quantities, AddBegin(t, user, q) PROVE SerialInv'
    <3>1. CASE Active(user) # {}
      BY <1>6, <2>2, <2>3, <2>4, <3>1 DEF AddBegin
    <3>2. CASE Active(user) = {}
      BY <1>6, <2>3, <2>4, <3>2 DEF AddBegin
    <3> QED BY <3>1, <3>2
  <2>5. ASSUME NEW op \in {"update", "remove"}, NEW q \in Nat, EditBegin(t, op, user, q)
        PROVE  SerialInv'
    BY <1>6, <2>2, <2>5 DEF EditBegin
  <2>6. ASSUME CheckoutBegin(t, user) PROVE SerialInv'
    BY <1>6, <2>6 DEF CheckoutBegin
  <2> QED BY <2>1, <2>3, <2>4, <2>5, <2>6
<1>8. CASE CreateBasket(t)
  <2>1. PICK b : b = Min({c \in Baskets : owner[c] = NoUser})
    OBVIOUS
  <2>2. b \in Baskets
    <3>1. {c \in Baskets : owner[c] = NoUser} # {}
      BY <1>8 DEF CreateBasket
    <3> QED BY <2>1, <3>1, BasketTypes, MinIsMember
  <2>3. PICK w : w = [req[t] EXCEPT !.basket = b]
    OBVIOUS
  <2>4. w \in Works /\ w.op = "add"
    BY <1>0, <1>8, <2>2, <2>3, FramesAgree DEF Works, CreateBasket, At
  <2> QED BY <1>5, <1>8, <2>1, <2>3, <2>4 DEF CreateBasket, Goto, PCs
<1>9. CASE ReadItem(t) /\ ~Finish(t)
  <2>1. PICK w : w = [req[t] EXCEPT !.seen = row[req[t].basket].qty]
    OBVIOUS
  <2>2. req[t].basket \in Baskets /\ row[req[t].basket].qty \in Nat /\ row[req[t].basket].live
    BY <1>0, <1>9, FramesAgree DEF ReadItem, SerialInv, IInv, WorksOnOwn, Rows
  <2>3. /\ w \in Works /\ w.basket = req[t].basket /\ w.seen = row[req[t].basket].qty
    BY <1>0, <2>1, <2>2, FramesAgree DEF Works
  <2> QED BY <1>5, <1>9, <2>1, <2>2, <2>3 DEF ReadItem, Goto, PCs
<1>10. CASE CheckoutRead(t) /\ ~Finish(t)
  <2>1. PICK b : b = Latest(Active(req[t].user))
    OBVIOUS
  <2>2. Active(req[t].user) # {} /\ row[b].live
        /\ req' = [req EXCEPT ![t].basket = b, ![t].seen = row[b].qty]
        /\ pc' = [pc EXCEPT ![t] = "write"]
    BY <1>10, <2>1 DEF CheckoutRead, Goto
  <2>3. b \in Baskets /\ row[b].qty \in Nat
    <3>1. Active(req[t].user) \subseteq Baskets
      BY DEF Active, BasketsOf
    <3>2. b \in Baskets
      BY <2>1, <2>2, <3>1, LatestIsMember
    <3> QED BY <1>0, <3>2, FramesAgree DEF Rows
  <2>4. PICK w : w = [req[t] EXCEPT !.basket = b, !.seen = row[b].qty]
    OBVIOUS
  <2>5. w \in Works /\ w.basket = b /\ w.seen = row[b].qty
    BY <1>0, <2>3, <2>4, FramesAgree DEF Works
  <2>6. req' = [req EXCEPT ![t] = w]
    BY <1>0, <2>2, <2>4, FramesAgree
  <2> QED BY <1>5, <2>2, <2>5, <2>6 DEF PCs
<1> QED BY <1>4, <1>7, <1>8, <1>9, <1>10

(* The shelf, one row and one order change.                                *)
LEMMA NumbersOf ==
    ASSUME TypeOK
    PROVE  /\ stock \in Nat /\ unbacked \in Int /\ InBaskets \in Nat /\ InOrders \in Nat
           /\ \A b \in Baskets : row[b] \in Rows /\ row[b].qty \in Nat /\ Holds(row[b]) \in Nat
           /\ \A o \in OrderIds : /\ order[o] \in OrderRows /\ order[o].qty \in Nat
                                  /\ Takes(order[o]) \in Nat
<1>1. row \in [Baskets -> Rows] /\ order \in [OrderIds -> OrderRows]
  BY FramesAgree
<1> QED BY <1>1, FramesAgree, UnitsTyped DEF Rows, OrderRows, Holds, Takes

LEMMA OthersIdle ==
    ASSUME SerialInv, NEW t \in Requests, pc[t] # "idle"
    PROVE  \A u \in Requests \ {t} : pc[u] = "idle"
BY DEF SerialInv, OneAtATime

LEMMA HoldNumbers ==
    ASSUME TypeOK, NEW q \in Nat
    PROVE  Hold(q) \in Rows /\ Holds(Hold(q)) = q
BY HoldTyped DEF Holds

LEMMA DeadNumbers ==
    ASSUME NEW r \in Rows
    PROVE  Dead(r) \in Rows /\ Holds(Dead(r)) = 0
BY DeadTyped DEF Holds

LEMMA SerialAdd ==
    ASSUME SerialInv, IInv', NEW t \in Requests, AddItem(t)
    PROVE  SerialInv'
<1>1. PICK b, q, r : b = req[t].basket /\ q = req[t].wanted /\ r = row[b]
  OBVIOUS
<1>2. /\ TypeOK /\ b \in Baskets /\ q \in Nat /\ r \in Rows /\ r.qty \in Nat
      /\ pc[t] # "idle" /\ Finish(t) /\ order' = order
  BY <1>1, FramesAgree, NumbersOf DEF SerialInv, IInv, WorksOnOwn, AddItem, At, Works
<1>3. InOrders' = InOrders
  BY <1>2, UnitsKept
<1>4. CASE stock >= q
  <2>1. /\ stock' = stock - q /\ unbacked' = unbacked + IF r.live THEN 0 ELSE r.qty
        /\ row' = [row EXCEPT ![b] = Hold(r.qty + q)]
    BY <1>1, <1>4 DEF AddItem
  <2>2. r.qty + q \in Nat
    BY <1>2
  <2>3. InBaskets' = InBaskets - Holds(r) + (r.qty + q)
    BY <1>1, <1>2, <2>1, <2>2, HoldNumbers, HeldChange
  <2>4. Balances
    <3>1. PICK s, u, i, o, m : s = stock /\ u = unbacked /\ i = InBaskets /\ o = InOrders /\ m = r.qty
      OBVIOUS
    <3>2. s \in Nat /\ u \in Int /\ i \in Nat /\ o \in Nat /\ m \in Nat
      BY <1>2, <3>1, NumbersOf
    <3>3. CASE r.live
      <4>1. stock' = s - q /\ unbacked' = u + 0 /\ InBaskets' = i - m + (m + q) /\ InOrders' = o
        BY <1>3, <2>1, <2>3, <3>1, <3>3 DEF Holds
      <4> QED BY <1>2, <3>1, <3>2, <4>1 DEF Balances
    <3>4. CASE ~r.live
      <4>1. stock' = s - q /\ unbacked' = u + m /\ InBaskets' = i - 0 + (m + q) /\ InOrders' = o
        BY <1>3, <2>1, <2>3, <3>1, <3>4 DEF Holds
      <4> QED BY <1>2, <3>1, <3>2, <4>1 DEF Balances
    <3> QED BY <3>3, <3>4
  <2> QED BY <1>2, <2>4, OthersIdle, AloneWrite
<1>5. CASE ~(stock >= q)
  <2>1. UNCHANGED <<stock, row, unbacked>>
    BY <1>1, <1>5 DEF AddItem
  <2>2. Balances
    BY <1>3, <2>1, UnitsKept DEF Balances
  <2> QED BY <1>2, <2>2, OthersIdle, AloneWrite
<1> QED BY <1>4, <1>5

LEMMA SerialEdit ==
    ASSUME SerialInv, IInv', NEW t \in Requests, UpdateItem(t) \/ RemoveItem(t) \/ Checkout(t)
    PROVE  SerialInv'
<1>1. PICK b, q, r : b = req[t].basket /\ q = req[t].seen /\ r = row[b]
  OBVIOUS
<1>2. /\ TypeOK /\ b \in Baskets /\ q \in Nat /\ r \in Rows /\ Finish(t)
      /\ pc[t] # "idle" /\ r.live /\ r.qty = q /\ Holds(r) = q /\ req[t].wanted \in Nat
      /\ unbacked' = unbacked
  BY <1>1, FramesAgree, NumbersOf
  DEF SerialInv, ReadTrue, IInv, WorksOnOwn, UpdateItem, RemoveItem, Checkout, At, Works, Holds
<1>3. PICK s, u, i, o : s = stock /\ u = unbacked /\ i = InBaskets /\ o = InOrders
  OBVIOUS
<1>4. s \in Nat /\ u \in Int /\ i \in Nat /\ o \in Nat
  BY <1>2, <1>3, NumbersOf
<1>5. CASE UpdateItem(t) /\ ~(stock >= req[t].wanted - q)
  <2>1. UNCHANGED <<stock, row, order>>
    BY <1>1, <1>5 DEF UpdateItem
  <2>2. Balances
    BY <1>2, <2>1, UnitsKept DEF Balances
  <2> QED BY <1>2, <2>2, OthersIdle, AloneWrite
<1>6. CASE UpdateItem(t) /\ stock >= req[t].wanted - q
  <2>1. PICK w \in Nat : w = req[t].wanted
    BY <1>2
  <2>2. stock' = s - (w - q) /\ row' = [row EXCEPT ![b] = Hold(w)] /\ order' = order
    BY <1>1, <1>2, <1>3, <1>6, <2>1 DEF UpdateItem
  <2>3. InBaskets' = i - q + w /\ InOrders' = o
    BY <1>1, <1>2, <1>3, <2>1, <2>2, HoldNumbers, HeldChange, UnitsKept
  <2>4. Balances
    BY <1>2, <1>3, <1>4, <2>1, <2>2, <2>3 DEF Balances
  <2> QED BY <1>2, <2>4, OthersIdle, AloneWrite
<1>7. CASE RemoveItem(t)
  <2>1. stock' = s + q /\ row' = [row EXCEPT ![b] = Dead(r)] /\ order' = order
    BY <1>1, <1>3, <1>7 DEF RemoveItem
  <2>2. InBaskets' = i - q + 0 /\ InOrders' = o
    BY <1>1, <1>2, <1>3, <2>1, DeadNumbers, HeldChange, UnitsKept
  <2>3. Balances
    BY <1>2, <1>3, <1>4, <2>1, <2>2 DEF Balances
  <2> QED BY <1>2, <2>3, OthersIdle, AloneWrite
<1>8. CASE Checkout(t)
  <2>1. PICK f : f = Min({x \in OrderIds : order[x] = NoOrder})
    OBVIOUS
  <2>2. f \in OrderIds /\ order[f] = NoOrder
    <3>1. {x \in OrderIds : order[x] = NoOrder} # {}
      BY <1>8 DEF Checkout
    <3> QED BY <2>1, <3>1, BasketTypes, MinIsMember
  <2>3. PICK n : n = [status |-> "PENDING", buyer |-> req[t].user, qty |-> q, gateway |-> "asked"]
    OBVIOUS
  <2>4. n \in OrderRows /\ Takes(n) = q
    <3>1. req[t].user \in Users \cup {NoUser}
      BY <1>2, FramesAgree DEF Works
    <3> QED BY <1>2, <2>3, <3>1 DEF OrderRows, Takes
  <2>5. stock' = stock /\ row' = [row EXCEPT ![b] = Dead(r)] /\ order' = [order EXCEPT ![f] = n]
    BY <1>1, <1>8, <2>1, <2>3 DEF Checkout
  <2>6. InBaskets' = i - q + 0
    BY <1>1, <1>2, <1>3, <2>5, DeadNumbers, HeldChange
  <2>7. InOrders' = o - 0 + q
    <3>1. Takes(order[f]) = 0
      BY <2>2 DEF Takes, NoOrder
    <3> QED BY <1>2, <1>3, <2>2, <2>4, <2>5, <3>1, OrderedChange
  <2>8. Balances
    BY <1>2, <1>3, <1>4, <2>5, <2>6, <2>7 DEF Balances
  <2> QED BY <1>2, <2>8, OthersIdle, AloneWrite
<1> QED BY <1>5, <1>6, <1>7, <1>8

(* Settlement and the sweeper write while no request is being handled.     *)
LEMMA QuietFrame ==
    ASSUME SerialInv, IInv', UNCHANGED req, \A t \in Requests : pc'[t] = pc[t],
           Quiet \/ row' = row, Balances
    PROVE  SerialInv'
<1>1. OneAtATime'
  BY DEF SerialInv, OneAtATime
<1>2. \A t \in Requests : ReadTrue(t)'
  BY DEF SerialInv, ReadTrue, Quiet
<1>3. Balanced'
  BY BalancedStep DEF SerialInv, IInv
<1> QED BY <1>1, <1>2, <1>3 DEF SerialInv

LEMMA SerialSweep ==
    ASSUME SerialInv, IInv', Serial, NEW s \in Sweepers, Sweep(s) \/ SweepFails(s)
    PROVE  SerialInv'
<1>1. /\ TypeOK /\ UNCHANGED <<req, order, unbacked>>
      /\ \A t \in Requests : pc'[t] = pc[t]
  <2>1. s \notin Requests /\ TypeOK
    BY ConstantsAssumption DEF SerialInv, IInv
  <2>2. \A t \in Requests : t # s /\ t \in Procs
    BY <2>1 DEF Procs
  <2>3. pc \in [Procs -> PCs]
    BY <2>1 DEF TypeOK
  <2> QED BY <2>1, <2>2, <2>3
      DEF Sweep, SweepList, SweepClaim, SweepEnd, SweepFails, rows, Goto
<1>2. CASE UNCHANGED <<stock, row>>
  <2>1. Balances
    BY <1>1, <1>2, UnitsKept DEF Balances
  <2> QED BY <1>1, <1>2, <2>1, QuietFrame
<1>3. ASSUME NEW b \in Baskets, SweepClaim(s, b), Lapsed(b, sweep[s].now)
      PROVE  SerialInv'
  <2>1. PICK r : r = row[b]
    OBVIOUS
  <2>2. r \in Rows /\ r.live /\ Holds(r) = r.qty /\ r.qty = sweep[s].qty[b] /\ r.qty \in Nat
    BY <1>1, <1>3, <2>1, NumbersOf DEF SerialInv, IInv, SweepReleasesHeld, SweepClaim, Lapsed, Holds
  <2>3. PICK k, u, i, o : k = stock /\ u = unbacked /\ i = InBaskets /\ o = InOrders
    OBVIOUS
  <2>4. k \in Nat /\ u \in Int /\ i \in Nat /\ o \in Nat
    BY <1>1, <2>3, NumbersOf
  <2>5. stock' = k + r.qty /\ row' = [row EXCEPT ![b] = Dead(r)] /\ Quiet
    BY <1>3, <2>1, <2>2, <2>3 DEF SweepClaim
  <2>6. InBaskets' = i - r.qty + 0 /\ InOrders' = o
    BY <1>1, <2>1, <2>2, <2>3, <2>5, DeadNumbers, HeldChange, UnitsKept
  <2>7. Balances
    BY <1>1, <2>2, <2>3, <2>4, <2>5, <2>6 DEF Balances
  <2> QED BY <1>1, <2>5, <2>7, QuietFrame
<1> QED BY <1>2, <1>3 DEF Sweep, SweepList, SweepClaim, SweepEnd, SweepFails, rows

LEMMA SerialSettle ==
    ASSUME SerialInv, IInv', Serial, NEW o \in OrderIds, Settle(o)
    PROVE  SerialInv'
<1>1. /\ TypeOK /\ UNCHANGED <<req, pc>> /\ Quiet
  BY DEF SerialInv, IInv, Settle, Release, GatewayAccepts, GatewayRefuses, PaymentFails,
         Pay, PayLate, Settling
<1>2. PICK a, q : a = order[o] /\ q = a.qty
  OBVIOUS
<1>3. a \in OrderRows /\ q \in Nat
  BY <1>1, <1>2, NumbersOf
<1>4. PICK k, u, i, d : k = stock /\ u = unbacked /\ i = InBaskets /\ d = InOrders
  OBVIOUS
<1>5. k \in Nat /\ u \in Int /\ i \in Nat /\ d \in Nat
  BY <1>1, <1>4, NumbersOf
<1> SUFFICES Balances
  BY <1>1, QuietFrame
<1>6. ASSUME NEW status \in {"PAID", "FAILED"}, Mark(o, status)
      PROVE  InOrders' = d - Takes(a) + (IF status = "PAID" THEN q ELSE 0)
  <2>1. PICK r : r = [a EXCEPT !.status = status]
    OBVIOUS
  <2>2. r \in OrderRows /\ Takes(r) = IF status = "PAID" THEN q ELSE 0
    BY <1>2, <1>3, <2>1 DEF OrderRows, Takes
  <2>3. order' = [order EXCEPT ![o] = r]
    BY <1>2, <1>6, <2>1 DEF Mark
  <2> QED BY <1>1, <1>2, <1>4, <2>2, <2>3, OrderedChange
<1>7. ASSUME order[o].gateway # "none", RestoreToBasket(a.buyer, q)
      PROVE  \E h \in Nat : InBaskets' = i - h + q /\ unbacked' = u + q - h
  <2>1. PICK b : b = Latest(BasketsOf(a.buyer))
    OBVIOUS
  <2>2. b \in Baskets
    <3>1. BasketsOf(a.buyer) # {} /\ BasketsOf(a.buyer) \subseteq Baskets
      BY <1>2, <1>7 DEF SerialInv, IInv, BuyersKnown, BasketsOf
    <3> QED BY <2>1, <3>1, LatestIsMember
  <2>3. PICK h \in Nat : h = Holds(row[b])
    BY <1>1, <2>2, NumbersOf
  <2>4. unbacked' = u + q - h /\ row' = [row EXCEPT ![b] = Hold(q)]
    BY <1>4, <1>7, <2>1, <2>3 DEF RestoreToBasket, Holds
  <2>5. InBaskets' = i - h + q
    BY <1>1, <1>3, <1>4, <2>2, <2>3, <2>4, HoldNumbers, HeldChange
  <2> QED BY <2>4, <2>5
<1>8. CASE Release(o) \/ Pay(o) \/ PayLate(o)
  <2>1. InBaskets' = i
    BY <1>4, <1>8, UnitsKept DEF Release, Pay, PayLate
  <2>2. CASE Release(o)
    <3>1. stock' = k + q /\ unbacked' = u /\ Takes(a) = q /\ Mark(o, "FAILED")
      BY <1>2, <1>4, <2>2 DEF Release, Takes
    <3>2. InOrders' = d - q + 0
      BY <1>6, <3>1
    <3> QED BY <1>3, <1>4, <1>5, <2>1, <3>1, <3>2 DEF Balances
  <2>3. CASE Pay(o)
    <3>1. stock' = k /\ unbacked' = u /\ Takes(a) = q /\ Mark(o, "PAID")
      BY <1>2, <1>4, <2>3 DEF Pay, Takes
    <3>2. InOrders' = d - q + q
      BY <1>6, <3>1
    <3> QED BY <1>3, <1>4, <1>5, <2>1, <3>1, <3>2 DEF Balances
  <2>4. CASE PayLate(o)
    <3>1. Takes(a) = 0 /\ Mark(o, "PAID")
      BY <1>2, <2>4 DEF PayLate, Takes
    <3>2. InOrders' = d - 0 + q
      BY <1>6, <3>1
    <3>3. \/ stock' = k - q /\ unbacked' = u
          \/ stock' = k /\ unbacked' = u + q
      BY <1>2, <1>4, <2>4 DEF PayLate
    <3> QED BY <1>3, <1>4, <1>5, <2>1, <3>2, <3>3 DEF Balances
  <2> QED BY <1>8, <2>2, <2>3, <2>4
<1>9. CASE GatewayAccepts(o)
  <2>1. PICK r : r = [a EXCEPT !.gateway = "accepted"]
    OBVIOUS
  <2>2. r \in OrderRows /\ Takes(r) = Takes(a) /\ Takes(a) \in Nat
    BY <1>1, <1>2, <1>3, <2>1, NumbersOf DEF OrderRows, Takes
  <2>3. order' = [order EXCEPT ![o] = r] /\ UNCHANGED <<stock, row, unbacked>>
    BY <1>2, <1>9, <2>1 DEF GatewayAccepts
  <2>4. InOrders' = d - Takes(a) + Takes(a)
    BY <1>1, <1>2, <1>4, <2>2, <2>3, OrderedChange
  <2>5. InBaskets' = i
    BY <1>4, <2>3, UnitsKept
  <2> QED BY <1>4, <1>5, <2>2, <2>3, <2>4, <2>5 DEF Balances
<1>10. CASE PaymentFails(o)
  <2>1. stock' = k + q /\ Takes(a) = q /\ Mark(o, "FAILED")
    BY <1>2, <1>4, <1>10 DEF PaymentFails, Takes
  <2>2. InOrders' = d - q + 0
    BY <1>6, <2>1
  <2>3. PICK h \in Nat : InBaskets' = i - h + q /\ unbacked' = u + q - h
    BY <1>2, <1>7, <1>10 DEF PaymentFails
  <2> QED BY <1>3, <1>4, <1>5, <2>1, <2>2, <2>3 DEF Balances
<1>11. CASE GatewayRefuses(o)
  <2>1. PICK z : z = ReleasedStock(o)
    OBVIOUS
  <2>2. PICK r : r = [a EXCEPT !.gateway = "refused", !.status = ReleasedStatus(o)]
    OBVIOUS
  <2>3. r \in OrderRows /\ z \in Nat /\ Takes(a) \in Nat /\ Takes(r) = Takes(a) - z
    <3>1. ASSUME NEW s \in {"absent", "PENDING", "PAID", "FAILED"},
                 r = [a EXCEPT !.gateway = "refused", !.status = s]
          PROVE  r \in OrderRows /\ r.qty = q /\ r.status = s
      BY <1>2, <1>3, <3>1 DEF OrderRows
    <3>2. Takes(a) \in Nat
      BY <1>1, <1>2, NumbersOf
    <3>3. CASE a.status = "PENDING"
      <4>1. ReleasedStatus(o) = "FAILED" /\ z = q /\ Takes(a) = q
        BY <1>2, <2>1, <3>3 DEF ReleasedStatus, ReleasedStock, Takes
      <4>2. r \in OrderRows /\ r.status = "FAILED"
        BY <2>2, <3>1, <4>1
      <4>3. Takes(r) = 0
        BY <4>2 DEF Takes
      <4> QED BY <1>3, <3>2, <4>1, <4>2, <4>3
    <3>4. CASE a.status # "PENDING"
      <4>1. ReleasedStatus(o) = a.status /\ z = 0
        BY <1>2, <2>1, <3>4 DEF ReleasedStatus, ReleasedStock
      <4>2. a.status \in {"absent", "PENDING", "PAID", "FAILED"}
        BY <1>3 DEF OrderRows
      <4>3. r \in OrderRows /\ r.qty = q /\ r.status = a.status
        BY <2>2, <3>1, <4>1, <4>2
      <4>4. Takes(r) = Takes(a)
        BY <1>2, <4>3 DEF Takes
      <4> QED BY <3>2, <4>1, <4>3, <4>4
    <3> QED BY <3>3, <3>4
  <2>4. order' = [order EXCEPT ![o] = r] /\ stock' = k + z
    BY <1>1, <1>2, <1>4, <1>11, <2>1, <2>2, FramesAgree DEF GatewayRefuses
  <2>5. InOrders' = d - Takes(a) + (Takes(a) - z)
    BY <1>1, <1>2, <1>4, <2>3, <2>4, OrderedChange
  <2>6. PICK h \in Nat : InBaskets' = i - h + q /\ unbacked' = u + q - h
    BY <1>2, <1>7, <1>11 DEF GatewayRefuses
  <2> QED BY <1>3, <1>4, <1>5, <2>3, <2>4, <2>5, <2>6 DEF Balances
<1> QED BY <1>8, <1>9, <1>10, <1>11 DEF Settle

LEMMA NothingCounted ==
    ASSUME NEW S, IsFiniteSet(S), NEW f, f = [x \in S |-> 0]
    PROVE  Cardinality(UnitsIn(f)) = 0
<1>1. UnitsIn(f) = {}
  BY DEF UnitsIn
<1> QED BY <1>1, FS_EmptySet

LEMMA SerialInitially == Init => SerialInv
<1> SUFFICES ASSUME Init PROVE SerialInv
  OBVIOUS
<1>1. InBaskets = 0 /\ InOrders = 0
  <2>1. [b \in Baskets |-> HeldBy(b)] = [b \in Baskets |-> 0]
    BY DEF Init, HeldBy, NoRow
  <2>2. [o \in OrderIds |-> OrderedBy(o)] = [o \in OrderIds |-> 0]
    BY DEF Init, OrderedBy, NoOrder
  <2> QED BY <2>1, <2>2, BasketTypes, NothingCounted DEF InBaskets, InOrders
<1>2. OneAtATime /\ \A t \in Requests : ReadTrue(t)
  BY DEF Init, OneAtATime, ReadTrue, Procs
<1>3. Balanced
  BY <1>1, ConstantsAssumption DEF Init, Balanced
<1> QED BY <1>2, <1>3, Initially DEF SerialInv

LEMMA SerialInductive ==
    ASSUME Serial
    PROVE  SerialInv /\ [Next]_vars => SerialInv'
<1> SUFFICES ASSUME SerialInv, [Next]_vars PROVE SerialInv'
  OBVIOUS
<1>1. IInv'
  BY Inductive DEF SerialInv
<1>2. ASSUME NEW t \in Requests, Arrive(t) \/ Handle(t) PROVE SerialInv'
  BY <1>1, <1>2, SerialReads, SerialAdd, SerialEdit DEF Handle
<1>3. ASSUME NEW o \in OrderIds, Settle(o) PROVE SerialInv'
  BY <1>1, <1>3, SerialSettle
<1>4. ASSUME NEW s \in Sweepers, Sweep(s) \/ SweepFails(s) PROVE SerialInv'
  BY <1>1, <1>4, SerialSweep
<1>5. CASE Tick \/ UNCHANGED vars
  <2>1. UNCHANGED <<req, pc, stock, row, order, unbacked>>
    BY <1>5 DEF Tick, vars, rows
  <2>2. Balances
    BY <2>1, UnitsKept DEF Balances
  <2> QED BY <1>1, <2>1, <2>2, QuietFrame
<1> QED BY <1>2, <1>3, <1>4, <1>5 DEF Next

(* With requests handled one after the other, whatever the sweeper read    *)
(* earlier, the units on the shelf, in live rows and in orders are those   *)
(* of the start and the ones known to be unbacked.                         *)
THEOREM StockAlwaysExplained ==
    ASSUME Serial
    PROVE  Spec => []StockExplained
<1>1. SerialInv => StockExplained
  BY UnitsAre DEF SerialInv, Balanced, StockExplained
<1>2. SerialInv /\ [Next]_vars => SerialInv'
  BY SerialInductive
<1> QED BY <1>1, <1>2, SerialInitially, PTL DEF Spec
================================================================================
