-------------------------------- MODULE Segments --------------------------------
(* The customer club's segments: every night each customer with a paid     *)
(* order gets a row that says which segment the recency, frequency and     *)
(* value of the orders put them in; then two evaluations, of churn and of  *)
(* loyalty, count the latest rows and store a snapshot each.  A row is     *)
(* never changed or removed.                                               *)
(*                                                                         *)
(* Time goes in days.  The night's job is three steps, between which       *)
(* orders are paid and deleted; each may fail, or the job die there.  The  *)
(* job ends before its day does.                                           *)
EXTENDS Integers, Sequences, FiniteSetsExt, SequencesExt, TLC

CONSTANTS
    Customers, Orders,
    Owner,            \* Order.userId
    Amount,           \* Order.payableAmount, which no step here changes
    MinFrequency, TopPercent, NewDays, RiskDays, LostDays,  \* segmentationRulesConfig
    PaidBefore,       \* the orders paid before the run begins, with their days
    RowsBefore,       \* the membership rows written before the run begins
    Nights,           \* the days of the run on which the night's job is started
    MaxDay            \* bound on time

SegmentKeys == {"vip", "new", "at_risk", "lost", "regular"}
ASSUME SegmentsAssumption ==
    /\ IsFiniteSet(Customers) /\ IsFiniteSet(Orders)
    /\ Owner \in [Orders -> Customers] /\ Amount \in [Orders -> Nat]
    /\ {MinFrequency, NewDays, RiskDays, LostDays, MaxDay} \subseteq Nat
    /\ TopPercent \in 0..100
    /\ DOMAIN PaidBefore \subseteq Orders /\ \A o \in DOMAIN PaidBefore : -PaidBefore[o] \in Nat
    /\ RowsBefore \in [Customers -> Seq([segment : SegmentKeys, frequency : 1..Cardinality(Orders)])]

VARIABLES
    today,
    order,       \* payment status, day of payment and isDeleted
    membership,  \* SegmentMembership rows of a customer, oldest first
    job,         \* the step the night's job is at
    ranOn,       \* the day of the latest segmentation, -1 for one before the run
    churn,       \* the ChurnEvaluationSnapshot of the latest night, if there is one
    loyalty      \* the LoyaltyEvaluationSnapshot of the latest night

segmentVars == <<today, order, membership, job, ranOn, churn, loyalty>>

Days == 0..MaxDay

--------------------------------------------------------------------------------
(* Recency, frequency and value of the paid orders.                        *)

PaidOrders(c) == {o \in Orders : Owner[o] = c /\ order[o].status = "PAID" /\ ~order[o].deleted}
Ranked == {c \in Customers : PaidOrders(c) # {}}
Recency(c) == today - Max({order[o].paidOn : o \in PaidOrders(c)})
Frequency(c) == Cardinality(PaidOrders(c))
Monetary(c) == MapThenSumSet(LAMBDA o : Amount[o], PaidOrders(c))

\* computeMonetaryTopThreshold
TopThreshold ==
    LET n == Cardinality(Ranked)
        sorted == SortSeq(SetToSeq(Ranked), LAMBDA c, d : Monetary(c) < Monetary(d))
        index == ((100 - TopPercent) * n + 99) \div 100
    IN Monetary(sorted[Min({n, Max({1, index})})])

(* resolveSegmentKey: vip before lost before at risk before new.           *)
SegmentOf(c) ==
    CASE Frequency(c) >= MinFrequency /\ Monetary(c) >= TopThreshold -> "vip"
      [] OTHER ->
        CASE Recency(c) > LostDays -> "lost"
          [] Recency(c) \in RiskDays..LostDays -> "at_risk"
          [] Frequency(c) = 1 /\ Recency(c) <= NewDays -> "new"
          [] OTHER -> "regular"

--------------------------------------------------------------------------------
(* The latest rows.                                                        *)

EverMember == {c \in Customers : membership[c] # <<>>}
\* Mutant: the oldest row of each customer, as without DESC
OldestSegment == [c \in EverMember |-> Head(membership[c]).segment]
\* getLatestSegmentPerCustomer
LatestSegment == [c \in EverMember |-> Last(membership[c]).segment]
\* getSegmentMembers
Members(k) == {c \in EverMember : LatestSegment[c] = k}
\* tally
Tally(k) == Cardinality(Members(k))

\* getLatestTwoFrequenciesPerCustomer, isPromisingCustomer
Trend(c) == LET n == Len(membership[c]) IN SubSeq(membership[c], Max({1, n - 1}), n)
Promising(c) ==
    LET trend == Trend(c) IN
    /\ Last(trend).segment # "vip"
    /\ Len(trend) = 2 /\ trend[2].frequency > trend[1].frequency

\* Math.round of a share of a hundred, to two places
Percent(part, whole) ==
    IF whole = 0 THEN 0 ELSE (20000 * part + whole) \div (2 * whole)

--------------------------------------------------------------------------------
(* The night's job.                                                        *)

NoSnapshot == [total |-> -1]

RunSegmentation ==
    /\ job = "idle" /\ ranOn < today /\ today \in Nights
    /\ membership' = [c \in Customers |->
           IF c \notin Ranked THEN membership[c]
           ELSE Append(membership[c], [segment |-> SegmentOf(c), frequency |-> Frequency(c)])]
    /\ job' = "churn" /\ ranOn' = today
    /\ churn' = NoSnapshot /\ loyalty' = NoSnapshot
    /\ UNCHANGED <<today, order>>

EvaluateChurn ==
    /\ job = "churn"
    /\ churn' = [total |-> Cardinality(EverMember),
                 atRisk |-> Tally("at_risk"), lost |-> Tally("lost"), regular |-> Tally("regular"),
                 rate |-> Percent(Tally("at_risk") + Tally("lost"), Cardinality(EverMember))]
    /\ job' = "loyalty"
    /\ UNCHANGED <<today, order, membership, ranOn, loyalty>>

EvaluateLoyalty ==
    LET in(k) == {c \in EverMember : Last(Trend(c)).segment = k}
        promising == {c \in EverMember : Promising(c)}
    IN
    /\ job = "loyalty"
    /\ loyalty' = [total |-> Cardinality(EverMember),
                   loyal |-> Cardinality(in("vip")), promising |-> Cardinality(promising),
                   regular |-> Cardinality(in("regular") \ promising),
                   rate |-> Percent(Cardinality(in("vip")), Cardinality(EverMember))]
    /\ job' = "idle"
    /\ UNCHANGED <<today, order, membership, ranOn, churn>>

\* an evaluation throws: the job logs it and goes on
EvaluationFails ==
    /\ job # "idle"
    /\ job' = IF job = "churn" THEN "loyalty" ELSE "idle"
    /\ UNCHANGED <<today, order, membership, ranOn, churn, loyalty>>

--------------------------------------------------------------------------------
(* Orders and time.                                                        *)

PayOrder(o) ==
    /\ order[o].status = "UNPAID" /\ ~order[o].deleted
    /\ order' = [order EXCEPT ![o].status = "PAID", ![o].paidOn = today]
    /\ UNCHANGED <<today, membership, job, ranOn, churn, loyalty>>

DeleteOrder(o) ==
    /\ order[o].status = "PAID" /\ ~order[o].deleted
    /\ order' = [order EXCEPT ![o].deleted = TRUE]
    /\ UNCHANGED <<today, membership, job, ranOn, churn, loyalty>>

Tick ==
    /\ today < MaxDay /\ job = "idle"
    /\ today' = today + 1
    /\ UNCHANGED <<order, membership, job, ranOn, churn, loyalty>>

SegmentsInit ==
    /\ today = 0
    /\ order = [o \in Orders |->
           IF o \in DOMAIN PaidBefore THEN [status |-> "PAID", paidOn |-> PaidBefore[o], deleted |-> FALSE]
           ELSE [status |-> "UNPAID", paidOn |-> 0, deleted |-> FALSE]]
    /\ membership = RowsBefore
    /\ job = "idle" /\ ranOn = -1
    /\ churn = NoSnapshot /\ loyalty = NoSnapshot

Night == RunSegmentation \/ EvaluateChurn \/ EvaluateLoyalty \/ EvaluationFails

SegmentsTypeOK ==
    /\ today \in Days /\ ranOn \in -1..today /\ job \in {"idle", "churn", "loyalty"}
    /\ order \in [Orders -> [status : {"UNPAID", "PAID"}, paidOn : Days \cup Range(PaidBefore), deleted : BOOLEAN]]
    /\ \A c \in Customers : \A i \in DOMAIN membership[c] :
           membership[c][i] \in [segment : SegmentKeys, frequency : 1..Cardinality(Orders)]
================================================================================
