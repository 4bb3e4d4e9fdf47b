-------------------------------- MODULE Reports --------------------------------
(***************************************************************************)
(* The sales reports, over the rows that the back office writes.  Every    *)
(* endpoint has queries of its own for the same figures, and two ways of   *)
(* choosing rows: by instants from..to, or by the Jalali month that starts *)
(* at midnight in Tehran.                                                  *)
(*                                                                         *)
(* Time is in half hours of UTC; days are numbered, a month has MonthDays  *)
(* of them.  The driver stores instants without a time zone.               *)
(***************************************************************************)
EXTENDS BackOffice

CONSTANTS
    PackagingCost,   \* SiteSetting PACKAGING_COST, per item
    Limit,           \* rows of the list of best products
    MonthDays, YearMonths

ASSUME CalendarAssumption ==
    /\ PackagingCost \in Nat /\ Limit \in Nat
    /\ MonthDays \in Nat \ {0} /\ YearMonths \in Nat \ {0}

Day == 48
TehranOffset == 7

--------------------------------------------------------------------------------
(* Choosing rows.                                                          *)

IsSold(o) == ~order[o].deleted /\ order[o].pay = "PAID"
PaidBetween(from, to) == {o \in Orders : IsSold(o) /\ order[o].paidAt \in from..to}
SoldBetween(from, to) == {s \in Sales : sale[s].live /\ sale[s].soldAt \in from..to}

(* jalaaliMonthRange: a month ends where the next one starts.              *)
MonthStart(m) == m * MonthDays * Day - TehranOffset
MonthRange(m) == MonthStart(m)..(MonthStart(m + 1) - 1)

(* The day of a row, as the query computes it: AT TIME ZONE takes the      *)
(* stored instant for a local time of Tehran, so that the offset is taken  *)
(* off instead of added, and the day is cut in the session's zone, UTC.    *)
RowDay(t) == (t - TehranOffset) \div Day
MonthOfDay(d) == d \div MonthDays

--------------------------------------------------------------------------------
(* Figures.                                                                *)

NetProfit(payable, shipping, cost, quantity) ==
    payable - shipping - cost - PackagingCost * quantity

Quantity(o) == SumOver([v \in Variants |-> item[o][v].qty], Variants)
CostOfGoods(o) == CostTotal(item[o])
Quantities == [o \in Orders |-> Quantity(o)]
Costs == [o \in Orders |-> CostOfGoods(o)]
Totals == [o \in Orders |-> order[o].total]
Discounts == [o \in Orders |-> order[o].discount]
Payables == [o \in Orders |-> order[o].payable]
Shippings == [o \in Orders |-> order[o].shipping]
SaleTotals == [s \in Sales |-> sale[s].total]
SalePayables == [s \in Sales |-> sale[s].payable]
Nets == [s \in Sales |-> sale[s].net]
SaleCosts == [s \in Sales |-> sale[s].cost]
Gains == [s \in Sales |-> sale[s].net - sale[s].cost]

Summary(from, to) ==
    LET O == PaidBetween(from, to)
        quantity == SumOver(Quantities, O)
        cost == SumOver(Costs, O)
    IN  [ordersCount |-> Cardinality(O), itemsCount |-> quantity,
         totalAmount |-> SumOver(Totals, O), discountAmount |-> SumOver(Discounts, O),
         shippingCost |-> SumOver(Shippings, O), payableAmount |-> SumOver(Payables, O),
         costOfGoods |-> cost, packagingCost |-> PackagingCost * quantity,
         netProfit |-> NetProfit(SumOver(Payables, O), SumOver(Shippings, O), cost, quantity)]

(* Sales in the shop: the profit is what is left of the commission.        *)
OfflineSummary(from, to) ==
    LET S == SoldBetween(from, to)
    IN  [salesCount |-> Cardinality(S),
         totalAmount |-> SumOver(SaleTotals, S),
         discountAmount |-> SumOver([s \in Sales |-> sale[s].discount], S),
         commissionAmount |-> SumOver([s \in Sales |-> sale[s].payable - sale[s].net], S),
         payableAmount |-> SumOver(SalePayables, S), netAmount |-> SumOver(Nets, S),
         costOfGoods |-> SumOver(SaleCosts, S),
         netProfit |-> SumOver(Nets, S) - SumOver(SaleCosts, S)]

Entry(count, payable, profit) ==
    [count |-> count, payableAmount |-> payable, netProfit |-> profit]

CombinedSummary(from, to) ==
    LET O == PaidBetween(from, to)
        S == SoldBetween(from, to)
        payable == SumOver(Payables, O)
        profit == NetProfit(payable, SumOver(Shippings, O), SumOver(Costs, O), SumOver(Quantities, O))
        sold == SumOver(SalePayables, S)
        gain == SumOver(Nets, S) - SumOver(SaleCosts, S)
    IN  [online |-> Entry(Cardinality(O), payable, profit),
         offline |-> Entry(Cardinality(S), sold, gain),
         total |-> Entry(Cardinality(O) + Cardinality(S), payable + sold, profit + gain)]

ByChannel(from, to) ==
    [c \in {sale[s].channel : s \in SoldBetween(from, to)} |->
        LET S == {s \in SoldBetween(from, to) : sale[s].channel = c}
        IN  [salesCount |-> Cardinality(S), totalAmount |-> SumOver(SaleTotals, S),
             netProfit |-> SumOver(Gains, S)]]

(* One row per order.                                                      *)
Detail(o) ==
    [quantity |-> Quantity(o), totalAmount |-> order[o].total,
     payableAmount |-> order[o].payable,
     netProfit |-> NetProfit(order[o].payable, order[o].shipping, CostOfGoods(o), Quantity(o))]

(* Mutant: the order's page leaves out the packaging.                      *)
FinancialsUnpacked(o) ==
    [netProfit |-> order[o].payable - order[o].shipping - CostOfGoods(o),
     walletApplied |-> WalletShare(order[o])]

(* What the page of an order says of it.                                   *)
Financials(o) ==
    [netProfit |-> order[o].payable - order[o].shipping - CostOfGoods(o)
                   - PackagingCost * Quantity(o),
     walletApplied |-> WalletShare(order[o])]

(* daily: the rows of a range by day.                                      *)
Daily(from, to) ==
    [d \in {RowDay(order[o].paidAt) : o \in PaidBetween(from, to)} |->
        LET O == {o \in PaidBetween(from, to) : RowDay(order[o].paidAt) = d}
        IN  [ordersCount |-> Cardinality(O), payableAmount |-> SumOver(Payables, O)]]

SoldUnits(v) == [o \in Orders |-> item[o][v].qty]
Revenues(v) == [o \in Orders |-> item[o][v].qty * item[o][v].price]

(* The items of sold orders by product (a variant stands for its product). *)
ProductRows(from, to) ==
    [v \in {w \in Variants : \E o \in PaidBetween(from, to) : item[o][w].qty > 0} |->
        LET O == {o \in PaidBetween(from, to) : item[o][v].qty > 0}
        IN  [quantity |-> SumOver(SoldUnits(v), O), revenue |-> SumOver(Revenues(v), O),
             ordersCount |-> Cardinality(O)]]

(* The Limit products with the most revenue; equal ones in any order.      *)
IsTopProducts(P, from, to) ==
    LET sold == ProductRows(from, to)
    IN  /\ P \subseteq DOMAIN sold
        /\ Cardinality(P) = Min({Limit, Cardinality(DOMAIN sold)})
        /\ \A p \in P, q \in DOMAIN sold \ P : sold[p].revenue >= sold[q].revenue

--------------------------------------------------------------------------------
(* Months.                                                                 *)

InMonth(m) == {o \in Orders : IsSold(o) /\ order[o].paidAt \in MonthRange(m)}
SoldInMonth(m) == {s \in Sales : sale[s].live /\ sale[s].soldAt \in MonthRange(m)}

(* monthTotals *)
MonthTotals(m) ==
    LET O == InMonth(m)
        S == SoldInMonth(m)
        profit == NetProfit(SumOver(Payables, O), SumOver(Shippings, O),
                            SumOver(Costs, O), SumOver(Quantities, O))
        gain == SumOver(Nets, S) - SumOver(SaleCosts, S)
    IN  [online |-> Entry(Cardinality(O), SumOver(Payables, O), profit),
         offline |-> Entry(Cardinality(S), SumOver(SalePayables, S), gain),
         total |-> Entry(Cardinality(O) + Cardinality(S),
                         SumOver(Payables, O) + SumOver(SalePayables, S), profit + gain)]

(* The tables of a month, day by day.  A row whose day falls outside the   *)
(* month is dropped.                                                       *)
DaysOf(m) == m * MonthDays..((m + 1) * MonthDays - 1)
OnDay(m, d) == {o \in InMonth(m) : RowDay(order[o].paidAt) = d}
SoldOnDay(m, d) == {s \in SoldInMonth(m) : RowDay(sale[s].soldAt) = d}

DailyJalali(m) ==
    [d \in DaysOf(m) |->
        [ordersCount |-> Cardinality(OnDay(m, d)),
         payableAmount |-> SumOver(Payables, OnDay(m, d))]]

OfflineDailyJalali(m) ==
    [d \in DaysOf(m) |->
        [salesCount |-> Cardinality(SoldOnDay(m, d)),
         netAmount |-> SumOver(Nets, SoldOnDay(m, d))]]

CombinedDailyJalali(m) ==
    [d \in DaysOf(m) |->
        [count |-> Cardinality(OnDay(m, d)) + Cardinality(SoldOnDay(m, d)),
         payableAmount |-> SumOver(Payables, OnDay(m, d))
                           + SumOver(SalePayables, SoldOnDay(m, d))]]

ProfitOf(m, d) ==
    LET O == OnDay(m, d)
    IN  NetProfit(SumOver(Payables, O), SumOver(Shippings, O),
                  SumOver(Costs, O), SumOver(Quantities, O))
        + SumOver(Gains, SoldOnDay(m, d))

MonthlyReport(m) ==
    [totals |-> MonthTotals(m), previous |-> MonthTotals(m - 1).total,
     daily |-> [d \in DaysOf(m) |->
                    Entry(CombinedDailyJalali(m)[d].count, CombinedDailyJalali(m)[d].payableAmount,
                          ProfitOf(m, d))],
     topProducts |-> {P \in SUBSET Variants :
                        IsTopProducts(P, Min(MonthRange(m)), Max(MonthRange(m)))},
     offlineChannels |-> ByChannel(Min(MonthRange(m)), Max(MonthRange(m)))]

(* monthlyJalali: the rows of a year, put into months by their day.        *)
Bucket(y, m) ==
    LET O == {o \in UNION {InMonth(k) : k \in y * YearMonths..((y + 1) * YearMonths - 1)} :
                MonthOfDay(RowDay(order[o].paidAt)) = m}
    IN  Entry(Cardinality(O), SumOver(Payables, O),
              NetProfit(SumOver(Payables, O), SumOver(Shippings, O),
                        SumOver(Costs, O), SumOver(Quantities, O)))
OfflineBucket(y, m) ==
    LET S == {s \in UNION {SoldInMonth(k) : k \in y * YearMonths..((y + 1) * YearMonths - 1)} :
                MonthOfDay(RowDay(sale[s].soldAt)) = m}
    IN  [salesCount |-> Cardinality(S),
         netAmount |-> SumOver(Nets, S), netProfit |-> SumOver(Gains, S)]

--------------------------------------------------------------------------------
(* The figures of different endpoints are the same figures, whatever was   *)
(* edited and deleted before: the rows of the detailed report and of the   *)
(* months' totals sum up to the summaries, a sale counts for one channel,  *)
(* the products' revenue is what orders were totalled at, and an order's   *)
(* page shows the profit of the reports (order.controller.ts:67-68).       *)
ReportsAgree ==
    /\ \A from, to \in Instants : from <= to =>
        LET summary == Summary(from, to)
            combined == CombinedSummary(from, to)
            channels == ByChannel(from, to)
            products == ProductRows(from, to)
            O == PaidBetween(from, to)
        IN  /\ summary.netProfit = SumOver([o \in Orders |-> Detail(o).netProfit], O)
            /\ \A P \in SUBSET Variants : IsTopProducts(P, from, to) =>
                    LET best == SumOver([v \in DOMAIN products |-> products[v].revenue], P)
                    IN  /\ best <= summary.totalAmount
                        /\ P = DOMAIN products => best = summary.totalAmount
            /\ LET days == Daily(from, to)
               IN  summary.payableAmount =
                        SumOver([d \in DOMAIN days |-> days[d].payableAmount], DOMAIN days)
            /\ summary.netProfit = combined.online.netProfit
            /\ OfflineSummary(from, to).netProfit = combined.offline.netProfit
            /\ combined.offline.netProfit =
                    SumOver([c \in DOMAIN channels |-> channels[c].netProfit], DOMAIN channels)
            /\ \A o \in O : Financials(o).netProfit = Detail(o).netProfit
    /\ \A m \in 0..(Max(Instants) \div Day) :
        LET range == MonthRange(m)
        IN  /\ MonthTotals(m).total = CombinedSummary(Min(range), Max(range)).total
            /\ \A d \in DaysOf(m) :
                CombinedDailyJalali(m)[d].count =
                    DailyJalali(m)[d].ordersCount + OfflineDailyJalali(m)[d].salesCount
            /\ SumOver([d \in DaysOf(m) |-> OfflineDailyJalali(m)[d].netAmount], DaysOf(m))
                    <= OfflineBucket(m \div YearMonths, m).netAmount
            /\ SumOver([d \in DaysOf(m) |-> DailyJalali(m)[d].payableAmount], DaysOf(m))
                    <= Bucket(m \div YearMonths, m).payableAmount

================================================================================
