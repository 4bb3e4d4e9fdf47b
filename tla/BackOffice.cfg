SPECIFICATION Spec
CONSTANTS
    Orders = {o1}
    Sales = {s1}
    Variants = {v1, v2}
    Admins = {a1}
    Prices = {2, 4}
    Amounts = {0, 6}
    Changes <- MCChanges
    v1 = v1
    v2 = v2
    Percents = {50}
    Baskets <- MCBaskets
    UnitCost = 1
    Placed <- MCPlaced
    ShelfStock = 1
    Serial = TRUE
    MaxQuantity = 2
    MaxActs = 3
    Instants = {40, 92}
    PackagingCost = 1
    Limit = 1
    MonthDays = 2
    YearMonths = 2
    Channels = {"shop", "fair"}
INVARIANTS TypeOK TotalsMatchItems StockBalanced UsesMatchOrders ReportsAgree
CHECK_DEADLOCK FALSE
