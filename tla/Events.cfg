SPECIFICATION Spec
CONSTANTS
    None = None
    v1 = v1
    v2 = v2
    Events = {e1}
    Payments = {p1}
    Sales = {s1, s2, s3}
    Variants = {v1, v2}
    Requests = {r1, r2}
    Admins = {a1, a2}
    Amounts = {1, 2}
    Baskets <- MCBaskets
    Active = {"ZARINPAL", "ZIBAL"}
    Default = "ZIBAL"
    ShelfStock = 2
    Serial = TRUE
    MaxEdits = 4
    MaxFailures = 2
SYMMETRY Symmetry
INVARIANTS TypeOK PaidSoldOnce ShelfBalanced
CHECK_DEADLOCK FALSE
