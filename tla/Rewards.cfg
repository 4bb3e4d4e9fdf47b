SPECIFICATION Spec
CONSTANTS
    None = None
    ann = ann
    bea = bea
    o1 = o1
    o2 = o2
    o3 = o3
    i1 = i1
    i2 = i2
    dress = dress
    Customers = {ann, bea}
    Orders = {o1, o2, o3}
    Owner <- ThreeOwners
    Amount <- ThreeAmounts
    Category <- ThreeCategories
    MinFrequency = 2
    TopPercent = 20
    NewDays = 0
    RiskDays = 1
    LostDays = 1
    PaidBefore <- Earlier
    RowsBefore <- Rows
    Nights = {1}
    MaxDay = 1
    Incentives = {i1, i2}
    Requests = {r1, r2}
    GivenBefore <- OneGiven
    Existing <- Tables
    Confirmed <- Referred
    Uses <- TwoUses
    Forms <- NewForms
    Changes <- NewChanges
    Overlap = FALSE
    MaxCalls = 2
    MaxEdits = 1
SYMMETRY Symmetry
INVARIANTS TypeOK RewardedOnce FirstPurchaseOnce CashbackNotOverspent FiguresAgree
CHECK_DEADLOCK FALSE
