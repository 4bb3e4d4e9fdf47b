SPECIFICATION Spec
CONSTANTS
    NoUser = NoUser
    Users = {alice, bob}
    Requests = {r1}
    Sweepers = {s1}
    Quantities = {1, 2}
    ShelfStock = 2
    TTL = 1
    Serial = TRUE
    MaxBaskets = 2
    MaxOrders = 2
    MaxRequests = 5
    MaxTime = 2
    MaxFailures = 0
SYMMETRY Symmetry
INVARIANT StockExplained
CHECK_DEADLOCK FALSE
