SPECIFICATION Spec
CONSTANTS
    NoUser = NoUser
    Users = {alice}
    Requests = {r1}
    Sweepers = {s1}
    Quantities = {1, 2}
    ShelfStock = 2
    TTL = 1
    Serial = TRUE
    MaxBaskets = 2
    MaxOrders = 0
    MaxRequests = 3
    MaxTime = 1
    MaxFailures = 0
INVARIANT HoldsAreBacked
CHECK_DEADLOCK FALSE
