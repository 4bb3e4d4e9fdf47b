SPECIFICATION FairSpec
CONSTANTS
    NoUser = NoUser
    Users = {alice}
    Requests = {r1, r2}
    Sweepers = {s1}
    Quantities = {1, 2}
    ShelfStock = 2
    TTL = 1
    Serial = FALSE
    MaxBaskets = 2
    MaxOrders = 1
    MaxRequests = 3
    MaxTime = 2
    MaxFailures = 1
INVARIANTS TypeOK SweepReleasesHeld CheckoutOwnsBasket
PROPERTY HoldsEnd
CHECK_DEADLOCK FALSE
