\* Liveness: no symmetry.
SPECIFICATION FairSpec
CONSTANTS
    o1 = o1
    o2 = o2
    alice = alice
    bob = bob
    NoOrder = NoOrder
    Orders = {o1, o2}
    Users = {alice, bob}
    Requests = {r1}
    Sweepers = {s1}
    Owner <- TwoOwners
    Zarinpal <- OnlyFirst
    Discounted = {}
    AdminStatuses = {}
    MaxUses = 1
    ShelfStock = 0
    MaxFailures = 1
PROPERTY OverdueSettled
CHECK_DEADLOCK FALSE
