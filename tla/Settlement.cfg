\* Two orders of one user, two overlapping requests and a sweeper.
SPECIFICATION Spec
CONSTANTS
    o1 = o1
    o2 = o2
    alice = alice
    bob = bob
    NoOrder = NoOrder
    Orders = {o1, o2}
    Users = {alice, bob}
    Requests = {r1, r2}
    Sweepers = {s1}
    Owner <- SameOwner
    Zarinpal <- Orders
    Discounted <- Orders
    AdminStatuses = {"HANDLED"}
    MaxUses = 1
    ShelfStock = 0
    MaxFailures = 1
SYMMETRY Symmetry
INVARIANTS TypeOK PaymentMatchesOrder StockConserved UsesCounted ConfirmedIsPaid HooksRunOnce
PROPERTY KeepsPromise
CHECK_DEADLOCK FALSE
