SPECIFICATION Spec
CONSTANTS
    alice = alice
    bob = bob
    Users = {alice, bob}
    TopUps = {x1}
    Withdrawals = {w1}
    Orders = {o1}
    EventPayments = {e1}
    Owner <- OneCustomer
    Referrer <- OtherReferrer
    Zarinpal = {x1}
    Requests = {r1, admin}
    Admins = {admin}
    Amounts = {1, 2}
    Reward = 1
    MaxRequests = 6
    MaxFailures = 1
INVARIANTS TypeOK BalanceExplained
PROPERTIES DebitsCovered TopUpStaysPaid
CHECK_DEADLOCK FALSE
