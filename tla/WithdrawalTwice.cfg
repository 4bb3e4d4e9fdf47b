SPECIFICATION Spec
CONSTANTS
    alice = alice
    bob = bob
    Users = {alice, bob}
    TopUps = {x1}
    Withdrawals = {w1}
    Orders = {o1}
    EventPayments = {e1}
    Owner <- OneCustomer
    Referrer <- OtherReferrer
    Zarinpal = {x1}
    Requests = {admin, admin2}
    Admins = {admin, admin2}
    Amounts = {1}
    Reward = 1
    MaxRequests = 4
    MaxFailures = 0
INVARIANT WithdrawalHandledOnce
CHECK_DEADLOCK FALSE
