SPECIFICATION FairSpec
CONSTANTS
    Callbacks = {c1, c2}
    Admins = {a1}
    Lines = {l1, l2}
    Quantity = 2
    UnitPrice = 1
    Extras = 2
    Off = 1
    FromWallet = 2
    NewOff = {0}
    NewExtras = {4}
    MaxQuantity = 3
    MaxLost = 2
    MaxFailures = 1
    MaxActs = 2
INVARIANTS TypeOK PaidMeansSettled SettledIsRecorded HooksStartOnce BooksAgree
PROPERTIES AttemptEnds
CHECK_DEADLOCK FALSE
