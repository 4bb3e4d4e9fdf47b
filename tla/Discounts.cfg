SPECIFICATION Spec
CONSTANTS
    None = None
    ann = ann
    bea = bea
    k1 = k1
    k2 = k2
    vip = vip
    Buyers = {ann, bea}
    Requests = {r1, r2}
    Admins = {a1}
    Orders = {1, 2}
    Codes = {k1, k2}
    Discounts = {d1}
    Clubs = {i1}
    Referrals = {f1}
    Owner <- BeasCode
    DiscountForms <- OneOff
    ClubForms <- ClubsForms
    ReferralForms <- RefForms
    DiscountChanges <- ShopChanges
    ClubChanges <- ClubsChanges
    ReferralChanges <- RefChanges
    Subtotals = {200}
    Segments = {vip}
    Groups = {}
    ShippingPrice = 50
    FreeFrom = 300
    MaxReferralUses = 1
    WelcomeTiers <- Tiers
    AtTill = {ann}
    MaxTime = 1
    MaxActs = 2
    MaxEdits = 1
SYMMETRY Symmetry
INVARIANTS TypeOK PreviewAgrees CountsStayTrue UsesWithinLimit
CHECK_DEADLOCK FALSE
