SPECIFICATION Spec
CONSTANTS
    u1 = u1  u2 = u2  e0 = e0  e1 = e1  n1 = n1  n2 = n2
    UserIds = {u1, u2}
    Names = {n1, n2}
    MaxListings = 2
    WishIds = {w1, w2, w3}
    Products = {p1, p2}
    Clients = {c1, c2}
    Calendar <- MCCalendar
    FirstDay = 32
    LastDay = 96
    Terms = {1, 2}
    MaxPaid = 3
    Scenes <- MCScenes
    EmailOf <- MCEmailOf
    Nobody = Nobody
    NoName = NoName
    NoListing = NoListing
    NoWish = NoWish
    NoData = NoData
    Unborn = Unborn
    Gone = Gone
    Emails = {e1}
    Codes = {k1}
    Requests = {r1, r2}
    MaxSerial = 3
    Life = 6
    MaxClock = 8
    NoSerial = NoSerial
    NoEmail = NoEmail
SYMMETRY Symmetry
INVARIANTS
    TypeOK
    CodeReachesUser
    CodeLasts
    UsernamesUnique
    UsersListFresh
    BadgeShown
    VipMatchesPayments
    SpacedAds
    LiveAMonth
    OneWishPerProduct
PROPERTIES
    ImplementsPromise
CHECK_DEADLOCK FALSE
