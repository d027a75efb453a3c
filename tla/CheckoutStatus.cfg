SPECIFICATION Spec
CONSTANTS
    u1 = u1
    u2 = u2
    s1 = s1
    s2 = s2
    s3 = s3
    p1 = p1
    p2 = p2
    l1 = l1
    l2 = l2
    Users = {u1}
    Sessions = {s1, s2}
    Products = {p1}
    Coupons = {}
    Owner <- TwoAdmins
    LineIds = {}
    MaxOrders = 1
    CartLists = {}
    Drafts <- PaidOrNot
    MaxQty = 2
    MaxCancelled = 1
    Stock = 3
    CartLimit <- NoLimit
    Tracked = {}
    Statuses = {1, 2, 4, 5, 6}
    Ops <- StatusOps
    CallsFail = TRUE
    NoUser = NoUser
    NoLine = NoLine
    NoOrder = NoOrder
    NoCoupon = NoCoupon
    NoProduct = NoProduct
INVARIANT TypeOK
INVARIANT StatusCoherent
CHECK_DEADLOCK FALSE
