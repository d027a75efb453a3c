SPECIFICATION Spec
CONSTANTS
    u1 = u1
    u2 = u2
    s1 = s1
    s2 = s2
    s3 = s3
    p1 = p1
    p2 = p2
    l1 = l1
    l2 = l2
    Users = {u1}
    Sessions = {s1, s2}
    Products = {p1}
    Coupons = {"c1"}
    Owner <- TwoTabs
    LineIds = {}
    MaxOrders = 2
    CartLists = {}
    Drafts <- OneItem
    MaxQty = 2
    MaxCancelled = 2
    Stock = 3
    CartLimit <- NoLimit
    Tracked = {}
    Statuses = {}
    Ops <- CouponOps
    CallsFail = FALSE
    NoUser = NoUser
    NoLine = NoLine
    NoOrder = NoOrder
    NoCoupon = NoCoupon
    NoProduct = NoProduct
INVARIANT CouponOncePerUser
CHECK_DEADLOCK FALSE
